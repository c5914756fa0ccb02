------------------------ MODULE EdgeAdmission_proofs ------------------------
(***************************************************************************)
(* Proofs about EdgeAdmission, for every value of its constants: any       *)
(* finite set of requests, any isolates, any environment of limits, any    *)
(* clock, with the shared tier on or off. The only assumptions are         *)
(* EnvAssumption and RequestsAssumption, and for the probe that the chat   *)
(* is one of the routes (ProbeAssumption).                                 *)
(*                                                                         *)
(* The slots of two lanes (an isolate and a route) have nothing to do with *)
(* each other, so whatever a step does is told twice: as what it does to   *)
(* the requests (it rests, or it moves one request on its lane), and as    *)
(* what that makes of each lane. SlotInv follows lane by lane, and a       *)
(* lane's move is a step of FairSlots.                                     *)
(*                                                                         *)
(* The windows of the shared tier are kept honest by WindowInv: a number   *)
(* is read from the cache before the request is counted and written after  *)
(* it, so whatever is stored, in flight or about to be written is at most  *)
(* the number of requests let through.                                     *)
(***************************************************************************)
EXTENDS EdgeAdmission, FiniteSetTheorems, SequenceTheorems, TLAPS

(* The ceiling of a route is a number, whatever the environment says. *)
LEMMA CapsAreNumbers ==
  \A rt \in Routes : Cap[rt] \in Nat
<1>1. \A rt \in Routes : CeilingVar[rt] \in {"DEMO_MAX_CONCURRENT_CHAT", "DEMO_MAX_CONCURRENT_SPEECH"}
  BY RequestsAssumption DEF CeilingVar
<1>2. IntOf("DEMO_MAX_CONCURRENT_CHAT") \in Nat /\ IntOf("DEMO_MAX_CONCURRENT_SPEECH") \in Nat
  <2>1. /\ Default.DEMO_MAX_CONCURRENT_CHAT \in Nat
        /\ Default.DEMO_MAX_CONCURRENT_SPEECH \in Nat
    BY SMT DEF Default
  <2>2. /\ Bounds.DEMO_MAX_CONCURRENT_CHAT = <<1, 10000>>
        /\ Bounds.DEMO_MAX_CONCURRENT_SPEECH = <<1, 10000>>
    BY SMT DEF Bounds
  <2> QED
    BY <2>1, <2>2 DEF IntOf
<1>3. Cap = [rt \in Routes |-> IntOf(CeilingVar[rt])]
  BY DEF Cap
<1> QED
  BY <1>1, <1>2, <1>3

LEMMA BucketsAreNumbers ==
  ASSUME NEW t \in Nat, NEW s \in Scales PROVE Bucket(t, s) \in Nat
<1>1. Span[s] \in Nat /\ Span[s] > 0
  BY RequestsAssumption
<1> QED
  BY <1>1 DEF Bucket

LEMMA UnionIsABag ==
  ASSUME NEW A, NEW B, IsABag(A), IsABag(B) PROVE IsABag(A (+) B)
BY DEF IsABag, (+)

LEMMA DifferenceIsABag ==
  ASSUME NEW A, NEW B, IsABag(A), \A k \in DOMAIN B : B[k] \in Nat PROVE IsABag(A (-) B)
BY DEF IsABag, (-)

LEMMA ChargesAreBags ==
  /\ \A S : IsABag(SetToBag(S))
  /\ \A t : \A n \in Nat \ {0} : IsABag(UnitBag(t, n))
  /\ \A t : \A n \in Nat : \A k \in DOMAIN UnitBag(t, n) : UnitBag(t, n)[k] \in Nat
BY DEF IsABag, SetToBag, UnitBag

(* A request is a record with these fields, whose counters are numbers.    *)
(* IsRequest says no more than the proofs need.                            *)
FieldNames == {"pc", "at", "reason", "held", "times", "refunded", "used", "next", "owes", "counted"}

IsRequest(q) ==
  /\ DOMAIN q = FieldNames
  /\ q = [f \in DOMAIN q |-> q[f]]
  /\ q.pc \in Stages
  /\ q.at \in Nat
  /\ q.times \in Nat
  /\ q.used \in Nat
  /\ q.owes \in Nat

(* Writing one field of a request leaves it a request, and at its stage    *)
(* unless the stage is what was written.                                   *)
LEMMA Updates ==
  ASSUME NEW q, IsRequest(q)
  PROVE /\ \A pc \in Stages : IsRequest([q EXCEPT !.pc = pc]) /\ [q EXCEPT !.pc = pc].pc = pc
        /\ \A x : IsRequest([q EXCEPT !.reason = x]) /\ [q EXCEPT !.reason = x].pc = q.pc
        /\ \A x : IsRequest([q EXCEPT !.held = x]) /\ [q EXCEPT !.held = x].pc = q.pc
        /\ \A x \in Nat : IsRequest([q EXCEPT !.times = x]) /\ [q EXCEPT !.times = x].pc = q.pc
        /\ \A x : IsRequest([q EXCEPT !.refunded = x]) /\ [q EXCEPT !.refunded = x].pc = q.pc
        /\ \A x \in Nat : IsRequest([q EXCEPT !.used = x]) /\ [q EXCEPT !.used = x].pc = q.pc
        /\ \A x : IsRequest([q EXCEPT !.next = x]) /\ [q EXCEPT !.next = x].pc = q.pc
        /\ \A x \in Nat : IsRequest([q EXCEPT !.owes = x]) /\ [q EXCEPT !.owes = x].pc = q.pc
        /\ \A x : IsRequest([q EXCEPT !.counted = x]) /\ [q EXCEPT !.counted = x].pc = q.pc
        /\ \A x \in Nat : IsRequest([q EXCEPT !.at = x]) /\ [q EXCEPT !.at = x].pc = q.pc
BY DEF IsRequest, FieldNames

(* The entries whose value is one number; a "wide" entry holds one for     *)
(* every scale.                                                            *)
Counted(k) == k[1] \in {"minute", "units"}

CountersTyped ==
  /\ DOMAIN windows = Isolates /\ DOMAIN budget = Isolates
  /\ \A i \in Isolates : IsABag(windows[i]) /\ IsABag(budget[i])

CacheTyped ==
  /\ \A k \in DOMAIN entry : Counted(k) => entry[k] \in Nat
  /\ \A w \in stray : Counted(w.key) => w.body \in Nat
  /\ IsFiniteSet(stray)
  /\ Cardinality(stray) <= MaxStray

RequestsTyped == DOMAIN req = Requests /\ \A r \in Requests : IsRequest(req[r])

(* What TypeOK needs to be inductive: the counters of limits.js are bags,  *)
(* the cached numbers are numbers, and every request is one.               *)
TypeInv ==
  /\ now \in 0 .. MaxNow
  /\ inflight \in [Isolates -> [Routes -> Nat]]
  /\ waiters \in [Isolates -> [Routes -> Seq(Requests)]]
  /\ ledger \in [Isolates -> [BudgetScales -> [pending : Nat, bucket : Nat]]]
  /\ CountersTyped
  /\ CacheTyped
  /\ RequestsTyped

LEMMA IdleIsARequest == IsRequest(Idle) /\ Idle.pc = "new" /\ Idle.used = 0
BY DEF Idle, IsRequest, FieldNames, Stages

LEMMA InitTypes == AdmissionInit => TypeInv
<1> SUFFICES ASSUME AdmissionInit PROVE TypeInv
  OBVIOUS
<1> USE DEF AdmissionInit
<1>1. now \in 0 .. MaxNow
  BY RequestsAssumption
<1>2. inflight \in [Isolates -> [Routes -> Nat]]
  OBVIOUS
<1>3. waiters \in [Isolates -> [Routes -> Seq(Requests)]]
  OBVIOUS
<1>4. ledger \in [Isolates -> [BudgetScales -> [pending : Nat, bucket : Nat]]]
  OBVIOUS
<1>5. CountersTyped
  BY DEF CountersTyped, EmptyBag, SetToBag, IsABag
<1>6. CacheTyped
  BY FS_EmptySet, RequestsAssumption DEF CacheTyped
<1>7. RequestsTyped
  BY IdleIsARequest DEF RequestsTyped
<1> QED
  BY <1>1, <1>2, <1>3, <1>4, <1>5, <1>6, <1>7 DEF TypeInv

LEMMA StageNames ==
  /\ FirstStage \in {"minute", "granted"}
  /\ FirstStage \in Stages
  /\ \A s \in BudgetScales : s \in Stages /\ PutStage[s] \in Stages
BY DEF FirstStage, Stages, BudgetScales, PutStage

(* What a refusal and an arrival make of a request. *)
LEMMA RefusedIsDone ==
  ASSUME NEW q, IsRequest(q), NEW reason
  PROVE IsRequest(Refused(q, reason)) /\ Refused(q, reason).pc = "done"
<1> DEFINE a == [q EXCEPT !.pc = "done"]
           b == [a EXCEPT !.reason = reason]
           c == [b EXCEPT !.used = 0]
           d == [c EXCEPT !.owes = 0]
<1>1. IsRequest(a) /\ a.pc = "done"
  BY Updates DEF Stages
<1>2. IsRequest(b) /\ b.pc = "done"
  BY <1>1, Updates
<1>3. IsRequest(c) /\ c.pc = "done"
  BY <1>2, Updates
<1>4. IsRequest(d) /\ d.pc = "done"
  BY <1>3, Updates
<1>5. Refused(q, reason) = d
  BY DEF Refused
<1> QED
  BY <1>4, <1>5

LEMMA ArrivedIsThere ==
  ASSUME now \in Nat, NEW r, NEW pc \in Stages
  PROVE IsRequest(Arrived(r, pc)) /\ Arrived(r, pc).pc = pc
BY DEF Arrived, Idle, IsRequest, FieldNames, Stages

(* Where a request is in the lane holding a slot: past the wait, not yet   *)
(* answered.                                                               *)
Inside(pc) == pc \notin {"new", "queued", "done"}

Became(r, pc) == \A p \in Requests : req'[p].pc = IF p = r THEN pc ELSE req[p].pc

Line(r) == waiters[IsolateOf[r]][RouteOf[r]]

(* What one step does to the requests: nothing that a lane can see, or one *)
(* of the seven ways in which request r moves on its lane.                 *)
Rests ==
  /\ \A p \in Requests : req'[p].pc = req[p].pc
  /\ UNCHANGED <<inflight, waiters>>

StaysInside(r) ==
  /\ Inside(req[r].pc)
  /\ \E pc \in Stages : Inside(pc) /\ Became(r, pc)
  /\ UNCHANGED <<inflight, waiters>>

TurnedAway(r) ==
  /\ req[r].pc = "new" /\ Became(r, "done")
  /\ UNCHANGED <<inflight, waiters>>

Takes(r) ==
  /\ req[r].pc = "new" /\ SlotFree(r)
  /\ Became(r, FirstStage)
  /\ inflight' = [inflight EXCEPT ![IsolateOf[r]][RouteOf[r]] = @ + 1]
  /\ UNCHANGED waiters

Joins(r) ==
  /\ req[r].pc = "new" /\ ~SlotFree(r) /\ Len(Line(r)) < Depth
  /\ Became(r, "queued")
  /\ waiters' = [waiters EXCEPT ![IsolateOf[r]][RouteOf[r]] = Append(@, r)]
  /\ UNCHANGED inflight

GivesUp(r) ==
  /\ req[r].pc = "queued" /\ Became(r, "done")
  /\ \E k \in DOMAIN Line(r) :
        /\ Line(r)[k] = r
        /\ waiters' = [waiters EXCEPT ![IsolateOf[r]][RouteOf[r]] = RemoveAt(@, k)]
  /\ UNCHANGED inflight

Leaves(r) ==
  /\ Inside(req[r].pc) /\ Line(r) = <<>>
  /\ Became(r, "done")
  /\ inflight' = [inflight EXCEPT ![IsolateOf[r]][RouteOf[r]] = IF @ > 0 THEN @ - 1 ELSE 0]
  /\ UNCHANGED waiters

PassesOn(r) ==
  /\ Inside(req[r].pc) /\ Line(r) # <<>>
  /\ \A p \in Requests : req'[p].pc = IF p = Head(Line(r)) THEN FirstStage
                                      ELSE IF p = r THEN "done" ELSE req[p].pc
  /\ waiters' = [waiters EXCEPT ![IsolateOf[r]][RouteOf[r]] = Tail(@)]
  /\ UNCHANGED inflight

OnLane(r) ==
  \/ StaysInside(r) \/ TurnedAway(r) \/ Takes(r) \/ Joins(r)
  \/ GivesUp(r) \/ Leaves(r) \/ PassesOn(r)

(* Writing a request back changes that request only. *)
LEMMA Placing ==
  ASSUME RequestsTyped, NEW r \in Requests, NEW q, IsRequest(q),
         req' = [req EXCEPT ![r] = q]
  PROVE RequestsTyped' /\ Became(r, q.pc)
<1>1. DOMAIN req' = Requests /\ \A p \in Requests : req'[p] = IF p = r THEN q ELSE req[p]
  BY DEF RequestsTyped
<1>2. \A p \in Requests : IsRequest(req'[p])
  BY <1>1 DEF RequestsTyped
<1> QED
  BY <1>1, <1>2 DEF RequestsTyped, Became

(* Charging and refunding leave the counters bags. *)
LEMMA ChargesKeepBags ==
  ASSUME CountersTyped, NEW r \in Requests
  PROVE /\ windows' = windows /\ budget' = budget => CountersTyped'
        /\ ChargeWindows(r) /\ budget' = budget => CountersTyped'
        /\ \A t : ChargeBudget(r, t) /\ windows' = windows => CountersTyped'
        /\ \A t : ChargeWindows(r) /\ ChargeBudget(r, t) => CountersTyped'
<1> DEFINE i == IsolateOf[r]
<1>1. i \in Isolates
  BY RequestsAssumption
<1>2. IsABag(windows[i] (+) SetToBag(WindowKeysOf(r, now)))
  BY <1>1, UnionIsABag, ChargesAreBags DEF CountersTyped
<1>3. \A t : IsABag(budget[i] (+) UnitBag(t, Units(RouteOf[r])))
  <2>1. Units(RouteOf[r]) \in Nat \ {0}
    BY DEF Units
  <2> QED
    BY <1>1, <2>1, UnionIsABag, ChargesAreBags DEF CountersTyped
<1>4. ChargeWindows(r) => DOMAIN windows' = Isolates /\ \A j \in Isolates : IsABag(windows'[j])
  <2> SUFFICES ASSUME ChargeWindows(r)
               PROVE DOMAIN windows' = Isolates /\ \A j \in Isolates : IsABag(windows'[j])
    OBVIOUS
  <2>1. /\ DOMAIN windows' = Isolates
        /\ \A j \in Isolates :
              windows'[j] = IF j = i THEN windows[i] (+) SetToBag(WindowKeysOf(r, now)) ELSE windows[j]
    BY DEF ChargeWindows, CountersTyped
  <2> QED
    BY <1>2, <2>1 DEF CountersTyped
<1>5. ASSUME NEW t, ChargeBudget(r, t)
      PROVE DOMAIN budget' = Isolates /\ \A j \in Isolates : IsABag(budget'[j])
  <2>1. /\ DOMAIN budget' = Isolates
        /\ \A j \in Isolates :
              budget'[j] = IF j = i THEN budget[i] (+) UnitBag(t, Units(RouteOf[r])) ELSE budget[j]
    BY <1>5 DEF ChargeBudget, CountersTyped
  <2> QED
    BY <1>3, <2>1 DEF CountersTyped
<1> QED
  BY <1>4, <1>5 DEF CountersTyped

LEMMA RefundsKeepBags ==
  ASSUME CountersTyped, RequestsTyped, NEW r \in Requests, RefundUnits(r)
  PROVE /\ windows' = windows => CountersTyped'
        /\ RefundWindows(r) => CountersTyped'
<1> DEFINE i == IsolateOf[r]
           back == UnitBag(req[r].at, Units(RouteOf[r]) * req[r].times)
<1>1. i \in Isolates
  BY RequestsAssumption
<1>2. IsABag(budget[i] (-) back)
  <2>1. Units(RouteOf[r]) * req[r].times \in Nat
    BY DEF Units, RequestsTyped, IsRequest
  <2>2. \A k \in DOMAIN back : back[k] \in Nat
    BY <2>1, ChargesAreBags
  <2> HIDE DEF back
  <2> QED
    BY <1>1, <2>2, DifferenceIsABag DEF CountersTyped
<1>3. IsABag(windows[i] (-) SetToBag(req[r].held))
  <2>1. \A k \in DOMAIN SetToBag(req[r].held) : SetToBag(req[r].held)[k] \in Nat
    BY DEF SetToBag
  <2> QED
    BY <1>1, <2>1, DifferenceIsABag DEF CountersTyped
<1>4. DOMAIN budget' = Isolates /\ \A j \in Isolates : IsABag(budget'[j])
  <2>1. /\ DOMAIN budget' = Isolates
        /\ \A j \in Isolates : budget'[j] = IF j = i THEN budget[i] (-) back ELSE budget[j]
    BY DEF RefundUnits, CountersTyped
  <2> HIDE DEF back
  <2> QED
    BY <1>2, <2>1 DEF CountersTyped
<1>5. RefundWindows(r) => DOMAIN windows' = Isolates /\ \A j \in Isolates : IsABag(windows'[j])
  <2> SUFFICES ASSUME RefundWindows(r)
               PROVE DOMAIN windows' = Isolates /\ \A j \in Isolates : IsABag(windows'[j])
    OBVIOUS
  <2>1. /\ DOMAIN windows' = Isolates
        /\ \A j \in Isolates :
              windows'[j] = IF j = i THEN windows[i] (-) SetToBag(req[r].held) ELSE windows[j]
    BY DEF RefundWindows, CountersTyped
  <2> QED
    BY <1>3, <2>1 DEF CountersTyped
<1> QED
  BY <1>4, <1>5 DEF CountersTyped

(* A step of request r keeps the types and is one of the ways above. One   *)
(* lemma for every action follows.                                         *)
Kept(r) == TypeInv' /\ OnLane(r)

LEMMA LinesTyped ==
  ASSUME TypeInv, NEW r \in Requests
  PROVE /\ IsolateOf[r] \in Isolates /\ RouteOf[r] \in Routes
        /\ Line(r) \in Seq(Requests)
        /\ now \in Nat
<1>1. IsolateOf[r] \in Isolates /\ RouteOf[r] \in Routes
  BY RequestsAssumption
<1>2. waiters \in [Isolates -> [Routes -> Seq(Requests)]] /\ now \in 0 .. MaxNow
  BY DEF TypeInv
<1>3. now \in Nat
  BY <1>2, RequestsAssumption
<1> QED
  BY <1>1, <1>2, <1>3 DEF Line

LEMMA AdmitTypes ==
  ASSUME TypeInv, NEW r \in Requests, Admit(r)
  PROVE Kept(r)
<1> DEFINE i == IsolateOf[r]
           rt == RouteOf[r]
<1>0. /\ i \in Isolates /\ rt \in Routes /\ now \in Nat
      /\ RequestsTyped /\ CountersTyped /\ CacheTyped
      /\ inflight \in [Isolates -> [Routes -> Nat]]
      /\ waiters \in [Isolates -> [Routes -> Seq(Requests)]]
  BY LinesTyped DEF TypeInv
<1>1. SUFFICES /\ inflight' \in [Isolates -> [Routes -> Nat]]
               /\ waiters' \in [Isolates -> [Routes -> Seq(Requests)]]
               /\ CountersTyped'
               /\ RequestsTyped'
               /\ OnLane(r)
  BY DEF Kept, TypeInv, Admit, CacheTyped
<1>2. req[r].pc = "new" /\ "new" \in Stages /\ "done" \in Stages /\ "queued" \in Stages
  BY DEF Admit, Stages
<1>3. IsRequest([Idle EXCEPT !.at = now])
  BY <1>0, IdleIsARequest, Updates
<1>4. \A reason : /\ IsRequest(Refused([Idle EXCEPT !.at = now], reason))
                  /\ Refused([Idle EXCEPT !.at = now], reason).pc = "done"
  BY <1>3, RefusedIsDone
<1>5. ASSUME NEW reason, req' = [req EXCEPT ![r] = Refused([Idle EXCEPT !.at = now], reason)],
             UNCHANGED <<windows, budget, inflight, waiters>>
      PROVE Kept(r)
  <2>1. RequestsTyped' /\ Became(r, "done")
    <3> DEFINE q == Refused([Idle EXCEPT !.at = now], reason)
    <3>1. IsRequest(q) /\ q.pc = "done" /\ req' = [req EXCEPT ![r] = q]
      BY <1>4, <1>5
    <3> HIDE DEF q
    <3> QED
      BY <1>0, <3>1, Placing
  <2>2. CountersTyped'
    BY <1>0, <1>5, ChargesKeepBags
  <2>3. OnLane(r)
    BY <2>1, <1>5, <1>2 DEF OnLane, TurnedAway
  <2> QED
    BY <1>0, <1>5, <2>1, <2>2, <2>3 DEF Kept, TypeInv, Admit, CacheTyped
<1>6. ASSUME RefuseBudget(r) PROVE Kept(r)
  <2> DEFINE a == [Arrived(r, "done") EXCEPT !.times = 0]
             q == Refused(a, "budget_exhausted")
  <2>1. IsRequest(a)
    BY <1>0, <1>2, ArrivedIsThere, Updates
  <2>2. IsRequest(q) /\ q.pc = "done"
    BY <2>1, RefusedIsDone
  <2>3. req' = [req EXCEPT ![r] = q]
    BY <1>6 DEF RefuseBudget
  <2>4. RequestsTyped' /\ Became(r, "done")
    <3> HIDE DEF q
    <3> QED
      BY <1>0, <2>2, <2>3, Placing
  <2>5. CountersTyped' /\ UNCHANGED <<inflight, waiters>>
    BY <1>0, <1>6, ChargesKeepBags DEF RefuseBudget
  <2>6. OnLane(r)
    BY <2>4, <2>5, <1>2 DEF OnLane, TurnedAway
  <2> QED
    BY <1>0, <2>4, <2>5, <2>6 DEF Kept, TypeInv, Admit, CacheTyped
<1>7. ASSUME TakeSlot(r) PROVE Kept(r)
  <2> DEFINE q == Arrived(r, FirstStage)
  <2>1. IsRequest(q) /\ q.pc = FirstStage
    BY <1>0, StageNames, ArrivedIsThere
  <2>2. req' = [req EXCEPT ![r] = q]
    BY <1>7 DEF TakeSlot
  <2>3. RequestsTyped' /\ Became(r, FirstStage)
    <3> HIDE DEF q
    <3> QED
      BY <1>0, <2>1, <2>2, Placing
  <2>4. CountersTyped'
    BY <1>0, <1>7, ChargesKeepBags DEF TakeSlot
  <2>5. /\ inflight' = [inflight EXCEPT ![i][rt] = @ + 1] /\ waiters' = waiters
        /\ SlotFree(r)
    BY <1>7 DEF TakeSlot
  <2>6. OnLane(r)
    BY <2>3, <2>5, <1>2 DEF OnLane, Takes
  <2>7. inflight' \in [Isolates -> [Routes -> Nat]]
    BY <1>0, <2>5
  <2> QED
    BY <1>0, <2>3, <2>4, <2>5, <2>6, <2>7 DEF Kept, TypeInv, Admit, CacheTyped
<1>8. ASSUME JoinQueue(r) PROVE Kept(r)
  <2> DEFINE q == Arrived(r, "queued")
  <2>1. IsRequest(q) /\ q.pc = "queued"
    BY <1>0, <1>2, ArrivedIsThere
  <2>2. req' = [req EXCEPT ![r] = q]
    BY <1>8 DEF JoinQueue
  <2>3. RequestsTyped' /\ Became(r, "queued")
    <3> HIDE DEF q
    <3> QED
      BY <1>0, <2>1, <2>2, Placing
  <2>4. CountersTyped'
    BY <1>0, <1>8, ChargesKeepBags DEF JoinQueue
  <2>5. /\ waiters' = [waiters EXCEPT ![i][rt] = Append(@, r)] /\ inflight' = inflight
        /\ ~SlotFree(r) /\ Len(Line(r)) < Depth
    BY <1>8 DEF JoinQueue, Line
  <2>6. OnLane(r)
    BY <2>3, <2>5, <1>2 DEF OnLane, Joins
  <2>7. waiters' \in [Isolates -> [Routes -> Seq(Requests)]]
    <3>1. Append(waiters[i][rt], r) \in Seq(Requests)
      BY <1>0
    <3> QED
      BY <1>0, <2>5, <3>1
  <2> QED
    BY <1>0, <2>3, <2>4, <2>5, <2>6, <2>7 DEF Kept, TypeInv, Admit, CacheTyped
<1>9. CASE ForbidOrigin(r)
  BY <1>5, <1>9 DEF ForbidOrigin, Kept, TypeInv
<1>10. CASE RefuseWindow(r)
  BY <1>5, <1>10 DEF RefuseWindow, Kept, TypeInv
<1>11. CASE RefuseFull(r)
  BY <1>5, <1>11 DEF RefuseFull, Kept, TypeInv
<1> QED
  BY <1>6, <1>7, <1>8, <1>9, <1>10, <1>11 DEF Admit, Kept, TypeInv

LEMMA HandOffTypes ==
  ASSUME TypeInv, NEW r \in Requests, Inside(req[r].pc),
         NEW q, IsRequest(q), q.pc = "done",
         HandOffOrRelease(IsolateOf[r], RouteOf[r]),
         req' = WithHandOff([req EXCEPT ![r] = q], IsolateOf[r], RouteOf[r])
  PROVE /\ inflight' \in [Isolates -> [Routes -> Nat]]
        /\ waiters' \in [Isolates -> [Routes -> Seq(Requests)]]
        /\ RequestsTyped'
        /\ OnLane(r)
<1> DEFINE i == IsolateOf[r]
           rt == RouteOf[r]
           h == Head(waiters[i][rt])
<1>0. /\ i \in Isolates /\ rt \in Routes /\ RequestsTyped
      /\ inflight \in [Isolates -> [Routes -> Nat]]
      /\ waiters \in [Isolates -> [Routes -> Seq(Requests)]]
      /\ waiters[i][rt] \in Seq(Requests)
  BY LinesTyped DEF TypeInv
<1>1. CASE waiters[i][rt] = <<>>
  <2>1. /\ inflight' = [inflight EXCEPT ![i][rt] = IF @ > 0 THEN @ - 1 ELSE 0]
        /\ waiters' = waiters /\ req' = [req EXCEPT ![r] = q]
    BY <1>1 DEF HandOffOrRelease, WithHandOff
  <2>2. RequestsTyped' /\ Became(r, "done")
    BY <1>0, <2>1, Placing
  <2>3. inflight' \in [Isolates -> [Routes -> Nat]]
    <3>1. (IF inflight[i][rt] > 0 THEN inflight[i][rt] - 1 ELSE 0) \in Nat
      BY <1>0
    <3> QED
      BY <1>0, <2>1, <3>1
  <2>4. OnLane(r)
    BY <1>1, <2>1, <2>2 DEF OnLane, Leaves, Line
  <2> QED
    BY <1>0, <2>1, <2>2, <2>3, <2>4
<1>2. CASE waiters[i][rt] # <<>>
  <2> DEFINE rq == [req EXCEPT ![r] = q]
  <2>1. /\ inflight' = inflight /\ waiters' = [waiters EXCEPT ![i][rt] = Tail(@)]
        /\ req' = [rq EXCEPT ![h].pc = FirstStage]
    BY <1>2 DEF HandOffOrRelease, WithHandOff
  <2>2. h \in Requests /\ Tail(waiters[i][rt]) \in Seq(Requests)
    BY <1>0, <1>2
  <2>3. /\ DOMAIN rq = Requests
        /\ \A p \in Requests : IsRequest(rq[p]) /\ rq[p].pc = IF p = r THEN "done" ELSE req[p].pc
    BY <1>0 DEF RequestsTyped
  <2>4. IsRequest([rq[h] EXCEPT !.pc = FirstStage]) /\ [rq[h] EXCEPT !.pc = FirstStage].pc = FirstStage
    <3>1. PICK w : w = rq[h]
      OBVIOUS
    <3>2. IsRequest(w)
      <4> HIDE DEF rq, h
      <4> QED
        BY <2>2, <2>3, <3>1
    <3>3. IsRequest([w EXCEPT !.pc = FirstStage]) /\ [w EXCEPT !.pc = FirstStage].pc = FirstStage
      BY <3>2, StageNames, Updates
    <3> HIDE DEF rq, h
    <3> QED
      BY <3>1, <3>3
  <2>5. /\ DOMAIN req' = Requests
        /\ \A p \in Requests : req'[p] = IF p = h THEN [rq[h] EXCEPT !.pc = FirstStage] ELSE rq[p]
    <3> HIDE DEF rq, h
    <3> QED
      BY <2>1, <2>2, <2>3
  <2>6. RequestsTyped'
    <3> HIDE DEF rq, h
    <3> QED
      BY <2>3, <2>4, <2>5 DEF RequestsTyped
  <2>7. \A p \in Requests : req'[p].pc = IF p = h THEN FirstStage
                                         ELSE IF p = r THEN "done" ELSE req[p].pc
    <3> HIDE DEF rq, h
    <3> QED
      BY <2>3, <2>4, <2>5
  <2>8. waiters' \in [Isolates -> [Routes -> Seq(Requests)]]
    BY <1>0, <2>1, <2>2
  <2>9. PassesOn(r)
    BY <1>2, <2>1, <2>7 DEF PassesOn, Line
  <2> QED
    BY <1>0, <2>1, <2>6, <2>8, <2>9 DEF OnLane
<1> QED
  BY <1>1, <1>2

LEMMA ReleaseTypes ==
  ASSUME TypeInv, NEW r \in Requests, NEW reason, Release(r, reason)
  PROVE Kept(r)
<1> DEFINE a == [req[r] EXCEPT !.pc = "done"]
           q == [a EXCEPT !.reason = reason]
<1>0. /\ RequestsTyped /\ CountersTyped /\ CacheTyped /\ IsRequest(req[r])
      /\ ledger \in [Isolates -> [BudgetScales -> [pending : Nat, bucket : Nat]]]
      /\ IsolateOf[r] \in Isolates
  BY LinesTyped DEF TypeInv, RequestsTyped
<1>1. "done" \in Stages /\ Inside("granted") /\ req[r].pc = "granted"
  BY DEF Stages, Inside, Release
<1>2. IsRequest(q) /\ q.pc = "done"
  <2>1. IsRequest(a) /\ a.pc = "done"
    BY <1>0, <1>1, Updates
  <2> HIDE DEF a
  <2> QED
    BY <2>1, Updates
<1>3. [req EXCEPT ![r].pc = "done", ![r].reason = reason] = [req EXCEPT ![r] = q]
  BY <1>0 DEF RequestsTyped
<1>4. /\ req' = WithHandOff([req EXCEPT ![r] = q], IsolateOf[r], RouteOf[r])
      /\ HandOffOrRelease(IsolateOf[r], RouteOf[r])
  BY <1>3 DEF Release
<1>5. /\ inflight' \in [Isolates -> [Routes -> Nat]]
      /\ waiters' \in [Isolates -> [Routes -> Seq(Requests)]]
      /\ RequestsTyped' /\ OnLane(r)
  <2> HIDE DEF q
  <2> QED
    BY <1>1, <1>2, <1>4, HandOffTypes
<1>6. ledger' \in [Isolates -> [BudgetScales -> [pending : Nat, bucket : Nat]]]
  <2> DEFINE units == Units(RouteOf[r]) * req[r].times
             own == ledger[IsolateOf[r]]
             new == [s \in BudgetScales |->
                IF s \in CappedScales /\ ~req[r].refunded
                THEN Accrued(own[s], Bucket(req[r].at, s), units)
                ELSE own[s]]
  <2>1. units \in Nat
    BY <1>0 DEF Units, IsRequest
  <2>2. \A s \in BudgetScales : Bucket(req[r].at, s) \in Nat
    BY <1>0, BucketsAreNumbers DEF IsRequest, BudgetScales, Scales
  <2>3. \A l \in [pending : Nat, bucket : Nat], b \in Nat, u \in Nat :
           Accrued(l, b, u) \in [pending : Nat, bucket : Nat]
    BY DEF Accrued
  <2>4. new \in [BudgetScales -> [pending : Nat, bucket : Nat]]
    BY <1>0, <2>1, <2>2, <2>3
  <2>5. ledger' = [ledger EXCEPT ![IsolateOf[r]] = new]
    BY DEF Release, Settle
  <2> HIDE DEF new
  <2> QED
    BY <1>0, <2>4, <2>5
<1>7. CountersTyped' /\ CacheTyped' /\ now' \in 0 .. MaxNow
  BY <1>0 DEF Release, TypeInv, CountersTyped, CacheTyped
<1> QED
  BY <1>5, <1>6, <1>7 DEF Kept, TypeInv

LEMMA SharedRefuseTypes ==
  ASSUME TypeInv, NEW r \in Requests, Inside(req[r].pc), NEW reason, SharedRefuse(r, reason)
  PROVE /\ inflight' \in [Isolates -> [Routes -> Nat]]
        /\ waiters' \in [Isolates -> [Routes -> Seq(Requests)]]
        /\ CountersTyped' /\ RequestsTyped' /\ OnLane(r)
<1> DEFINE a == [req[r] EXCEPT !.held = {}]
           b == [a EXCEPT !.times = 0]
           q == Refused(b, reason)
<1>0. RequestsTyped /\ CountersTyped /\ IsRequest(req[r])
  BY DEF TypeInv, RequestsTyped
<1>1. IsRequest(q) /\ q.pc = "done"
  <2>1. IsRequest(a)
    BY <1>0, Updates
  <2>2. IsRequest(b)
    <3> HIDE DEF a
    <3> QED
      BY <2>1, Updates
  <2> HIDE DEF b
  <2> QED
    BY <2>2, RefusedIsDone
<1>2. /\ req' = WithHandOff([req EXCEPT ![r] = q], IsolateOf[r], RouteOf[r])
      /\ HandOffOrRelease(IsolateOf[r], RouteOf[r])
  BY <1>0 DEF SharedRefuse, RequestsTyped
<1>3. /\ inflight' \in [Isolates -> [Routes -> Nat]]
      /\ waiters' \in [Isolates -> [Routes -> Seq(Requests)]]
      /\ RequestsTyped' /\ OnLane(r)
  <2> HIDE DEF q
  <2> QED
    BY <1>1, <1>2, HandOffTypes
<1>4. CountersTyped'
  BY <1>0, RefundsKeepBags DEF SharedRefuse
<1> QED
  BY <1>3, <1>4

LEMMA ExpireTypes ==
  ASSUME TypeInv, NEW r \in Requests, Expire(r)
  PROVE Kept(r)
<1> DEFINE a == [req[r] EXCEPT !.held = {}]
           b == [a EXCEPT !.times = 0]
           q == Refused(b, "at_capacity")
           i == IsolateOf[r]
           rt == RouteOf[r]
<1>0. /\ RequestsTyped /\ CountersTyped /\ IsRequest(req[r])
      /\ i \in Isolates /\ rt \in Routes
      /\ waiters \in [Isolates -> [Routes -> Seq(Requests)]]
  BY LinesTyped DEF TypeInv, RequestsTyped
<1>1. IsRequest(q) /\ q.pc = "done"
  <2>1. IsRequest(a)
    BY <1>0, Updates
  <2>2. IsRequest(b)
    <3> HIDE DEF a
    <3> QED
      BY <2>1, Updates
  <2> HIDE DEF b
  <2> QED
    BY <2>2, RefusedIsDone
<1>2. req' = [req EXCEPT ![r] = q]
  BY <1>0 DEF Expire, RequestsTyped
<1>3. RequestsTyped' /\ Became(r, "done")
  <2> HIDE DEF q
  <2> QED
    BY <1>0, <1>1, <1>2, Placing
<1>4. PICK k \in DOMAIN waiters[i][rt] :
        waiters[i][rt][k] = r /\ waiters' = [waiters EXCEPT ![i][rt] = RemoveAt(@, k)]
  BY DEF Expire
<1>5. RemoveAt(waiters[i][rt], k) \in Seq(Requests)
  <2>1. waiters[i][rt] \in Seq(Requests) /\ k \in 1 .. Len(waiters[i][rt])
    BY <1>0, <1>4
  <2>2. /\ SubSeq(waiters[i][rt], 1, k - 1) \in Seq(Requests)
        /\ SubSeq(waiters[i][rt], k + 1, Len(waiters[i][rt])) \in Seq(Requests)
    BY <2>1
  <2> QED
    BY <2>2 DEF RemoveAt
<1>6. waiters' \in [Isolates -> [Routes -> Seq(Requests)]]
  BY <1>0, <1>4, <1>5
<1>7. CountersTyped'
  BY <1>0, RefundsKeepBags DEF Expire
<1>8. OnLane(r)
  BY <1>3, <1>4 DEF OnLane, GivesUp, Line, Expire
<1> QED
  BY <1>3, <1>6, <1>7, <1>8 DEF Kept, TypeInv, Expire, CacheTyped

LEMMA ReliefTypes ==
  ASSUME TypeInv, NEW r \in Requests, RefundBudget(r) \/ ChargeExtra(r)
  PROVE Kept(r)
<1>0. RequestsTyped /\ CountersTyped /\ IsRequest(req[r]) /\ CacheTyped
  BY DEF TypeInv, RequestsTyped
<1>1. /\ req[r].pc = "granted" /\ Inside("granted") /\ "granted" \in Stages
      /\ UNCHANGED <<now, windows, ledger, inflight, waiters, entry, stray>>
  BY DEF RefundBudget, ChargeExtra, Inside, Stages
<1>2. CountersTyped'
  <2>1. CASE RefundBudget(r)
    BY <1>0, <1>1, <2>1, RefundsKeepBags DEF RefundBudget
  <2>2. CASE ChargeExtra(r)
    BY <1>0, <1>1, <2>2, ChargesKeepBags DEF ChargeExtra
  <2> QED
    BY <2>1, <2>2
<1>3. RequestsTyped' /\ Became(r, "granted")
  <2>1. CASE RefundBudget(r)
    <3> DEFINE a == [req[r] EXCEPT !.refunded = TRUE]
               q == [a EXCEPT !.times = 0]
    <3>1. IsRequest(a) /\ a.pc = "granted"
      BY <1>0, <1>1, Updates
    <3>2. IsRequest(q) /\ q.pc = "granted"
      <4> HIDE DEF a
      <4> QED
        BY <3>1, Updates
    <3>3. req' = [req EXCEPT ![r] = q]
      BY <1>0, <2>1 DEF RefundBudget, RequestsTyped
    <3> HIDE DEF q
    <3> QED
      BY <1>0, <3>2, <3>3, Placing
  <2>2. CASE ChargeExtra(r)
    <3> DEFINE q == [req[r] EXCEPT !.times = @ + 1]
    <3>1. req[r].times + 1 \in Nat
      BY <1>0 DEF IsRequest
    <3>2. IsRequest(q) /\ q.pc = "granted"
      BY <1>0, <1>1, <3>1, Updates
    <3>3. req' = [req EXCEPT ![r] = q]
      BY <1>0, <2>2 DEF ChargeExtra, RequestsTyped
    <3> HIDE DEF q
    <3> QED
      BY <1>0, <3>2, <3>3, Placing
  <2> QED
    BY <2>1, <2>2
<1>4. OnLane(r)
  BY <1>1, <1>3 DEF OnLane, StaysInside
<1> QED
  BY <1>0, <1>1, <1>2, <1>3, <1>4 DEF Kept, TypeInv, CacheTyped

Ledgers == [Isolates -> [BudgetScales -> [pending : Nat, bucket : Nat]]]

LEMMA ScalesTyped ==
  /\ CappedScales \subseteq BudgetScales
  /\ BudgetScales \subseteq Scales
  /\ \A stages \in SUBSET CappedScales : stages # {} => FirstOf(stages) \in BudgetScales
BY DEF CappedScales, BudgetScales, Scales, FirstOf

LEMMA GoOnTypes ==
  ASSUME TypeInv, NEW r \in Requests, Inside(req[r].pc), NEW q, IsRequest(q),
         NEW stages \in SUBSET CappedScales, NEW led \in Ledgers, GoOn(r, q, stages, led),
         UNCHANGED <<inflight, waiters>>
  PROVE ledger' \in Ledgers /\ RequestsTyped' /\ OnLane(r)
<1>0. RequestsTyped /\ IsolateOf[r] \in Isolates
  BY LinesTyped DEF TypeInv
<1>1. ASSUME NEW pc \in Stages, Inside(pc), RequestsTyped', Became(r, pc)
      PROVE OnLane(r)
  BY <1>1 DEF OnLane, StaysInside
<1>2. CASE stages = {}
  <2> DEFINE a == [q EXCEPT !.pc = "granted"]
             b == [a EXCEPT !.owes = 0]
  <2>1. "granted" \in Stages /\ Inside("granted")
    BY DEF Stages, Inside
  <2>2. IsRequest(a) /\ a.pc = "granted"
    BY <2>1, Updates
  <2>3. IsRequest(b) /\ b.pc = "granted"
    <3> HIDE DEF a
    <3> QED
      BY <2>2, Updates
  <2>4. req' = [req EXCEPT ![r] = b] /\ ledger' = led
    BY <1>2 DEF GoOn
  <2>5. RequestsTyped' /\ Became(r, "granted")
    <3> HIDE DEF b
    <3> QED
      BY <1>0, <2>3, <2>4, Placing
  <2> QED
    BY <1>1, <2>1, <2>4, <2>5
<1>3. CASE stages # {}
  <2> DEFINE s == FirstOf(stages)
             own == Rolled(led[IsolateOf[r]][s], Bucket(q.at, s))
             a == [q EXCEPT !.pc = s]
             b == [a EXCEPT !.owes = own.pending]
  <2>1. s \in BudgetScales /\ s \in Scales /\ s \in Stages
    BY <1>3, ScalesTyped, StageNames
  <2>2. Inside(s)
    BY <2>1 DEF Inside, BudgetScales
  <2>3. own \in [pending : Nat, bucket : Nat]
    <3>1. Bucket(q.at, s) \in Nat
      BY <2>1, BucketsAreNumbers DEF IsRequest
    <3>2. led[IsolateOf[r]][s] \in [pending : Nat, bucket : Nat]
      BY <1>0, <2>1 DEF Ledgers
    <3> QED
      BY <3>1, <3>2 DEF Rolled
  <2>4. IsRequest(a) /\ a.pc = s
    <3> HIDE DEF s
    <3> QED
      BY <2>1, Updates
  <2>5. IsRequest(b) /\ b.pc = s
    <3> HIDE DEF a, s, own
    <3> QED
      BY <2>3, <2>4, Updates
  <2>6. req' = [req EXCEPT ![r] = b] /\ ledger' = [led EXCEPT ![IsolateOf[r]][s] = own]
    BY <1>3 DEF GoOn
  <2>7. RequestsTyped' /\ Became(r, s)
    <3> HIDE DEF b, s
    <3> QED
      BY <1>0, <2>5, <2>6, Placing
  <2>8. ledger' \in Ledgers
    <3> HIDE DEF own, s
    <3> QED
      BY <1>0, <2>1, <2>3, <2>6 DEF Ledgers
  <2> QED
    BY <1>1, <2>1, <2>2, <2>7, <2>8
<1> QED
  BY <1>2, <1>3

LEMMA KeysTyped ==
  ASSUME NEW r
  PROVE /\ Counted(MinuteEntry(r)) /\ ~Counted(WideEntry(r))
        /\ \A s, b : Counted(UnitEntry(s, b))
BY DEF Counted, MinuteEntry, WideEntry, UnitEntry

LEMMA AnswersAreNumbers ==
  ASSUME CacheTyped, NEW k, Counted(k) PROVE Answers(k, 0) \subseteq Nat
BY DEF CacheTyped, Answers, Stored

LEMMA ReadMinuteTypes ==
  ASSUME TypeInv, NEW r \in Requests, ReadMinute(r)
  PROVE Kept(r)
<1>0. /\ RequestsTyped /\ CountersTyped /\ CacheTyped /\ IsRequest(req[r])
      /\ ledger \in Ledgers
      /\ inflight \in [Isolates -> [Routes -> Nat]]
      /\ waiters \in [Isolates -> [Routes -> Seq(Requests)]]
  BY DEF TypeInv, RequestsTyped, Ledgers
<1>1. req[r].pc = "minute" /\ Inside("minute") /\ UNCHANGED <<now, entry, stray>>
  BY DEF ReadMinute, Inside
<1>2. SUFFICES /\ inflight' \in [Isolates -> [Routes -> Nat]]
               /\ waiters' \in [Isolates -> [Routes -> Seq(Requests)]]
               /\ CountersTyped' /\ RequestsTyped' /\ OnLane(r) /\ ledger' \in Ledgers
  BY <1>0, <1>1 DEF Kept, TypeInv, CacheTyped, Ledgers
<1>3. CASE /\ GoOn(r, req[r], CappedScales, ledger)
           /\ UNCHANGED <<windows, budget, inflight, waiters>>
  <2>1. ledger' \in Ledgers /\ RequestsTyped' /\ OnLane(r)
    BY <1>0, <1>1, <1>3, GoOnTypes
  <2> QED
    BY <1>0, <1>3, <2>1 DEF CountersTyped
<1>4. ASSUME NEW seen \in Answers(MinuteEntry(r), 0),
             IF seen >= Limit[RouteOf[r]]["min"]
             THEN /\ SharedRefuse(r, "rate_limited")
                  /\ UNCHANGED ledger
             ELSE /\ req' = [req EXCEPT ![r].pc = "wide", ![r].used = seen]
                  /\ UNCHANGED <<windows, budget, ledger, inflight, waiters>>
      PROVE /\ inflight' \in [Isolates -> [Routes -> Nat]]
            /\ waiters' \in [Isolates -> [Routes -> Seq(Requests)]]
            /\ CountersTyped' /\ RequestsTyped' /\ OnLane(r) /\ ledger' \in Ledgers
  <2>1. CASE SharedRefuse(r, "rate_limited") /\ UNCHANGED ledger
    BY <1>0, <1>1, <2>1, SharedRefuseTypes
  <2>2. CASE /\ req' = [req EXCEPT ![r].pc = "wide", ![r].used = seen]
             /\ UNCHANGED <<windows, budget, ledger, inflight, waiters>>
    <3> DEFINE a == [req[r] EXCEPT !.pc = "wide"]
               q == [a EXCEPT !.used = seen]
    <3>1. seen \in Nat
      BY <1>0, KeysTyped, AnswersAreNumbers
    <3>2. "wide" \in Stages /\ Inside("wide")
      BY DEF Stages, Inside
    <3>3. IsRequest(a) /\ a.pc = "wide"
      BY <1>0, <3>2, Updates
    <3>4. IsRequest(q) /\ q.pc = "wide"
      <4> HIDE DEF a
      <4> QED
        BY <3>1, <3>3, Updates
    <3>5. req' = [req EXCEPT ![r] = q]
      BY <1>0, <2>2 DEF RequestsTyped
    <3>6. RequestsTyped' /\ Became(r, "wide")
      <4> HIDE DEF q
      <4> QED
        BY <1>0, <3>4, <3>5, Placing
    <3>7. OnLane(r)
      BY <1>1, <2>2, <3>2, <3>6 DEF OnLane, StaysInside
    <3> QED
      BY <1>0, <2>2, <3>6, <3>7 DEF CountersTyped
  <2> QED
    BY <1>4, <2>1, <2>2
<1> QED
  BY <1>3, <1>4 DEF ReadMinute

LEMMA ReadWideTypes ==
  ASSUME TypeInv, NEW r \in Requests, ReadWide(r)
  PROVE Kept(r)
<1>0. /\ RequestsTyped /\ CountersTyped /\ CacheTyped /\ IsRequest(req[r])
      /\ inflight \in [Isolates -> [Routes -> Nat]]
      /\ waiters \in [Isolates -> [Routes -> Seq(Requests)]]
  BY DEF TypeInv, RequestsTyped
<1>1. req[r].pc = "wide" /\ Inside("wide") /\ UNCHANGED <<now, ledger, entry, stray>>
  BY DEF ReadWide, Inside
<1>2. SUFFICES /\ inflight' \in [Isolates -> [Routes -> Nat]]
               /\ waiters' \in [Isolates -> [Routes -> Seq(Requests)]]
               /\ CountersTyped' /\ RequestsTyped' /\ OnLane(r)
  BY <1>0, <1>1 DEF Kept, TypeInv, CacheTyped
<1>3. ASSUME NEW q, IsRequest(q), q.pc \in {"minutePut", "widePut"}, req' = [req EXCEPT ![r] = q],
             UNCHANGED <<windows, budget, inflight, waiters>>
      PROVE /\ inflight' \in [Isolates -> [Routes -> Nat]]
            /\ waiters' \in [Isolates -> [Routes -> Seq(Requests)]]
            /\ CountersTyped' /\ RequestsTyped' /\ OnLane(r)
  <2>1. RequestsTyped' /\ Became(r, q.pc)
    BY <1>0, <1>3, Placing
  <2>2. q.pc \in Stages /\ Inside(q.pc)
    BY <1>3 DEF Inside, Stages
  <2>3. OnLane(r)
    BY <1>1, <1>3, <2>1, <2>2 DEF OnLane, StaysInside
  <2> QED
    BY <1>0, <1>3, <2>1, <2>3 DEF CountersTyped
<1>4. CASE /\ req' = [req EXCEPT ![r].pc = "minutePut", ![r].counted = TRUE]
           /\ UNCHANGED <<windows, budget, inflight, waiters>>
  <2> DEFINE a == [req[r] EXCEPT !.pc = "minutePut"]
             q == [a EXCEPT !.counted = TRUE]
  <2>0. "minutePut" \in Stages
    BY DEF Stages
  <2>1. IsRequest(a) /\ a.pc = "minutePut"
    BY <1>0, <2>0, Updates
  <2>2. IsRequest(q) /\ q.pc = "minutePut"
    <3> HIDE DEF a
    <3> QED
      BY <2>1, Updates
  <2>3. req' = [req EXCEPT ![r] = q]
    BY <1>0, <1>4 DEF RequestsTyped
  <2> HIDE DEF q
  <2> QED
    BY <1>3, <1>4, <2>2, <2>3
<1>5. ASSUME NEW next,
             req' = [req EXCEPT ![r].pc = "widePut", ![r].counted = TRUE, ![r].next = next],
             UNCHANGED <<windows, budget, inflight, waiters>>
      PROVE /\ inflight' \in [Isolates -> [Routes -> Nat]]
            /\ waiters' \in [Isolates -> [Routes -> Seq(Requests)]]
            /\ CountersTyped' /\ RequestsTyped' /\ OnLane(r)
  <2> DEFINE a == [req[r] EXCEPT !.pc = "widePut"]
             b == [a EXCEPT !.counted = TRUE]
             q == [b EXCEPT !.next = next]
  <2>0. "widePut" \in Stages
    BY DEF Stages
  <2>1. IsRequest(a) /\ a.pc = "widePut"
    BY <1>0, <2>0, Updates
  <2>2. IsRequest(b) /\ b.pc = "widePut"
    <3> HIDE DEF a
    <3> QED
      BY <2>1, Updates
  <2>3. IsRequest(q) /\ q.pc = "widePut"
    <3> HIDE DEF b
    <3> QED
      BY <2>2, Updates
  <2>4. req' = [req EXCEPT ![r] = q]
    BY <1>0, <1>5 DEF RequestsTyped
  <2> HIDE DEF q
  <2> QED
    BY <1>3, <1>5, <2>3, <2>4
<1>6. CASE SharedRefuse(r, "rate_limited")
  BY <1>1, <1>6, SharedRefuseTypes
<1> QED
  BY <1>4, <1>5, <1>6 DEF ReadWide

LEMMA ReadBudgetTypes ==
  ASSUME TypeInv, NEW r \in Requests, ReadBudget(r)
  PROVE Kept(r)
<1>0. /\ RequestsTyped /\ CountersTyped /\ CacheTyped /\ IsRequest(req[r])
      /\ ledger \in Ledgers
      /\ inflight \in [Isolates -> [Routes -> Nat]]
      /\ waiters \in [Isolates -> [Routes -> Seq(Requests)]]
  BY DEF TypeInv, RequestsTyped, Ledgers
<1> DEFINE Goal == /\ inflight' \in [Isolates -> [Routes -> Nat]]
                   /\ waiters' \in [Isolates -> [Routes -> Seq(Requests)]]
                   /\ CountersTyped' /\ RequestsTyped' /\ OnLane(r) /\ ledger' \in Ledgers
<1>1. SUFFICES Goal
  BY <1>0 DEF Kept, TypeInv, CacheTyped, Ledgers, ReadBudget
<1>2. PICK s \in BudgetScales :
        LET key == UnitEntry(s, Bucket(req[r].at, s))
            left == IF s = "hour" THEN CappedScales \ {"hour"} ELSE {} IN
        /\ req[r].pc = s
        /\ \/ /\ GoOn(r, req[r], {}, ledger)
              /\ UNCHANGED <<windows, budget, inflight, waiters>>
           \/ \E seen \in Answers(key, 0) :
                 IF seen + req[r].owes >= Ceiling[s]
                 THEN /\ SharedRefuse(r, "budget_exhausted")
                      /\ UNCHANGED ledger
                 ELSE /\ UNCHANGED <<windows, budget, inflight, waiters>>
                      /\ IF req[r].owes > 0
                         THEN /\ req' = [req EXCEPT ![r].pc = PutStage[s], ![r].used = seen]
                              /\ UNCHANGED ledger
                         ELSE GoOn(r, req[r], left, ledger)
  BY DEF ReadBudget
<1>3. req[r].pc = s /\ Inside(req[r].pc)
  BY <1>2 DEF Inside, BudgetScales
<1>4. ASSUME NEW stages \in SUBSET CappedScales, GoOn(r, req[r], stages, ledger),
             UNCHANGED <<windows, budget, inflight, waiters>>
      PROVE Goal
  <2>1. ledger' \in Ledgers /\ RequestsTyped' /\ OnLane(r)
    BY <1>0, <1>3, <1>4, GoOnTypes
  <2> QED
    BY <1>0, <1>4, <2>1 DEF CountersTyped
<1>5. CASE SharedRefuse(r, "budget_exhausted") /\ UNCHANGED ledger
  BY <1>0, <1>3, <1>5, SharedRefuseTypes
<1>6. ASSUME NEW seen \in Answers(UnitEntry(s, Bucket(req[r].at, s)), 0),
             req' = [req EXCEPT ![r].pc = PutStage[s], ![r].used = seen],
             UNCHANGED <<windows, budget, ledger, inflight, waiters>>
      PROVE Goal
  <2> DEFINE a == [req[r] EXCEPT !.pc = PutStage[s]]
             q == [a EXCEPT !.used = seen]
  <2>1. seen \in Nat
    BY <1>0, KeysTyped, AnswersAreNumbers
  <2>2. PutStage[s] \in Stages /\ Inside(PutStage[s])
    BY StageNames DEF Inside, PutStage, BudgetScales
  <2>3. IsRequest(a) /\ a.pc = PutStage[s]
    BY <1>0, <2>2, Updates
  <2>4. IsRequest(q) /\ q.pc = PutStage[s]
    <3> HIDE DEF a
    <3> QED
      BY <2>1, <2>3, Updates
  <2>5. req' = [req EXCEPT ![r] = q]
    BY <1>0, <1>6 DEF RequestsTyped
  <2>6. RequestsTyped' /\ Became(r, PutStage[s])
    <3> HIDE DEF q
    <3> QED
      BY <1>0, <2>4, <2>5, Placing
  <2>7. OnLane(r)
    BY <1>3, <1>6, <2>2, <2>6 DEF OnLane, StaysInside
  <2> QED
    BY <1>0, <1>6, <2>6, <2>7 DEF CountersTyped
<1>7. {} \in SUBSET CappedScales /\ CappedScales \ {"hour"} \in SUBSET CappedScales
  OBVIOUS
<1> HIDE DEF Goal
<1> QED
  BY <1>2, <1>4, <1>5, <1>6, <1>7

LEMMA LandingTypes ==
  ASSUME CacheTyped, NEW w, Counted(w.key) => w.body \in Nat
  PROVE /\ \A k \in DOMAIN With(w) : Counted(k) => With(w)[k] \in Nat
        /\ entry' = With(w) /\ stray' = stray => CacheTyped'
        /\ entry' = With(w) /\ stray' = stray \ {w} => CacheTyped'
        /\ entry' = entry /\ stray' = stray => CacheTyped'
        /\ Cardinality(stray) < MaxStray /\ entry' = entry /\ stray' = stray \union {w} => CacheTyped'
<1>1. \A k \in DOMAIN With(w) : Counted(k) => With(w)[k] \in Nat
  BY DEF With, CacheTyped
<1>2. /\ IsFiniteSet(stray \ {w}) /\ Cardinality(stray \ {w}) <= MaxStray
      /\ IsFiniteSet(stray \union {w})
      /\ Cardinality(stray) < MaxStray => Cardinality(stray \union {w}) <= MaxStray
  <2>1. IsFiniteSet(stray) /\ Cardinality(stray) <= MaxStray /\ MaxStray \in Nat
        /\ Cardinality(stray) \in Nat
    BY RequestsAssumption, FS_CardinalityType DEF CacheTyped
  <2>2. /\ IsFiniteSet(stray \ {w}) /\ Cardinality(stray \ {w}) <= Cardinality(stray)
        /\ Cardinality(stray \ {w}) \in Nat
    <3>1. /\ IsFiniteSet(stray \ {w})
          /\ Cardinality(stray \ {w}) = IF w \in stray THEN Cardinality(stray) - 1 ELSE Cardinality(stray)
      BY <2>1, FS_RemoveElement
    <3>2. Cardinality(stray \ {w}) \in Nat
      BY <3>1, FS_CardinalityType
    <3> QED
      BY <2>1, <3>1, <3>2
  <2>3. /\ IsFiniteSet(stray \union {w}) /\ Cardinality(stray \union {w}) <= Cardinality(stray) + 1
        /\ Cardinality(stray \union {w}) \in Nat
    <3>1. /\ IsFiniteSet(stray \union {w})
          /\ Cardinality(stray \union {w}) = IF w \in stray THEN Cardinality(stray) ELSE Cardinality(stray) + 1
      BY <2>1, FS_AddElement
    <3>2. Cardinality(stray \union {w}) \in Nat
      BY <3>1, FS_CardinalityType
    <3> QED
      BY <2>1, <3>1, <3>2
  <2> QED
    BY <2>1, <2>2, <2>3
<1>3. entry' = With(w) /\ stray' \subseteq stray /\ IsFiniteSet(stray')
        /\ Cardinality(stray') <= MaxStray => CacheTyped'
  BY <1>1 DEF CacheTyped
<1>4. entry' = With(w) /\ stray' = stray \ {w} => CacheTyped'
  BY <1>2, <1>3
<1>5. entry' = With(w) /\ stray' = stray => CacheTyped'
  BY <1>3 DEF CacheTyped
<1>6. entry' = entry /\ stray' = stray => CacheTyped'
  BY DEF CacheTyped
<1>7. Cardinality(stray) < MaxStray /\ entry' = entry /\ stray' = stray \union {w} => CacheTyped'
  BY <1>2 DEF CacheTyped
<1> QED
  BY <1>1, <1>4, <1>5, <1>6, <1>7

LEMMA LateLandingTypes ==
  ASSUME TypeInv, LateLanding
  PROVE TypeInv' /\ Rests
<1>1. PICK w \in stray : /\ entry' = With(w) /\ stray' = stray \ {w}
                         /\ UNCHANGED <<now, windows, budget, ledger, inflight, waiters, req>>
  BY DEF LateLanding
<1>2. CacheTyped /\ (Counted(w.key) => w.body \in Nat)
  BY DEF TypeInv, CacheTyped
<1>3. CacheTyped'
  BY <1>1, <1>2, LandingTypes
<1> QED
  BY <1>1, <1>3 DEF TypeInv, CountersTyped, RequestsTyped, Rests

PutStages == {"widePut", "minutePut", "hourPut", "dayPut"}

LEMMA WritesAreTyped ==
  ASSUME NEW r, IsRequest(req[r]), req[r].pc \in PutStages
  PROVE Counted(Write(r).key) => Write(r).body \in Nat
<1>1. CASE req[r].pc = "widePut"
  <2>1. Write(r).key = WideEntry(r)
    BY <1>1 DEF Write
  <2> QED
    BY <2>1, KeysTyped
<1>2. CASE req[r].pc = "minutePut"
  BY <1>2 DEF Write, IsRequest
<1>3. CASE req[r].pc = "hourPut"
  BY <1>3 DEF Write, IsRequest
<1>4. CASE req[r].pc = "dayPut"
  BY <1>4 DEF Write, IsRequest
<1> QED
  BY <1>1, <1>2, <1>3, <1>4 DEF PutStages

LEMMA PutOverTypes ==
  ASSUME TypeInv, NEW r \in Requests, PutOver(r)
  PROVE Kept(r)
<1>0. /\ RequestsTyped /\ CountersTyped /\ CacheTyped /\ IsRequest(req[r])
      /\ ledger \in Ledgers /\ IsolateOf[r] \in Isolates
  BY LinesTyped DEF TypeInv, RequestsTyped, Ledgers
<1>1. req[r].pc \in PutStages /\ Inside(req[r].pc)
      /\ UNCHANGED <<now, windows, budget, inflight, waiters>>
  BY DEF PutOver, PutStages, Inside
<1>2. CacheTyped'
  <2>1. Counted(Write(r).key) => Write(r).body \in Nat
    BY <1>0, <1>1, WritesAreTyped
  <2>2. \/ entry' = With(Write(r)) /\ stray' = stray
        \/ entry' = entry /\ stray' = stray
        \/ Cardinality(stray) < MaxStray /\ stray' = stray \union {Write(r)} /\ entry' = entry
    BY DEF PutOver
  <2> QED
    BY <1>0, <2>1, <2>2, LandingTypes
<1> DEFINE Goal == ledger' \in Ledgers /\ RequestsTyped' /\ OnLane(r)
           z == [req[r] EXCEPT !.used = 0]
<1>3. SUFFICES Goal
  BY <1>0, <1>1, <1>2 DEF Kept, TypeInv, Ledgers, CountersTyped
<1>4. IsRequest(z)
  BY <1>0, Updates
<1>5. ASSUME NEW stages \in SUBSET CappedScales, NEW led \in Ledgers, GoOn(r, z, stages, led)
      PROVE Goal
  <2> HIDE DEF z
  <2> QED
    BY <1>1, <1>4, <1>5, GoOnTypes
<1>6. ASSUME NEW s \in BudgetScales PROVE Cleared(r, s) \in Ledgers
  <2>1. Bucket(req[r].at, s) \in Nat
    BY <1>0, BucketsAreNumbers, ScalesTyped DEF IsRequest
  <2> QED
    BY <1>0, <2>1 DEF Cleared, Ledgers
<1>7. "hour" \in BudgetScales /\ "day" \in BudgetScales
  BY DEF BudgetScales
<1>8. CASE req[r].pc = "widePut"
  <2> DEFINE a == [req[r] EXCEPT !.pc = "minutePut"]
             q == [a EXCEPT !.next = NoWide]
  <2>1. "minutePut" \in Stages /\ Inside("minutePut")
    BY DEF Stages, Inside
  <2>2. IsRequest(a) /\ a.pc = "minutePut"
    BY <1>0, <2>1, Updates
  <2>3. IsRequest(q) /\ q.pc = "minutePut"
    <3> HIDE DEF a
    <3> QED
      BY <2>2, Updates
  <2>4. req' = [req EXCEPT ![r] = q] /\ ledger' = ledger
    BY <1>0, <1>8 DEF PutOver, RequestsTyped
  <2>5. RequestsTyped' /\ Became(r, "minutePut")
    <3> HIDE DEF q
    <3> QED
      BY <1>0, <2>3, <2>4, Placing
  <2> QED
    <3>1. StaysInside(r)
      BY <1>1, <2>1, <2>5 DEF StaysInside
    <3> QED
      BY <1>0, <2>4, <2>5, <3>1 DEF OnLane
<1>9. CASE req[r].pc = "minutePut"
  BY <1>0, <1>5, <1>9 DEF PutOver
<1>10. CASE req[r].pc = "hourPut"
  BY <1>5, <1>6, <1>7, <1>10 DEF PutOver
<1>11. CASE req[r].pc = "dayPut"
  BY <1>5, <1>6, <1>7, <1>11 DEF PutOver
<1> HIDE DEF Goal
<1> QED
  BY <1>1, <1>8, <1>9, <1>10, <1>11 DEF PutStages

(* What a step of admission makes of the lanes, and a step of a route too. *)
Moved == TypeInv' /\ (Rests \/ \E r \in Requests : OnLane(r))

LEMMA AdmissionStepTypes ==
  ASSUME TypeInv, NEW r \in Requests, AdmissionStep(r)
  PROVE Kept(r)
BY AdmitTypes, ExpireTypes, ReadMinuteTypes, ReadWideTypes, ReadBudgetTypes, PutOverTypes
   DEF AdmissionStep

LEMMA TickTypes ==
  ASSUME TypeInv, Tick PROVE Moved
<1>1. now' \in 0 .. MaxNow
  BY RequestsAssumption DEF Tick, TypeInv
<1> QED
  BY <1>1 DEF Tick, TypeInv, CountersTyped, CacheTyped, RequestsTyped, Rests, Moved

LEMMA StepTypes ==
  ASSUME TypeInv, [Next]_admissionVars
  PROVE Moved
<1>1. CASE UNCHANGED admissionVars
  BY <1>1 DEF admissionVars, TypeInv, CountersTyped, CacheTyped, RequestsTyped, Rests, Moved
<1>2. CASE LateLanding
  BY <1>2, LateLandingTypes DEF Moved
<1>3. ASSUME NEW r \in Requests, RouteStep(r) PROVE Kept(r)
  BY <1>3, ReliefTypes, ReleaseTypes DEF RouteStep
<1> QED
  BY <1>1, <1>2, <1>3, TickTypes, AdmissionStepTypes DEF Next, Kept, Moved

LEMMA TypeInvSuffices == TypeInv => TypeOK
<1> SUFFICES ASSUME TypeInv PROVE TypeOK
  OBVIOUS
<1>1. \A i \in Isolates : /\ IsABag(windows[i]) /\ IsABag(budget[i])
                          /\ ledger[i] \in [BudgetScales -> [pending : Nat, bucket : Nat]]
  BY DEF TypeInv, CountersTyped
<1>2. \A r \in Requests : req[r].pc \in Stages /\ req[r].used \in Nat
  BY DEF TypeInv, RequestsTyped, IsRequest
<1> QED
  BY <1>1, <1>2 DEF TypeInv, TypeOK, CacheTyped

(***************************************************************************)
(* The counters, the queues, the cache and the requests hold what the code *)
(* can put there: no count of limits.js or of the budget ledger goes below *)
(* zero, only requests stand in a line, and every request is at a stage of *)
(* the admission.                                                          *)
(***************************************************************************)
THEOREM TypeCorrect == Spec => []TypeOK
<1>1. AdmissionInit => TypeInv
  BY InitTypes
<1>2. TypeInv /\ [Next]_admissionVars => TypeInv'
  BY StepTypes DEF Moved
<1> QED
  BY <1>1, <1>2, TypeInvSuffices, PTL DEF Spec

(* Who waits in a lane: queued requests of that lane, each of them once. *)
InLine(i, rt) ==
  /\ \A k \in 1 .. Len(waiters[i][rt]) :
        /\ req[waiters[i][rt][k]].pc = "queued"
        /\ IsolateOf[waiters[i][rt][k]] = i /\ RouteOf[waiters[i][rt][k]] = rt
  /\ \A j, k \in 1 .. Len(waiters[i][rt]) : waiters[i][rt][j] = waiters[i][rt][k] => j = k

(* The counter of a lane is the number of requests that hold a slot of it, *)
(* at most the ceiling, and nobody waits while a slot is free.             *)
LaneCounted(i, rt) ==
  /\ inflight[i][rt] = Cardinality(Holders(i, rt))
  /\ inflight[i][rt] <= Cap[rt]
  /\ waiters[i][rt] # <<>> => inflight[i][rt] = Cap[rt]

(* The invariant of the slots. *)
SlotInv ==
  /\ TypeInv
  /\ \A i \in Isolates, rt \in Routes : LaneCounted(i, rt) /\ InLine(i, rt)

(* What a step makes of one lane. Each of these is a step of FairSlots or  *)
(* a stutter.                                                              *)
LaneIdles(i, rt) ==
  /\ Holders(i, rt)' = Holders(i, rt)
  /\ inflight'[i][rt] = inflight[i][rt] /\ waiters'[i][rt] = waiters[i][rt]

LaneTakes(i, rt, p) ==
  /\ waiters[i][rt] = <<>> /\ inflight[i][rt] < Cap[rt] /\ p \notin Holders(i, rt)
  /\ Holders(i, rt)' = Holders(i, rt) \union {p}
  /\ inflight'[i][rt] = inflight[i][rt] + 1 /\ waiters'[i][rt] = waiters[i][rt]

LaneJoins(i, rt, p) ==
  /\ (waiters[i][rt] # <<>> \/ inflight[i][rt] >= Cap[rt]) /\ Len(waiters[i][rt]) < Depth
  /\ waiters'[i][rt] = Append(waiters[i][rt], p)
  /\ Holders(i, rt)' = Holders(i, rt) /\ inflight'[i][rt] = inflight[i][rt]

LaneThins(i, rt, k) ==
  /\ waiters'[i][rt] = RemoveAt(waiters[i][rt], k)
  /\ Holders(i, rt)' = Holders(i, rt) /\ inflight'[i][rt] = inflight[i][rt]

LaneFrees(i, rt, p) ==
  /\ p \in Holders(i, rt) /\ waiters[i][rt] = <<>>
  /\ Holders(i, rt)' = Holders(i, rt) \ {p}
  /\ inflight'[i][rt] = (IF inflight[i][rt] > 0 THEN inflight[i][rt] - 1 ELSE 0)
  /\ waiters'[i][rt] = waiters[i][rt]

LanePasses(i, rt, p) ==
  /\ p \in Holders(i, rt) /\ waiters[i][rt] # <<>>
  /\ Head(waiters[i][rt]) \notin Holders(i, rt)
  /\ Holders(i, rt)' = (Holders(i, rt) \ {p}) \union {Head(waiters[i][rt])}
  /\ inflight'[i][rt] = inflight[i][rt] /\ waiters'[i][rt] = Tail(waiters[i][rt])

LaneMove(i, rt) ==
  \/ LaneIdles(i, rt)
  \/ \E p \in Requests : \/ LaneTakes(i, rt, p) \/ LaneJoins(i, rt, p)
                         \/ LaneFrees(i, rt, p) \/ LanePasses(i, rt, p)
  \/ \E k \in DOMAIN waiters[i][rt] : LaneThins(i, rt, k)

(* Taking a waiter out of its line, as positions. *)
LEMMA ThinnedLine ==
  ASSUME NEW line \in Seq(Requests), NEW k \in 1 .. Len(line)
  PROVE /\ RemoveAt(line, k) = SubSeq(line, 1, k - 1) \o SubSeq(line, k + 1, Len(line))
        /\ RemoveAt(line, k) \in Seq(Requests)
        /\ Len(RemoveAt(line, k)) = Len(line) - 1
        /\ \A j \in 1 .. Len(line) - 1 : RemoveAt(line, k)[j] = IF j < k THEN line[j] ELSE line[j + 1]
<1> DEFINE front == SubSeq(line, 1, k - 1)
           back == SubSeq(line, k + 1, Len(line))
<1>1. /\ front \in Seq(Requests) /\ Len(front) = k - 1
      /\ \A j \in 1 .. k - 1 : front[j] = line[j]
  OBVIOUS
<1>2. /\ back \in Seq(Requests) /\ Len(back) = Len(line) - k
      /\ \A j \in 1 .. Len(line) - k : back[j] = line[j + k]
  OBVIOUS
<1>3. RemoveAt(line, k) = front \o back
  BY DEF RemoveAt
<1> HIDE DEF front, back
<1>4. /\ front \o back \in Seq(Requests) /\ Len(front \o back) = Len(front) + Len(back)
      /\ \A j \in 1 .. Len(front) + Len(back) :
            (front \o back)[j] = IF j <= Len(front) THEN front[j] ELSE back[j - Len(front)]
  BY <1>1, <1>2, ConcatProperties
<1>5. Len(front \o back) = Len(line) - 1
  BY <1>1, <1>2, <1>4
<1>6. ASSUME NEW j \in 1 .. Len(line) - 1
      PROVE (front \o back)[j] = IF j < k THEN line[j] ELSE line[j + 1]
  <2>1. CASE j < k
    BY <1>1, <1>2, <1>4, <2>1
  <2>2. CASE ~(j < k)
    <3>1. (front \o back)[j] = back[j - (k - 1)]
      BY <1>1, <1>2, <1>4, <2>2
    <3>2. j - (k - 1) \in 1 .. Len(line) - k
      BY <2>2
    <3>3. back[j - (k - 1)] = line[(j - (k - 1)) + k]
      BY <1>2, <3>2
    <3> QED
      BY <2>2, <3>1, <3>3
  <2> QED
    BY <2>1, <2>2
<1> QED
  BY <1>3, <1>4, <1>5, <1>6 DEF front, back

LEMMA FirstStageHolds == Inside(FirstStage) /\ ~Inside("new") /\ ~Inside("queued") /\ ~Inside("done")
BY StageNames DEF Inside

(* Who holds a slot, before and after a step, by stages. *)
LEMMA MembersOfALane ==
  ASSUME NEW i, NEW rt, NEW p \in Requests
  PROVE /\ p \in Holders(i, rt) <=> Inside(req[p].pc) /\ IsolateOf[p] = i /\ RouteOf[p] = rt
        /\ p \in Holders(i, rt)' <=> Inside(req'[p].pc) /\ IsolateOf[p] = i /\ RouteOf[p] = rt
BY DEF Holders, HoldsSlot, Inside

LEMMA LanesOfRequests ==
  ASSUME NEW i, NEW rt
  PROVE Holders(i, rt) \subseteq Requests /\ Holders(i, rt)' \subseteq Requests
BY DEF Holders

(* A lane that moves stays counted. *)
LEMMA CountKept ==
  ASSUME TypeInv, NEW i \in Isolates, NEW rt \in Routes, LaneCounted(i, rt), LaneMove(i, rt)
  PROVE LaneCounted(i, rt)'
<1> DEFINE H == Holders(i, rt)
           n == inflight[i][rt]
           line == waiters[i][rt]
<1>0. /\ Cap[rt] \in Nat /\ n \in Nat /\ line \in Seq(Requests)
      /\ IsFiniteSet(H) /\ Cardinality(H) \in Nat
      /\ n = Cardinality(H) /\ n <= Cap[rt] /\ (line # <<>> => n = Cap[rt])
  <2>1. IsFiniteSet(H)
    BY LanesOfRequests, FS_Subset, RequestsAssumption
  <2> QED
    BY <2>1, CapsAreNumbers, FS_CardinalityType DEF TypeInv, LaneCounted
<1>1. CASE LaneIdles(i, rt)
  BY <1>0, <1>1 DEF LaneIdles, LaneCounted
<1>2. ASSUME NEW p \in Requests, LaneTakes(i, rt, p) PROVE LaneCounted(i, rt)'
  <2>1. Cardinality(H \union {p}) = Cardinality(H) + 1
    BY <1>0, <1>2, FS_AddElement DEF LaneTakes
  <2> QED
    BY <1>0, <1>2, <2>1 DEF LaneTakes, LaneCounted
<1>3. ASSUME NEW p \in Requests, LaneJoins(i, rt, p) PROVE LaneCounted(i, rt)'
  BY <1>0, <1>3 DEF LaneJoins, LaneCounted
<1>4. ASSUME NEW k \in DOMAIN line, LaneThins(i, rt, k) PROVE LaneCounted(i, rt)'
  <2>1. line # <<>>
    BY <1>0, <1>4
  <2> QED
    BY <1>0, <1>4, <2>1 DEF LaneThins, LaneCounted
<1>5. ASSUME NEW p \in Requests, LaneFrees(i, rt, p) PROVE LaneCounted(i, rt)'
  <2>1. Cardinality(H \ {p}) = Cardinality(H) - 1
    BY <1>0, <1>5, FS_RemoveElement DEF LaneFrees
  <2>2. IsFiniteSet(H \ {p}) /\ Cardinality(H \ {p}) \in Nat
    BY <1>0, FS_RemoveElement, FS_CardinalityType
  <2> QED
    BY <1>0, <1>5, <2>1, <2>2 DEF LaneFrees, LaneCounted
<1>6. ASSUME NEW p \in Requests, LanePasses(i, rt, p) PROVE LaneCounted(i, rt)'
  <2> DEFINE h == Head(line)
  <2>1. IsFiniteSet(H \ {p}) /\ Cardinality(H \ {p}) = Cardinality(H) - 1 /\ h \notin H \ {p}
    BY <1>0, <1>6, FS_RemoveElement DEF LanePasses
  <2>2. Cardinality((H \ {p}) \union {h}) = Cardinality(H \ {p}) + 1
    <3> HIDE DEF h
    <3> QED
      BY <2>1, FS_AddElement
  <2> QED
    BY <1>0, <1>6, <2>1, <2>2 DEF LanePasses, LaneCounted
<1> QED
  BY <1>1, <1>2, <1>3, <1>4, <1>5, <1>6 DEF LaneMove

LEMMA SameMembers ==
  ASSUME NEW i, NEW rt, \A p \in Requests : Inside(req'[p].pc) <=> Inside(req[p].pc)
  PROVE Holders(i, rt)' = Holders(i, rt)
BY DEF Holders, HoldsSlot, Inside

(* From the move of a request to the moves of the lanes: the other lanes   *)
(* do not see it, its own one makes the move of that name.                 *)
LEMMA RestingLanes ==
  ASSUME SlotInv, Rests, NEW i \in Isolates, NEW rt \in Routes
  PROVE LaneIdles(i, rt) /\ InLine(i, rt)'
<1>1. Holders(i, rt)' = Holders(i, rt)
  BY SameMembers DEF Rests
<1>2. waiters' = waiters /\ inflight' = inflight /\ waiters[i][rt] \in Seq(Requests) /\ InLine(i, rt)
  BY DEF Rests, SlotInv, TypeInv
<1>3. \A k \in 1 .. Len(waiters[i][rt]) : req'[waiters[i][rt][k]].pc = req[waiters[i][rt][k]].pc
  BY <1>2 DEF Rests
<1> QED
  BY <1>1, <1>2, <1>3 DEF LaneIdles, InLine

(* A step of a request leaves the lanes it is not on alone. *)
LEMMA OtherLanes ==
  ASSUME SlotInv, NEW r \in Requests, OnLane(r),
         NEW i \in Isolates, NEW rt \in Routes, IsolateOf[r] # i \/ RouteOf[r] # rt
  PROVE LaneIdles(i, rt) /\ InLine(i, rt)'
<1> DEFINE mine == Line(r)
<1>0. /\ IsolateOf[r] \in Isolates /\ RouteOf[r] \in Routes
      /\ InLine(IsolateOf[r], RouteOf[r]) /\ InLine(i, rt)
      /\ inflight \in [Isolates -> [Routes -> Nat]]
      /\ waiters \in [Isolates -> [Routes -> Seq(Requests)]]
      /\ mine \in Seq(Requests) /\ waiters[i][rt] \in Seq(Requests)
  BY LinesTyped DEF SlotInv, TypeInv
<1>1. \A p \in Requests : IsolateOf[p] = i /\ RouteOf[p] = rt => req'[p].pc = req[p].pc
  <2>1. CASE PassesOn(r)
    <3>1. /\ Head(mine) \in Requests
          /\ IsolateOf[Head(mine)] = IsolateOf[r] /\ RouteOf[Head(mine)] = RouteOf[r]
      <4>1. mine # <<>> /\ Len(mine) \in Nat /\ 1 \in 1 .. Len(mine) /\ Head(mine) = mine[1]
        BY <1>0, <2>1 DEF PassesOn
      <4> QED
        BY <1>0, <4>1 DEF InLine, Line
    <3> QED
      BY <2>1, <3>1 DEF PassesOn
  <2> QED
    BY <2>1 DEF OnLane, StaysInside, TurnedAway, Takes, Joins, GivesUp, Leaves, Became
<1>2. inflight'[i][rt] = inflight[i][rt]
  <2>1. inflight' = inflight \/ \E n : inflight' = [inflight EXCEPT ![IsolateOf[r]][RouteOf[r]] = n]
    BY DEF OnLane, StaysInside, TurnedAway, Takes, Joins, GivesUp, Leaves, PassesOn
  <2>2. ASSUME NEW n, inflight' = [inflight EXCEPT ![IsolateOf[r]][RouteOf[r]] = n]
        PROVE inflight'[i][rt] = inflight[i][rt]
    <3> DEFINE j == IsolateOf[r]
               ru == RouteOf[r]
    <3>1. j \in Isolates /\ ru \in Routes /\ (i # j \/ rt # ru)
      BY <1>0
    <3>2. inflight' = [inflight EXCEPT ![j][ru] = n]
      BY <2>2
    <3> HIDE DEF j, ru
    <3> QED
      BY <1>0, <3>1, <3>2
  <2> QED
    BY <2>1, <2>2
<1>3. waiters'[i][rt] = waiters[i][rt]
  <2>1. waiters' = waiters \/ \E line : waiters' = [waiters EXCEPT ![IsolateOf[r]][RouteOf[r]] = line]
    BY DEF OnLane, StaysInside, TurnedAway, Takes, Joins, GivesUp, Leaves, PassesOn
  <2>2. ASSUME NEW line, waiters' = [waiters EXCEPT ![IsolateOf[r]][RouteOf[r]] = line]
        PROVE waiters'[i][rt] = waiters[i][rt]
    <3> DEFINE j == IsolateOf[r]
               ru == RouteOf[r]
    <3>1. j \in Isolates /\ ru \in Routes /\ (i # j \/ rt # ru)
      BY <1>0
    <3>2. waiters' = [waiters EXCEPT ![j][ru] = line]
      BY <2>2
    <3> HIDE DEF j, ru
    <3> QED
      BY <1>0, <3>1, <3>2
  <2> QED
    BY <2>1, <2>2
<1>4. Holders(i, rt)' = Holders(i, rt)
  BY <1>1 DEF Holders, HoldsSlot
<1>5. InLine(i, rt)'
  <2>0. \A k \in 1 .. Len(waiters[i][rt]) : waiters[i][rt][k] \in Requests
    BY <1>0
  <2>1. \A k \in 1 .. Len(waiters[i][rt]) : req'[waiters[i][rt][k]].pc = req[waiters[i][rt][k]].pc
    BY <1>0, <1>1, <2>0 DEF InLine
  <2> QED
    BY <1>0, <1>3, <2>1 DEF InLine
<1> QED
  BY <1>2, <1>3, <1>4, <1>5 DEF LaneIdles

LEMMA OwnLane ==
  ASSUME SlotInv, NEW r \in Requests, OnLane(r)
  PROVE LaneMove(IsolateOf[r], RouteOf[r]) /\ InLine(IsolateOf[r], RouteOf[r])'
<1> DEFINE i == IsolateOf[r]
           rt == RouteOf[r]
           line == waiters[i][rt]
<1>0. /\ i \in Isolates /\ rt \in Routes /\ InLine(i, rt)
      /\ inflight \in [Isolates -> [Routes -> Nat]] /\ inflight[i][rt] \in Nat
      /\ waiters \in [Isolates -> [Routes -> Seq(Requests)]]
      /\ line \in Seq(Requests) /\ Line(r) = line /\ DOMAIN line = 1 .. Len(line)
      /\ Cap[rt] \in Nat
  BY LinesTyped, CapsAreNumbers DEF SlotInv, TypeInv, Line
<1>1. \A k \in 1 .. Len(line) : /\ line[k] \in Requests /\ req[line[k]].pc = "queued"
                                /\ IsolateOf[line[k]] = i /\ RouteOf[line[k]] = rt
  BY <1>0 DEF InLine
<1>2. \A j, k \in 1 .. Len(line) : line[j] = line[k] => j = k
  BY <1>0 DEF InLine
<1>3. ASSUME waiters' = waiters, \A k \in 1 .. Len(line) : req'[line[k]].pc = "queued"
      PROVE InLine(i, rt)'
  BY <1>1, <1>2, <1>3 DEF InLine
<1>4. ASSUME NEW pc, Became(r, pc), req[r].pc # "queued", waiters' = waiters
      PROVE InLine(i, rt)'
  <2>1. \A k \in 1 .. Len(line) : req'[line[k]].pc = "queued"
    BY <1>1, <1>4 DEF Became
  <2> QED
    BY <1>3, <1>4, <2>1
<1>5. ASSUME NEW pc, Became(r, pc), Inside(pc) <=> Inside(req[r].pc)
      PROVE Holders(i, rt)' = Holders(i, rt)
  BY <1>5, SameMembers DEF Became
<1>6. CASE StaysInside(r)
  <2>1. PICK pc \in Stages : Inside(pc) /\ Became(r, pc)
    BY <1>6 DEF StaysInside
  <2>2. req[r].pc # "queued" /\ waiters' = waiters /\ inflight' = inflight
    BY <1>6 DEF StaysInside, Inside
  <2>3. Holders(i, rt)' = Holders(i, rt)
    BY <1>5, <1>6, <2>1 DEF StaysInside
  <2> QED
    BY <1>4, <2>1, <2>2, <2>3 DEF LaneMove, LaneIdles
<1>7. CASE TurnedAway(r)
  <2>1. Holders(i, rt)' = Holders(i, rt)
    BY <1>5, <1>7, FirstStageHolds DEF TurnedAway
  <2> QED
    BY <1>4, <1>7, <2>1 DEF TurnedAway, LaneMove, LaneIdles
<1>8. CASE Takes(r)
  <2>1. Became(r, FirstStage) /\ req[r].pc = "new" /\ waiters' = waiters
        /\ inflight'[i][rt] = inflight[i][rt] + 1
        /\ line = <<>> /\ inflight[i][rt] < Cap[rt]
    BY <1>0, <1>8 DEF Takes, SlotFree, FreeLane
  <2>2. Holders(i, rt)' = Holders(i, rt) \union {r}
    BY <2>1, MembersOfALane, LanesOfRequests, FirstStageHolds DEF Became
  <2>3. r \notin Holders(i, rt)
    BY <2>1, MembersOfALane, FirstStageHolds
  <2>4. LaneTakes(i, rt, r)
    BY <2>1, <2>2, <2>3 DEF LaneTakes
  <2> QED
    BY <1>4, <2>1, <2>4 DEF LaneMove
<1>9. CASE Joins(r)
  <2>1. Became(r, "queued") /\ req[r].pc = "new" /\ inflight' = inflight
        /\ waiters'[i][rt] = Append(line, r) /\ ~SlotFree(r) /\ Len(line) < Depth
    BY <1>0, <1>9 DEF Joins
  <2>2. Holders(i, rt)' = Holders(i, rt)
    BY <1>5, <2>1, FirstStageHolds
  <2>3. line # <<>> \/ inflight[i][rt] >= Cap[rt]
    BY <1>0, <2>1 DEF SlotFree, FreeLane
  <2>4. LaneJoins(i, rt, r)
    BY <2>1, <2>2, <2>3 DEF LaneJoins
  <2>5. InLine(i, rt)'
    <3>1. /\ Len(Append(line, r)) = Len(line) + 1 /\ Len(line) \in Nat
          /\ \A k \in 1 .. Len(line) + 1 :
                Append(line, r)[k] = IF k = Len(line) + 1 THEN r ELSE line[k]
      <4>1. line \in Seq(Requests)
        BY <1>0
      <4> HIDE DEF line
      <4> QED
        BY <4>1
    <3>2. \A k \in 1 .. Len(line) : line[k] # r /\ req'[line[k]].pc = "queued"
      BY <1>1, <2>1 DEF Became
    <3>3. req'[r].pc = "queued"
      BY <2>1 DEF Became
    <3> HIDE DEF line
    <3>4. \A k \in 1 .. Len(line) + 1 :
             /\ req'[Append(line, r)[k]].pc = "queued"
             /\ IsolateOf[Append(line, r)[k]] = i /\ RouteOf[Append(line, r)[k]] = rt
      BY <1>1, <3>1, <3>2, <3>3
    <3>5. \A j, k \in 1 .. Len(line) + 1 : Append(line, r)[j] = Append(line, r)[k] => j = k
      BY <1>2, <3>1, <3>2
    <3> QED
      BY <2>1, <3>1, <3>4, <3>5 DEF InLine
  <2> QED
    BY <2>4, <2>5 DEF LaneMove
<1>10. CASE GivesUp(r)
  <2>1. PICK k \in DOMAIN line : line[k] = r /\ waiters'[i][rt] = RemoveAt(line, k)
    BY <1>0, <1>10 DEF GivesUp
  <2>2. Became(r, "done") /\ req[r].pc = "queued" /\ inflight' = inflight
    BY <1>10 DEF GivesUp
  <2>3. Holders(i, rt)' = Holders(i, rt)
    BY <1>5, <2>2, FirstStageHolds
  <2>4. LaneThins(i, rt, k)
    BY <2>1, <2>2, <2>3 DEF LaneThins
  <2>5. InLine(i, rt)'
    <3>1. k \in 1 .. Len(line) /\ Len(line) \in Nat
      BY <1>0, <2>1
    <3>2. /\ Len(RemoveAt(line, k)) = Len(line) - 1
          /\ \A j \in 1 .. Len(line) - 1 : RemoveAt(line, k)[j] = IF j < k THEN line[j] ELSE line[j + 1]
      BY <1>0, <3>1, ThinnedLine
    <3>3. \A j \in 1 .. Len(line) : j # k => line[j] # r /\ req'[line[j]].pc = "queued"
      BY <1>1, <1>2, <2>1, <2>2, <3>1 DEF Became
    <3> DEFINE rest == RemoveAt(line, k)
    <3> HIDE DEF line, rest
    <3>4. ASSUME NEW j \in 1 .. Len(line) - 1
          PROVE /\ req'[rest[j]].pc = "queued"
                /\ IsolateOf[rest[j]] = i /\ RouteOf[rest[j]] = rt
      <4>1. \E m \in 1 .. Len(line) : m # k /\ rest[j] = line[m]
        BY <3>1, <3>2 DEF rest
      <4> QED
        BY <1>1, <3>3, <4>1
    <3>5. \A j, m \in 1 .. Len(line) - 1 : rest[j] = rest[m] => j = m
      BY <1>2, <3>1, <3>2 DEF rest
    <3>6. waiters'[i][rt] = rest /\ Len(rest) = Len(line) - 1
      BY <2>1, <3>2 DEF rest
    <3> QED
      BY <3>4, <3>5, <3>6 DEF InLine
  <2> QED
    BY <2>4, <2>5 DEF LaneMove
<1>11. CASE Leaves(r)
  <2>1. /\ Became(r, "done") /\ Inside(req[r].pc) /\ waiters' = waiters /\ line = <<>>
        /\ inflight'[i][rt] = (IF inflight[i][rt] > 0 THEN inflight[i][rt] - 1 ELSE 0)
    BY <1>0, <1>11 DEF Leaves
  <2>2. Holders(i, rt)' = Holders(i, rt) \ {r}
    BY <2>1, MembersOfALane, LanesOfRequests, FirstStageHolds DEF Became
  <2>3. r \in Holders(i, rt)
    BY <2>1, MembersOfALane
  <2>4. LaneFrees(i, rt, r)
    BY <2>1, <2>2, <2>3 DEF LaneFrees
  <2>5. req[r].pc # "queued"
    BY <2>1 DEF Inside
  <2> QED
    BY <1>4, <2>1, <2>4, <2>5 DEF LaneMove
<1>12. CASE PassesOn(r)
  <2> DEFINE h == Head(line)
  <2>1. /\ line # <<>> /\ Inside(req[r].pc) /\ inflight' = inflight
        /\ waiters'[i][rt] = Tail(line)
        /\ \A p \in Requests : req'[p].pc = IF p = h THEN FirstStage
                                            ELSE IF p = r THEN "done" ELSE req[p].pc
    BY <1>0, <1>12 DEF PassesOn
  <2>2. /\ Len(line) \in Nat /\ Len(line) > 0 /\ h = line[1] /\ Len(Tail(line)) = Len(line) - 1
        /\ \A k \in 1 .. Len(line) - 1 : Tail(line)[k] = line[k + 1]
    BY <1>0, <2>1
  <2>3. h \in Requests /\ req[h].pc = "queued" /\ IsolateOf[h] = i /\ RouteOf[h] = rt
    BY <1>1, <2>2
  <2>4. r \in Holders(i, rt) /\ h \notin Holders(i, rt) /\ h # r
    BY <2>1, <2>3, MembersOfALane, FirstStageHolds
  <2>5. Holders(i, rt)' = (Holders(i, rt) \ {r}) \union {h}
    BY <2>1, <2>3, <2>4, MembersOfALane, LanesOfRequests, FirstStageHolds
  <2>6. LanePasses(i, rt, r)
    BY <2>1, <2>4, <2>5 DEF LanePasses
  <2>7. InLine(i, rt)'
    <3>1. \A k \in 1 .. Len(line) - 1 : k + 1 \in 1 .. Len(line)
      BY <2>2
    <3>2. \A k \in 1 .. Len(line) - 1 : line[k + 1] # h /\ line[k + 1] # r
      BY <1>1, <1>2, <2>1, <2>2, <3>1 DEF Inside
    <3> HIDE DEF line, h
    <3>3. \A k \in 1 .. Len(line) - 1 :
             /\ req'[Tail(line)[k]].pc = "queued"
             /\ IsolateOf[Tail(line)[k]] = i /\ RouteOf[Tail(line)[k]] = rt
      BY <1>1, <2>1, <2>2, <3>1, <3>2
    <3>4. \A j, k \in 1 .. Len(line) - 1 : Tail(line)[j] = Tail(line)[k] => j = k
      BY <1>2, <2>2, <3>1
    <3> QED
      BY <2>1, <2>2, <3>3, <3>4 DEF InLine
  <2> QED
    BY <2>6, <2>7 DEF LaneMove
<1> QED
  BY <1>6, <1>7, <1>8, <1>9, <1>10, <1>11, <1>12 DEF OnLane

LEMMA LanesMove ==
  ASSUME SlotInv, Moved, NEW i \in Isolates, NEW rt \in Routes
  PROVE LaneMove(i, rt) /\ InLine(i, rt)'
<1>1. Rests \/ \E r \in Requests : OnLane(r)
  BY DEF Moved
<1>2. CASE Rests
  BY <1>2, RestingLanes DEF LaneMove
<1>3. ASSUME NEW r \in Requests, OnLane(r) PROVE LaneMove(i, rt) /\ InLine(i, rt)'
  <2>1. CASE IsolateOf[r] = i /\ RouteOf[r] = rt
    BY <1>3, <2>1, OwnLane
  <2>2. CASE IsolateOf[r] # i \/ RouteOf[r] # rt
    BY <1>3, <2>2, OtherLanes DEF LaneMove
  <2> QED
    BY <2>1, <2>2
<1> QED
  BY <1>1, <1>2, <1>3

(* The slots start out free and every move keeps them counted. *)
LEMMA InitSlots == AdmissionInit => SlotInv
<1> SUFFICES ASSUME AdmissionInit, NEW i \in Isolates, NEW rt \in Routes
             PROVE LaneCounted(i, rt) /\ InLine(i, rt)
  BY InitTypes DEF SlotInv
<1>1. inflight[i][rt] = 0 /\ waiters[i][rt] = <<>>
  BY DEF AdmissionInit
<1>2. Holders(i, rt) = {}
  <2>1. \A r \in Requests : req[r].pc = "new"
    BY IdleIsARequest DEF AdmissionInit
  <2> QED
    BY <2>1 DEF Holders, HoldsSlot
<1> QED
  BY <1>1, <1>2, FS_EmptySet, CapsAreNumbers DEF LaneCounted, InLine

LEMMA SlotsKept == ASSUME SlotInv, Moved PROVE SlotInv'
<1>1. ASSUME NEW i \in Isolates, NEW rt \in Routes PROVE LaneCounted(i, rt)' /\ InLine(i, rt)'
  BY LanesMove, CountKept DEF SlotInv
<1> QED
  BY <1>1 DEF SlotInv, Moved

LEMMA StepSlots == SlotInv /\ [Next]_admissionVars => SlotInv' /\ Moved
<1> SUFFICES ASSUME SlotInv, [Next]_admissionVars PROVE SlotInv' /\ Moved
  OBVIOUS
<1>1. Moved
  BY StepTypes DEF SlotInv
<1> QED
  BY <1>1, SlotsKept

LEMMA SlotsSuffice == SlotInv => SlotsConserved
<1> SUFFICES ASSUME SlotInv, NEW i \in Isolates, NEW rt \in Routes
             PROVE /\ LaneCounted(i, rt)
                   /\ \A k \in DOMAIN waiters[i][rt] : req[waiters[i][rt][k]].pc = "queued"
  BY TypeInvSuffices DEF SlotInv, SlotsConserved, LaneCounted
<1>1. waiters[i][rt] \in Seq(Requests) /\ LaneCounted(i, rt) /\ InLine(i, rt)
  BY DEF SlotInv, TypeInv
<1> QED
  BY <1>1 DEF InLine

(***************************************************************************)
(* A slot of a lane is never lost and never given twice (limits.js, admit, *)
(* release and handOffOrRelease): the counter of a lane is the number of   *)
(* requests that hold a slot, it never passes the ceiling, and nobody      *)
(* waits while a slot is free, whatever a waiter's timer, a refusal of the *)
(* shared tier or an answer does in between.                               *)
(***************************************************************************)
THEOREM SlotsAreConserved == Spec => []SlotsConserved
<1>1. SlotInv /\ [Next]_admissionVars => SlotInv'
  BY StepSlots
<1> QED
  BY <1>1, InitSlots, SlotsSuffice, PTL DEF Spec

(* FairSlots counts with its own copy of Cardinality, which is the same. *)
LEMMA CountedAlike ==
  ASSUME NEW i, NEW rt, NEW S PROVE Slots(i, rt)!Cardinality(S) = Cardinality(S)
BY DEF Cardinality, Slots!Cardinality, ExistsBijection

LEMMA LanesAreFair ==
  ASSUME SlotInv, Moved, NEW i \in Isolates, NEW rt \in Routes
  PROVE [Slots(i, rt)!FairNext]_(Slots(i, rt)!fairVars)
<1> DEFINE H == Holders(i, rt)
           line == waiters[i][rt]
<1>0. /\ IsFiniteSet(H) /\ inflight[i][rt] = Cardinality(H) /\ Cap[rt] \in Nat
      /\ (line # <<>> => Cardinality(H) = Cap[rt]) /\ line \in Seq(Requests)
  <2>1. LaneCounted(i, rt) /\ line \in Seq(Requests)
    BY DEF SlotInv, TypeInv
  <2> QED
    BY <2>1, LanesOfRequests, FS_Subset, RequestsAssumption, CapsAreNumbers DEF LaneCounted
<1>1. CASE LaneIdles(i, rt)
  BY <1>1 DEF LaneIdles, Slots!fairVars
<1>2. ASSUME NEW p \in Requests, LaneTakes(i, rt, p) PROVE Slots(i, rt)!FairNext
  <2>1. ~(Cardinality(H) >= Cap[rt])
    BY <1>0, <1>2, FS_CardinalityType DEF LaneTakes
  <2>2. Slots(i, rt)!TakeFree(p)
    BY <1>2, <2>1, CountedAlike DEF LaneTakes, Slots!TakeFree, Slots!IsFull
  <2> QED
    BY <2>2 DEF Slots!FairNext
<1>3. ASSUME NEW p \in Requests, LaneJoins(i, rt, p) PROVE Slots(i, rt)!FairNext
  <2>1. Cardinality(H) >= Cap[rt]
    BY <1>0, <1>3, FS_CardinalityType DEF LaneJoins
  <2>2. Slots(i, rt)!StandInLine(p)
    BY <1>3, <2>1, CountedAlike DEF LaneJoins, Slots!StandInLine, Slots!IsFull
  <2> QED
    BY <2>2 DEF Slots!FairNext
<1>4. ASSUME NEW p \in Requests, LaneFrees(i, rt, p) PROVE Slots(i, rt)!FairNext
  <2>1. Slots(i, rt)!Leave(p) /\ p \in H
    BY <1>4 DEF LaneFrees, Slots!Leave
  <2> QED
    BY <2>1 DEF Slots!FairNext
<1>5. ASSUME NEW p \in Requests, LanePasses(i, rt, p) PROVE Slots(i, rt)!FairNext
  <2>1. Slots(i, rt)!PassOn(p) /\ p \in H
    BY <1>5 DEF LanePasses, Slots!PassOn
  <2> QED
    BY <2>1 DEF Slots!FairNext
<1>6. ASSUME NEW k \in DOMAIN line, LaneThins(i, rt, k) PROVE Slots(i, rt)!FairNext
  <2>1. line' = SubSeq(line, 1, k - 1) \o SubSeq(line, k + 1, Len(line))
    <3>1. line \in Seq(Requests) /\ k \in 1 .. Len(line) /\ line' = RemoveAt(line, k)
      BY <1>0, <1>6 DEF LaneThins
    <3>2. RemoveAt(line, k) = SubSeq(line, 1, k - 1) \o SubSeq(line, k + 1, Len(line))
      BY <3>1, ThinnedLine
    <3> QED
      BY <3>1, <3>2
  <2>2. Slots(i, rt)!LoseHeart
    BY <1>6, <2>1 DEF LaneThins, Slots!LoseHeart
  <2> QED
    BY <2>2 DEF Slots!FairNext
<1>7. LaneMove(i, rt)
  BY LanesMove
<1> QED
  BY <1>1, <1>2, <1>3, <1>4, <1>5, <1>6, <1>7 DEF LaneMove

LEMMA InitFair == AdmissionInit => \A i \in Isolates, rt \in Routes : Slots(i, rt)!FairInit
<1> SUFFICES ASSUME AdmissionInit, NEW i \in Isolates, NEW rt \in Routes
             PROVE Slots(i, rt)!FairInit
  OBVIOUS
<1>1. \A r \in Requests : req[r].pc = "new"
  BY IdleIsARequest DEF AdmissionInit
<1>2. Holders(i, rt) = {}
  BY <1>1 DEF Holders, HoldsSlot
<1>3. waiters[i][rt] = <<>>
  BY DEF AdmissionInit
<1> QED
  BY <1>2, <1>3 DEF Slots!FairInit

(***************************************************************************)
(* Every lane of the admission implements FairSlots: slots go to the       *)
(* waiters in the order they came, and a newcomer never passes them, while *)
(* the queue the code keeps is hidden behind timers, hand-offs and         *)
(* refusals.                                                               *)
(***************************************************************************)
THEOREM SlotsAreFair == Spec => FairOrder
<1>1. SlotInv /\ [Next]_admissionVars => SlotInv' /\
        [\A i \in Isolates, rt \in Routes :
            [Slots(i, rt)!FairNext]_(Slots(i, rt)!fairVars)]_admissionVars
  BY LanesAreFair, StepSlots
<1> QED
  BY <1>1, InitFair, InitSlots, PTL DEF Spec, FairOrder

-----------------------------------------------------------------------------
(* The shared windows                                                       *)

(* The requests of one visitor on one route let through in bucket b of     *)
(* scale s: LetThrough, with its bucket named.                             *)
Let(ip, rt, s, b) ==
  {q \in Requests : /\ req[q].counted
                    /\ ClientIp[q] = ip /\ RouteOf[q] = rt /\ Bucket(req[q].at, s) = b}

(* A stored value says no more than what was let through. *)
Honest(k, v) ==
  /\ k[1] = "minute" => v \in Nat /\ v <= Cardinality(Let(k[2], k[3], "min", k[4]))
  /\ k[1] = "wide" => \A s \in BudgetScales :
        v[s].n \in Nat /\ v[s].n <= Cardinality(Let(k[2], k[3], s, v[s].bucket))

HonestCache ==
  /\ \A k \in DOMAIN entry : Honest(k, entry[k])
  /\ \A w \in stray : Honest(w.key, w.body)

(* What a request carries between its read and its write is honest as      *)
(* well: it is counted before it writes, and what it read was honest.      *)
HonestRequest(r) ==
  /\ req[r].pc \in {"new", "queued", "minute", "wide"} => ~req[r].counted
  /\ req[r].pc = "wide" => req[r].used <= Cardinality(LetThrough(r, "min"))
  /\ req[r].pc \in {"widePut", "minutePut"} => req[r].used + 1 <= Cardinality(LetThrough(r, "min"))
  /\ req[r].pc = "widePut" => Honest(WideEntry(r), req[r].next)

WindowInv ==
  /\ SlotInv
  /\ HonestCache
  /\ \A r \in Requests : HonestRequest(r)

(* Requests once counted stay counted, in their bucket: the number let     *)
(* through only grows, and honest values stay honest.                      *)
CountedStay ==
  \A q \in Requests : req[q].counted => req'[q].counted /\ req'[q].at = req[q].at

LEMMA LetIsLetThrough ==
  ASSUME NEW r, NEW s
  PROVE LetThrough(r, s) = Let(ClientIp[r], RouteOf[r], s, Bucket(req[r].at, s))
BY DEF LetThrough, Let

LEMMA LetsAreFinite ==
  ASSUME NEW ip, NEW rt, NEW s, NEW b
  PROVE /\ IsFiniteSet(Let(ip, rt, s, b)) /\ Cardinality(Let(ip, rt, s, b)) \in Nat
        /\ IsFiniteSet(Let(ip, rt, s, b)') /\ Cardinality(Let(ip, rt, s, b)') \in Nat
<1>1. Let(ip, rt, s, b) \subseteq Requests /\ Let(ip, rt, s, b)' \subseteq Requests
  BY DEF Let
<1> QED
  BY <1>1, FS_Subset, FS_CardinalityType, RequestsAssumption

LEMMA LetsGrow ==
  ASSUME CountedStay, NEW ip, NEW rt, NEW s, NEW b
  PROVE Cardinality(Let(ip, rt, s, b)) <= Cardinality(Let(ip, rt, s, b)')
<1>1. Let(ip, rt, s, b) \subseteq Let(ip, rt, s, b)'
  BY DEF Let, CountedStay
<1> QED
  BY <1>1, LetsAreFinite, FS_Subset

LEMMA HonestyKept ==
  ASSUME CountedStay, NEW k, NEW v, Honest(k, v)
  PROVE Honest(k, v)'
<1>1. CASE k[1] = "minute"
  <2>1. Cardinality(Let(k[2], k[3], "min", k[4])) <= Cardinality(Let(k[2], k[3], "min", k[4])')
    BY LetsGrow
  <2> QED
    BY <1>1, <2>1, LetsAreFinite DEF Honest
<1>2. CASE k[1] = "wide"
  <2>1. ASSUME NEW s \in BudgetScales
        PROVE v[s].n \in Nat /\ v[s].n <= Cardinality(Let(k[2], k[3], s, v[s].bucket)')
    <3>1. v[s].n \in Nat /\ v[s].n <= Cardinality(Let(k[2], k[3], s, v[s].bucket))
      BY <1>2 DEF Honest
    <3>2. Cardinality(Let(k[2], k[3], s, v[s].bucket)) <= Cardinality(Let(k[2], k[3], s, v[s].bucket)')
      BY LetsGrow
    <3> QED
      BY <3>1, <3>2, LetsAreFinite
  <2> QED
    BY <1>2, <2>1 DEF Honest
<1>3. CASE k[1] # "minute" /\ k[1] # "wide"
  BY <1>3 DEF Honest
<1> QED
  BY <1>1, <1>2, <1>3

(* What a step of request r does to the others: nothing, or it hands one   *)
(* of them the slot.                                                       *)
OthersStand(r) ==
  \A p \in Requests : p # r => \/ req'[p] = req[p]
                               \/ /\ req[p].pc = "queued" /\ req'[p].pc = FirstStage
                                  /\ req'[p].counted = req[p].counted
                                  /\ req'[p].times = req[p].times
                                  /\ req'[p].refunded = req[p].refunded

LEMMA OthersStayHonest ==
  ASSUME WindowInv, CountedStay, NEW r \in Requests, OthersStand(r),
         NEW p \in Requests, p # r
  PROVE HonestRequest(p)'
<1>0. HonestRequest(p) /\ IsRequest(req[p])
  BY DEF WindowInv, SlotInv, TypeInv, RequestsTyped
<1>1. CASE req'[p] = req[p]
  <2>0. PICK b : b = Bucket(req[p].at, "min")
    OBVIOUS
  <2> DEFINE L == Let(ClientIp[p], RouteOf[p], "min", b)
  <2>1. Cardinality(L) <= Cardinality(L') /\ Cardinality(L) \in Nat /\ Cardinality(L') \in Nat
    BY LetsGrow, LetsAreFinite
  <2>2. LetThrough(p, "min") = L /\ LetThrough(p, "min")' = L'
    BY <1>1, <2>0 DEF LetThrough, Let
  <2>3. req[p].pc = "widePut" => Honest(WideEntry(p), req[p].next)'
    BY <1>0, <1>1, HonestyKept DEF HonestRequest, WideEntry
  <2> HIDE DEF L
  <2> QED
    BY <1>0, <1>1, <2>1, <2>2, <2>3 DEF HonestRequest, IsRequest
<1>2. CASE /\ req[p].pc = "queued" /\ req'[p].pc = FirstStage
           /\ req'[p].counted = req[p].counted
  <2>1. req'[p].pc \in {"minute", "granted"}
    BY <1>2, StageNames
  <2> QED
    BY <1>0, <1>2, <2>1 DEF HonestRequest
<1> QED
  BY <1>1, <1>2 DEF OthersStand

HonestRequests == \A r \in Requests : HonestRequest(r)

OwnCountStays(r) == req[r].counted => req'[r].counted /\ req'[r].at = req[r].at

LEMMA CountsStay ==
  ASSUME WindowInv, NEW r \in Requests, OthersStand(r), OwnCountStays(r)
  PROVE CountedStay
<1>1. \A p \in Requests : req[p].pc = "queued" => ~req[p].counted
  BY DEF WindowInv, HonestRequest
<1> QED
  BY <1>1 DEF CountedStay, OthersStand, OwnCountStays

(* A step that ends where the request carries no number. *)
Quiet(r) ==
  /\ req'[r].pc \notin {"wide", "widePut", "minutePut"}
  /\ req'[r].pc \in {"new", "queued", "minute"} => ~req'[r].counted

LEMMA HonestStep ==
  ASSUME WindowInv, NEW r \in Requests, OthersStand(r), OwnCountStays(r),
         CountedStay => HonestRequest(r)'
  PROVE /\ HonestRequests'
        /\ entry' = entry /\ stray' = stray => HonestCache'
<1>1. CountedStay
  BY CountsStay
<1>2. \A p \in Requests : HonestRequest(p)'
  BY <1>1, OthersStayHonest
<1>3. ASSUME entry' = entry, stray' = stray PROVE HonestCache'
  BY <1>1, <1>3, HonestyKept DEF WindowInv, HonestCache
<1> QED
  BY <1>2, <1>3 DEF HonestRequests

LEMMA QuietStep ==
  ASSUME WindowInv, NEW r \in Requests, OthersStand(r), OwnCountStays(r), Quiet(r)
  PROVE /\ HonestRequests'
        /\ entry' = entry /\ stray' = stray => HonestCache'
<1>1. HonestRequest(r)'
  BY DEF Quiet, HonestRequest
<1> QED
  BY <1>1, HonestStep

(* The two forms a step writes the requests in: one record, or one record  *)
(* and the request at the head of the line.                                *)
LEMMA OneRecord ==
  ASSUME TypeInv, NEW r \in Requests, NEW q, req' = [req EXCEPT ![r] = q]
  PROVE OthersStand(r) /\ req'[r] = q
BY DEF TypeInv, RequestsTyped, OthersStand

LEMMA HandedRecord ==
  ASSUME SlotInv, NEW r \in Requests, req[r].pc # "queued", NEW q,
         req' = WithHandOff([req EXCEPT ![r] = q], IsolateOf[r], RouteOf[r])
  PROVE OthersStand(r) /\ req'[r] = q
<1> DEFINE i == IsolateOf[r]
           rt == RouteOf[r]
           line == waiters[i][rt]
           h == Head(line)
           rq == [req EXCEPT ![r] = q]
<1>0. /\ line \in Seq(Requests) /\ InLine(i, rt) /\ RequestsTyped /\ TypeInv
  BY LinesTyped DEF SlotInv, TypeInv, Line
<1>1. CASE line = <<>>
  <2>1. req' = [req EXCEPT ![r] = q]
    BY <1>1 DEF WithHandOff
  <2> QED
    BY <1>0, <2>1, OneRecord
<1>2. CASE line # <<>>
  <2>1. req' = [rq EXCEPT ![h].pc = FirstStage]
    BY <1>2 DEF WithHandOff
  <2>2. h \in Requests /\ req[h].pc = "queued" /\ h # r
    <3>1. Len(line) \in Nat /\ 1 \in 1 .. Len(line) /\ h = line[1] /\ line[1] \in Requests
      BY <1>0, <1>2
    <3> QED
      BY <1>0, <3>1 DEF InLine
  <2>3. DOMAIN rq = Requests /\ rq[h] = req[h] /\ rq[r] = q
        /\ \A p \in Requests : p # r => rq[p] = req[p]
    BY <1>0, <2>2 DEF RequestsTyped
  <2>4. \A p \in Requests : req'[p] = IF p = h THEN [req[h] EXCEPT !.pc = FirstStage] ELSE rq[p]
    <3> HIDE DEF rq, h
    <3> QED
      BY <2>1, <2>2, <2>3
  <2>5. IsRequest(req[h])
    BY <1>0, <2>2 DEF RequestsTyped
  <2>6. [req[h] EXCEPT !.pc = FirstStage].pc = FirstStage
        /\ [req[h] EXCEPT !.pc = FirstStage].counted = req[h].counted
        /\ [req[h] EXCEPT !.pc = FirstStage].times = req[h].times
        /\ [req[h] EXCEPT !.pc = FirstStage].refunded = req[h].refunded
    <3> HIDE DEF h
    <3> QED
      BY <2>5 DEF IsRequest, FieldNames
  <2> HIDE DEF rq, h
  <2> QED
    BY <2>2, <2>3, <2>4, <2>6 DEF OthersStand
<1> QED
  BY <1>1, <1>2

LEMMA RefusedKeeps ==
  ASSUME NEW q, IsRequest(q), NEW reason
  PROVE /\ Refused(q, reason).counted = q.counted /\ Refused(q, reason).at = q.at
        /\ Refused(q, reason).times = q.times /\ Refused(q, reason).refunded = q.refunded
BY DEF Refused, IsRequest, FieldNames

(* One lemma for every action, as for the types. *)
LEMMA AdmitHonest ==
  ASSUME WindowInv, NEW r \in Requests, Admit(r)
  PROVE HonestCache' /\ HonestRequests'
<1>0. SlotInv /\ TypeInv /\ now \in Nat /\ req[r].pc = "new" /\ entry' = entry /\ stray' = stray
  BY LinesTyped DEF WindowInv, SlotInv, Admit
<1>1. ~req[r].counted
  BY <1>0 DEF WindowInv, HonestRequest
<1>2. ASSUME NEW q, req' = [req EXCEPT ![r] = q], ~q.counted,
             q.pc \in {"done", "queued", FirstStage}
      PROVE HonestCache' /\ HonestRequests'
  <2>1. OthersStand(r) /\ req'[r] = q
    BY <1>0, <1>2, OneRecord
  <2>2. Quiet(r)
    BY <1>2, <2>1, StageNames DEF Quiet
  <2>3. OwnCountStays(r)
    BY <1>1 DEF OwnCountStays
  <2> QED
    BY <1>0, <2>1, <2>2, <2>3, QuietStep
<1>3. ~Idle.counted /\ IsRequest([Idle EXCEPT !.at = now]) /\ ~[Idle EXCEPT !.at = now].counted
  BY <1>0, IdleIsARequest, Updates DEF Idle
<1>4. \A pc \in Stages : ~Arrived(r, pc).counted
  BY DEF Arrived, Idle
<1>5. "done" \in Stages /\ "queued" \in Stages /\ FirstStage \in Stages
  BY StageNames DEF Stages
<1>6. \A reason : LET q == Refused([Idle EXCEPT !.at = now], reason) IN
                     ~q.counted /\ q.pc = "done"
  BY <1>3, RefusedIsDone, RefusedKeeps
<1>7. CASE ForbidOrigin(r)
  BY <1>2, <1>6, <1>7 DEF ForbidOrigin
<1>8. CASE RefuseWindow(r)
  BY <1>2, <1>6, <1>8 DEF RefuseWindow
<1>9. CASE RefuseFull(r)
  BY <1>2, <1>6, <1>9 DEF RefuseFull
<1>10. CASE RefuseBudget(r)
  <2> DEFINE a == [Arrived(r, "done") EXCEPT !.times = 0]
             q == Refused(a, "budget_exhausted")
  <2>1. IsRequest(a) /\ ~a.counted
    <3>1. IsRequest(Arrived(r, "done")) /\ ~Arrived(r, "done").counted
      BY <1>0, <1>4, <1>5, ArrivedIsThere
    <3> QED
      BY <3>1, Updates DEF IsRequest, FieldNames
  <2>2. ~q.counted /\ q.pc = "done"
    <3> HIDE DEF a
    <3> QED
      BY <2>1, RefusedIsDone, RefusedKeeps
  <2>3. req' = [req EXCEPT ![r] = q]
    BY <1>10 DEF RefuseBudget
  <2> HIDE DEF q
  <2> QED
    BY <1>2, <2>2, <2>3
<1>11. CASE TakeSlot(r)
  <2>1. ~Arrived(r, FirstStage).counted /\ Arrived(r, FirstStage).pc = FirstStage
    BY <1>0, <1>4, <1>5, ArrivedIsThere
  <2> QED
    BY <1>2, <1>11, <2>1 DEF TakeSlot
<1>12. CASE JoinQueue(r)
  <2>1. ~Arrived(r, "queued").counted /\ Arrived(r, "queued").pc = "queued"
    BY <1>0, <1>4, <1>5, ArrivedIsThere
  <2> QED
    BY <1>2, <1>12, <2>1 DEF JoinQueue
<1> QED
  BY <1>7, <1>8, <1>9, <1>10, <1>11, <1>12 DEF Admit

(* A request that is given up, and one that goes on to the budget. *)
LEMMA GivenUp ==
  ASSUME NEW q, IsRequest(q), NEW reason
  PROVE LET d == Refused([q EXCEPT !.held = {}, !.times = 0], reason) IN
        /\ d.pc = "done" /\ d.counted = q.counted /\ d.at = q.at
        /\ d.times = 0 /\ d.refunded = q.refunded
<1> DEFINE a == [q EXCEPT !.held = {}]
           b == [a EXCEPT !.times = 0]
<1>1. IsRequest(a) /\ a.counted = q.counted /\ a.at = q.at /\ a.refunded = q.refunded
  BY Updates DEF IsRequest, FieldNames
<1>2. /\ IsRequest(b) /\ b.counted = a.counted /\ b.at = a.at
      /\ b.times = 0 /\ b.refunded = a.refunded
  <2> HIDE DEF a
  <2> QED
    BY <1>1, Updates DEF IsRequest, FieldNames
<1>3. /\ Refused(b, reason).pc = "done" /\ Refused(b, reason).counted = b.counted
      /\ Refused(b, reason).at = b.at
      /\ Refused(b, reason).times = b.times /\ Refused(b, reason).refunded = b.refunded
  <2> HIDE DEF b
  <2> QED
    BY <1>2, RefusedIsDone, RefusedKeeps
<1> QED
  BY <1>1, <1>2, <1>3

LEMMA ExpireHonest ==
  ASSUME WindowInv, NEW r \in Requests, Expire(r)
  PROVE HonestCache' /\ HonestRequests'
<1> DEFINE d == Refused([req[r] EXCEPT !.held = {}, !.times = 0], "at_capacity")
<1>0. TypeInv /\ IsRequest(req[r]) /\ entry' = entry /\ stray' = stray
  BY DEF WindowInv, SlotInv, TypeInv, RequestsTyped, Expire
<1>1. d.pc = "done" /\ d.counted = req[r].counted /\ d.at = req[r].at
  BY <1>0, GivenUp
<1>2. req' = [req EXCEPT ![r] = d]
  BY <1>0 DEF Expire, TypeInv, RequestsTyped
<1> HIDE DEF d
<1>3. OthersStand(r) /\ req'[r] = d
  BY <1>0, <1>2, OneRecord
<1> QED
  BY <1>0, <1>1, <1>3, QuietStep DEF Quiet, OwnCountStays

LEMMA SharedRefuseHonest ==
  ASSUME WindowInv, NEW r \in Requests, Inside(req[r].pc), NEW reason, SharedRefuse(r, reason),
         entry' = entry, stray' = stray
  PROVE HonestCache' /\ HonestRequests'
<1> DEFINE d == Refused([req[r] EXCEPT !.held = {}, !.times = 0], reason)
<1>0. SlotInv /\ TypeInv /\ IsRequest(req[r]) /\ req[r].pc # "queued"
  BY DEF WindowInv, SlotInv, TypeInv, RequestsTyped, Inside
<1>1. d.pc = "done" /\ d.counted = req[r].counted /\ d.at = req[r].at
  BY <1>0, GivenUp
<1>2. req' = WithHandOff([req EXCEPT ![r] = d], IsolateOf[r], RouteOf[r])
  BY <1>0 DEF SharedRefuse, TypeInv, RequestsTyped
<1> HIDE DEF d
<1>3. OthersStand(r) /\ req'[r] = d
  BY <1>0, <1>2, HandedRecord
<1> QED
  BY <1>1, <1>3, QuietStep DEF Quiet, OwnCountStays

LEMMA GoOnKeeps ==
  ASSUME TypeInv, NEW r \in Requests, NEW q, IsRequest(q),
         NEW stages \in SUBSET CappedScales, NEW led, GoOn(r, q, stages, led)
  PROVE /\ OthersStand(r)
        /\ req'[r].pc \in {"granted", "hour", "day"}
        /\ req'[r].counted = q.counted /\ req'[r].at = q.at
        /\ req'[r].times = q.times /\ req'[r].refunded = q.refunded
<1>1. \A pc, owes : LET a == [q EXCEPT !.pc = pc, !.owes = owes] IN
                      /\ a.pc = pc /\ a.counted = q.counted /\ a.at = q.at
                      /\ a.times = q.times /\ a.refunded = q.refunded
  BY DEF IsRequest, FieldNames
<1>2. PICK pc, owes : /\ req' = [req EXCEPT ![r] = [q EXCEPT !.pc = pc, !.owes = owes]]
                      /\ pc \in {"granted", "hour", "day"}
  BY ScalesTyped DEF GoOn, BudgetScales
<1> DEFINE d == [q EXCEPT !.pc = pc, !.owes = owes]
<1>3. /\ d.pc = pc /\ d.counted = q.counted /\ d.at = q.at
      /\ d.times = q.times /\ d.refunded = q.refunded
  BY <1>1
<1>4. req' = [req EXCEPT ![r] = d]
  BY <1>2
<1> HIDE DEF d
<1>5. OthersStand(r) /\ req'[r] = d
  BY <1>4, OneRecord
<1> QED
  BY <1>2, <1>3, <1>5

LEMMA GoOnHonest ==
  ASSUME WindowInv, NEW r \in Requests,
         NEW q, IsRequest(q), q.counted = req[r].counted, q.at = req[r].at,
         NEW stages \in SUBSET CappedScales, NEW led, GoOn(r, q, stages, led)
  PROVE /\ HonestRequests'
        /\ entry' = entry /\ stray' = stray => HonestCache'
<1>1. /\ OthersStand(r) /\ req'[r].pc \in {"granted", "hour", "day"}
      /\ req'[r].counted = q.counted /\ req'[r].at = q.at
  BY GoOnKeeps DEF WindowInv, SlotInv
<1>2. Quiet(r) /\ OwnCountStays(r)
  BY <1>1 DEF Quiet, OwnCountStays
<1> QED
  BY <1>1, <1>2, QuietStep

LEMMA ReleaseHonest ==
  ASSUME WindowInv, NEW r \in Requests, Release(r, "none")
  PROVE HonestCache' /\ HonestRequests'
<1> DEFINE d == [req[r] EXCEPT !.pc = "done", !.reason = "none"]
<1>0. /\ SlotInv /\ TypeInv /\ IsRequest(req[r]) /\ req[r].pc # "queued"
      /\ entry' = entry /\ stray' = stray
  BY DEF WindowInv, SlotInv, TypeInv, RequestsTyped, Release
<1>1. d.pc = "done" /\ d.counted = req[r].counted /\ d.at = req[r].at
  BY <1>0 DEF IsRequest, FieldNames
<1>2. req' = WithHandOff([req EXCEPT ![r] = d], IsolateOf[r], RouteOf[r])
  <2>1. [req EXCEPT ![r].pc = "done", ![r].reason = "none"] = [req EXCEPT ![r] = d]
    BY <1>0 DEF TypeInv, RequestsTyped
  <2> QED
    BY <2>1 DEF Release
<1> HIDE DEF d
<1>3. OthersStand(r) /\ req'[r] = d
  BY <1>0, <1>2, HandedRecord
<1> QED
  BY <1>0, <1>1, <1>3, QuietStep DEF Quiet, OwnCountStays

LEMMA ReliefHonest ==
  ASSUME WindowInv, NEW r \in Requests, RefundBudget(r) \/ ChargeExtra(r)
  PROVE HonestCache' /\ HonestRequests'
<1>0. /\ TypeInv /\ RequestsTyped /\ IsRequest(req[r]) /\ req[r].pc = "granted"
      /\ entry' = entry /\ stray' = stray
  BY DEF WindowInv, SlotInv, TypeInv, RequestsTyped, RefundBudget, ChargeExtra
<1>1. ASSUME NEW d, req' = [req EXCEPT ![r] = d],
             d.pc = "granted", d.counted = req[r].counted, d.at = req[r].at
      PROVE HonestCache' /\ HonestRequests'
  <2>1. OthersStand(r) /\ req'[r] = d
    BY <1>0, <1>1, OneRecord
  <2> QED
    BY <1>0, <1>1, <2>1, QuietStep DEF Quiet, OwnCountStays
<1>2. CASE RefundBudget(r)
  <2> DEFINE d == [req[r] EXCEPT !.refunded = TRUE, !.times = 0]
  <2>1. req' = [req EXCEPT ![r] = d]
    BY <1>0, <1>2 DEF RefundBudget, RequestsTyped
  <2>2. d.pc = "granted" /\ d.counted = req[r].counted /\ d.at = req[r].at
    BY <1>0 DEF IsRequest, FieldNames
  <2> HIDE DEF d
  <2> QED
    BY <1>1, <2>1, <2>2
<1>3. CASE ChargeExtra(r)
  <2> DEFINE d == [req[r] EXCEPT !.times = @ + 1]
  <2>1. req' = [req EXCEPT ![r] = d]
    BY <1>0, <1>3 DEF ChargeExtra, RequestsTyped
  <2>2. d.pc = "granted" /\ d.counted = req[r].counted /\ d.at = req[r].at
    BY <1>0 DEF IsRequest, FieldNames
  <2> HIDE DEF d
  <2> QED
    BY <1>1, <2>1, <2>2
<1> QED
  BY <1>2, <1>3

LEMMA HonestEntries ==
  ASSUME NEW r, NEW v
  PROVE /\ Honest(MinuteEntry(r), v) <=> v \in Nat /\ v <= Cardinality(LetThrough(r, "min"))
        /\ Honest(WideEntry(r), v) <=> \A s \in BudgetScales :
              v[s].n \in Nat /\ v[s].n <= Cardinality(Let(ClientIp[r], RouteOf[r], s, v[s].bucket))
        /\ \A s, b : Honest(UnitEntry(s, b), v)
<1>1. /\ MinuteEntry(r)[1] = "minute" /\ MinuteEntry(r)[2] = ClientIp[r]
      /\ MinuteEntry(r)[3] = RouteOf[r] /\ MinuteEntry(r)[4] = Bucket(req[r].at, "min")
  BY DEF MinuteEntry
<1>2. /\ WideEntry(r)[1] = "wide" /\ WideEntry(r)[2] = ClientIp[r] /\ WideEntry(r)[3] = RouteOf[r]
  BY DEF WideEntry
<1>3. \A s, b : UnitEntry(s, b)[1] = "units"
  BY DEF UnitEntry
<1> QED
  BY <1>1, <1>2, <1>3, LetIsLetThrough DEF Honest

LEMMA AnswersAreHonest ==
  ASSUME HonestCache, NEW r
  PROVE /\ \A seen \in Answers(MinuteEntry(r), 0) : Honest(MinuteEntry(r), seen)
        /\ \A seen \in Answers(WideEntry(r), NoWide) : Honest(WideEntry(r), seen)
<1>1. Honest(MinuteEntry(r), 0)
  BY HonestEntries, LetsAreFinite, LetIsLetThrough
<1>2. Honest(WideEntry(r), NoWide)
  <2>1. \A s \in BudgetScales : NoWide[s].n = 0
    BY DEF NoWide, NoCount, BudgetScales
  <2>2. \A s \in BudgetScales : 0 <= Cardinality(Let(ClientIp[r], RouteOf[r], s, NoWide[s].bucket))
    BY LetsAreFinite
  <2> QED
    BY <2>1, <2>2, HonestEntries
<1> QED
  BY <1>1, <1>2 DEF Answers, Stored, HonestCache

(* A request that is let through counts in the windows it is in. *)
LEMMA LetThroughCounts ==
  ASSUME CountedStay, NEW r \in Requests,
         ~req[r].counted, req'[r].counted, req'[r].at = req[r].at, NEW s
  PROVE LET b == Bucket(req[r].at, s) IN
        Cardinality(Let(ClientIp[r], RouteOf[r], s, b)) + 1
          <= Cardinality(Let(ClientIp[r], RouteOf[r], s, b)')
<1>0. PICK b : b = Bucket(req[r].at, s)
  OBVIOUS
<1> DEFINE L == Let(ClientIp[r], RouteOf[r], s, b)
<1>1. r \notin L /\ L \union {r} \subseteq L'
  BY <1>0 DEF Let, CountedStay
<1>2. IsFiniteSet(L) /\ IsFiniteSet(L') /\ Cardinality(L) \in Nat /\ Cardinality(L') \in Nat
  BY LetsAreFinite
<1> HIDE DEF L
<1>3. IsFiniteSet(L \union {r}) /\ Cardinality(L \union {r}) = Cardinality(L) + 1
  BY <1>1, <1>2, FS_AddElement
<1>4. Cardinality(L \union {r}) <= Cardinality(L')
  BY <1>1, <1>2, FS_Subset
<1>5. Cardinality(L) + 1 <= Cardinality(L')
  BY <1>3, <1>4
<1>6. Cardinality(Let(ClientIp[r], RouteOf[r], s, b)) + 1
        <= Cardinality(Let(ClientIp[r], RouteOf[r], s, b)')
  BY <1>5 DEF L
<1> QED
  BY <1>0, <1>6

LEMMA ReadMinuteHonest ==
  ASSUME WindowInv, NEW r \in Requests, ReadMinute(r)
  PROVE HonestCache' /\ HonestRequests'
<1>0. /\ TypeInv /\ RequestsTyped /\ IsRequest(req[r]) /\ req[r].pc = "minute" /\ ~req[r].counted
      /\ Inside(req[r].pc) /\ entry' = entry /\ stray' = stray /\ HonestCache
  BY DEF WindowInv, SlotInv, TypeInv, RequestsTyped, ReadMinute, HonestRequest, Inside
<1>1. CASE GoOn(r, req[r], CappedScales, ledger)
  BY <1>0, <1>1, GoOnHonest
<1>2. CASE SharedRefuse(r, "rate_limited")
  BY <1>0, <1>2, SharedRefuseHonest
<1>3. ASSUME NEW seen \in Answers(MinuteEntry(r), 0),
             req' = [req EXCEPT ![r].pc = "wide", ![r].used = seen]
      PROVE HonestCache' /\ HonestRequests'
  <2> DEFINE d == [req[r] EXCEPT !.pc = "wide", !.used = seen]
  <2>1. seen \in Nat /\ seen <= Cardinality(LetThrough(r, "min"))
    BY <1>0, AnswersAreHonest, HonestEntries
  <2>2. d.pc = "wide" /\ d.used = seen /\ d.counted = req[r].counted /\ d.at = req[r].at
    BY <1>0 DEF IsRequest, FieldNames
  <2>3. req' = [req EXCEPT ![r] = d]
    BY <1>0, <1>3 DEF RequestsTyped
  <2> HIDE DEF d
  <2>4. OthersStand(r) /\ req'[r] = d
    BY <1>0, <2>3, OneRecord
  <2>5. ASSUME CountedStay PROVE HonestRequest(r)'
    <3>0. PICK b : b = Bucket(req[r].at, "min")
      OBVIOUS
    <3>1. Cardinality(Let(ClientIp[r], RouteOf[r], "min", b))
            <= Cardinality(Let(ClientIp[r], RouteOf[r], "min", b)')
      BY <2>5, LetsGrow
    <3>2. /\ LetThrough(r, "min") = Let(ClientIp[r], RouteOf[r], "min", b)
          /\ LetThrough(r, "min")' = Let(ClientIp[r], RouteOf[r], "min", b)'
      BY <2>2, <2>4, <3>0 DEF LetThrough, Let
    <3>3. seen <= Cardinality(LetThrough(r, "min")')
      BY <2>1, <3>1, <3>2, LetsAreFinite
    <3> QED
      BY <1>0, <2>2, <2>4, <3>3 DEF HonestRequest
  <2> QED
    BY <1>0, <2>2, <2>4, <2>5, HonestStep DEF OwnCountStays
<1> QED
  BY <1>1, <1>2, <1>3 DEF ReadMinute

LEMMA ReadWideHonest ==
  ASSUME WindowInv, NEW r \in Requests, ReadWide(r)
  PROVE HonestCache' /\ HonestRequests'
<1>0. /\ TypeInv /\ RequestsTyped /\ IsRequest(req[r]) /\ req[r].pc = "wide" /\ ~req[r].counted
      /\ Inside(req[r].pc) /\ entry' = entry /\ stray' = stray /\ HonestCache
      /\ req[r].used <= Cardinality(LetThrough(r, "min"))
  BY DEF WindowInv, SlotInv, TypeInv, RequestsTyped, ReadWide, HonestRequest, Inside
<1>1. CASE SharedRefuse(r, "rate_limited")
  BY <1>0, <1>1, SharedRefuseHonest
<1>2. ASSUME NEW d, req' = [req EXCEPT ![r] = d], d.pc \in {"minutePut", "widePut"},
             d.counted, d.used = req[r].used, d.at = req[r].at,
             d.pc = "widePut" => \E seen \in Answers(WideEntry(r), NoWide) :
                                    d.next = WideNext(r, seen)
      PROVE HonestCache' /\ HonestRequests'
  <2>1. OthersStand(r) /\ req'[r] = d
    BY <1>0, <1>2, OneRecord
  <2>2. ASSUME CountedStay PROVE HonestRequest(r)'
    <3>0. PICK at \in Nat : at = req[r].at
      BY <1>0 DEF IsRequest
    <3>1. ASSUME NEW s
          PROVE Cardinality(Let(ClientIp[r], RouteOf[r], s, Bucket(at, s))) + 1
                  <= Cardinality(Let(ClientIp[r], RouteOf[r], s, Bucket(at, s))')
      BY <1>0, <1>2, <2>1, <2>2, <3>0, LetThroughCounts
    <3>2. /\ LetThrough(r, "min") = Let(ClientIp[r], RouteOf[r], "min", Bucket(at, "min"))
          /\ LetThrough(r, "min")' = Let(ClientIp[r], RouteOf[r], "min", Bucket(at, "min"))'
      BY <1>2, <2>1, <3>0 DEF LetThrough, Let
    <3>3. req'[r].used + 1 <= Cardinality(LetThrough(r, "min")')
      <4>1. Cardinality(LetThrough(r, "min")) + 1 <= Cardinality(LetThrough(r, "min")')
        BY <3>1, <3>2
      <4>2. req'[r].used = req[r].used /\ req[r].used \in Nat
        BY <1>0, <1>2, <2>1 DEF IsRequest
      <4>3. Cardinality(LetThrough(r, "min")) \in Nat /\ Cardinality(LetThrough(r, "min")') \in Nat
        BY <3>2, LetsAreFinite
      <4> QED
        BY <1>0, <4>1, <4>2, <4>3
    <3>4. ASSUME req'[r].pc = "widePut" PROVE Honest(WideEntry(r), req[r].next)'
      <4>1. PICK seen \in Answers(WideEntry(r), NoWide) : req'[r].next = WideNext(r, seen)
        BY <1>2, <2>1, <3>4
      <4>2. \A s \in BudgetScales :
               /\ seen[s].n \in Nat
               /\ seen[s].n <= Cardinality(Let(ClientIp[r], RouteOf[r], s, seen[s].bucket))
        BY <1>0, AnswersAreHonest, HonestEntries
      <4>5. PICK v : v = req'[r].next
        OBVIOUS
      <4>3. ASSUME NEW s \in BudgetScales
            PROVE /\ v[s].n \in Nat
                  /\ v[s].n <= Cardinality(Let(ClientIp[r], RouteOf[r], s, v[s].bucket)')
        <5> DEFINE b == Bucket(at, s)
                   used == WideUsed(seen, s, at)
        <5>1. used \in Nat /\ used <= Cardinality(Let(ClientIp[r], RouteOf[r], s, b))
          BY <4>2, LetsAreFinite DEF WideUsed
        <5>2. used + 1 <= Cardinality(Let(ClientIp[r], RouteOf[r], s, b)')
          <6> HIDE DEF used
          <6> QED
            BY <3>1, <5>1, LetsAreFinite
        <5>3. (v[s].n = used + 1 /\ v[s].bucket = b) \/ v[s].n = 0
          BY <3>0, <4>1, <4>5 DEF WideNext, NoCount
        <5>5. 0 <= Cardinality(Let(ClientIp[r], RouteOf[r], s, v[s].bucket)')
          BY LetsAreFinite
        <5> HIDE DEF used
        <5>6. CASE v[s].n = used + 1 /\ v[s].bucket = b
          BY <5>1, <5>2, <5>6
        <5>7. CASE v[s].n = 0
          BY <5>5, <5>7
        <5> QED
          BY <5>3, <5>6, <5>7
      <4>4. WideEntry(r)'[1] = "wide" /\ WideEntry(r)'[2] = ClientIp[r] /\ WideEntry(r)'[3] = RouteOf[r]
        BY DEF WideEntry
      <4>6. PICK k : k = WideEntry(r)'
        OBVIOUS
      <4>7. k[1] = "wide" /\ k[2] = ClientIp[r] /\ k[3] = RouteOf[r]
        BY <4>4, <4>6
      <4>8. Honest(k, v)'
        BY <4>3, <4>7 DEF Honest
      <4> QED
        BY <4>5, <4>6, <4>8 DEF Honest
    <3> QED
      BY <1>2, <2>1, <3>3, <3>4 DEF HonestRequest
  <2>3. OwnCountStays(r)
    BY <1>0 DEF OwnCountStays
  <2> QED
    BY <1>0, <2>1, <2>2, <2>3, HonestStep
<1>3. CASE req' = [req EXCEPT ![r].pc = "minutePut", ![r].counted = TRUE]
  <2> DEFINE d == [req[r] EXCEPT !.pc = "minutePut", !.counted = TRUE]
  <2>1. d.pc = "minutePut" /\ d.counted /\ d.used = req[r].used /\ d.at = req[r].at
    BY <1>0 DEF IsRequest, FieldNames
  <2>2. req' = [req EXCEPT ![r] = d]
    BY <1>0, <1>3 DEF RequestsTyped
  <2> HIDE DEF d
  <2> QED
    BY <1>2, <2>1, <2>2
<1>4. ASSUME NEW seen \in Answers(WideEntry(r), NoWide),
             req' = [req EXCEPT ![r].pc = "widePut", ![r].counted = TRUE,
                                ![r].next = WideNext(r, seen)]
      PROVE HonestCache' /\ HonestRequests'
  <2>0. PICK next : next = WideNext(r, seen)
    OBVIOUS
  <2> DEFINE d == [req[r] EXCEPT !.pc = "widePut", !.counted = TRUE, !.next = next]
  <2>1. d.pc = "widePut" /\ d.counted /\ d.used = req[r].used /\ d.at = req[r].at /\ d.next = next
    BY <1>0 DEF IsRequest, FieldNames
  <2>2. req' = [req EXCEPT ![r] = d]
    BY <1>0, <1>4, <2>0 DEF RequestsTyped
  <2> HIDE DEF d
  <2> QED
    BY <1>2, <2>0, <2>1, <2>2
<1> QED
  BY <1>1, <1>3, <1>4 DEF ReadWide

LEMMA ReadBudgetHonest ==
  ASSUME WindowInv, NEW r \in Requests, ReadBudget(r)
  PROVE HonestCache' /\ HonestRequests'
<1>0. /\ TypeInv /\ RequestsTyped /\ IsRequest(req[r]) /\ entry' = entry /\ stray' = stray
  BY DEF WindowInv, SlotInv, TypeInv, RequestsTyped, ReadBudget
<1>1. PICK s \in BudgetScales :
        /\ req[r].pc = s
        /\ \/ \E stages \in SUBSET CappedScales : GoOn(r, req[r], stages, ledger)
           \/ SharedRefuse(r, "budget_exhausted")
           \/ \E seen : req' = [req EXCEPT ![r].pc = PutStage[s], ![r].used = seen]
  BY DEF ReadBudget
<1>2. Inside(req[r].pc)
  BY <1>1 DEF Inside, BudgetScales
<1>3. ASSUME NEW stages \in SUBSET CappedScales, GoOn(r, req[r], stages, ledger)
      PROVE HonestCache' /\ HonestRequests'
  BY <1>0, <1>3, GoOnHonest
<1>4. CASE SharedRefuse(r, "budget_exhausted")
  BY <1>0, <1>2, <1>4, SharedRefuseHonest
<1>5. ASSUME NEW seen, req' = [req EXCEPT ![r].pc = PutStage[s], ![r].used = seen]
      PROVE HonestCache' /\ HonestRequests'
  <2>0. PICK pc : pc = PutStage[s]
    OBVIOUS
  <2> DEFINE d == [req[r] EXCEPT !.pc = pc, !.used = seen]
  <2>1. d.pc = pc /\ d.counted = req[r].counted /\ d.at = req[r].at
    BY <1>0 DEF IsRequest, FieldNames
  <2>2. req' = [req EXCEPT ![r] = d]
    BY <1>0, <1>5, <2>0 DEF RequestsTyped
  <2>3. pc \in {"hourPut", "dayPut"}
    BY <2>0 DEF PutStage, BudgetScales
  <2> HIDE DEF d
  <2>4. OthersStand(r) /\ req'[r] = d
    BY <1>0, <2>2, OneRecord
  <2> QED
    BY <1>0, <2>1, <2>3, <2>4, QuietStep DEF Quiet, OwnCountStays
<1> QED
  BY <1>1, <1>3, <1>4, <1>5

LEMMA LandingHonest ==
  ASSUME HonestCache, CountedStay, NEW w, Honest(w.key, w.body),
         \/ entry' = With(w) /\ stray' \subseteq stray
         \/ entry' = entry /\ stray' \subseteq stray \union {w}
  PROVE HonestCache'
<1>1. ASSUME NEW k \in DOMAIN entry' PROVE Honest(k, entry'[k])
  BY <1>1 DEF HonestCache, With
<1>2. ASSUME NEW x \in stray' PROVE Honest(x.key, x.body)
  BY <1>2 DEF HonestCache
<1>3. ASSUME NEW k \in DOMAIN entry' PROVE Honest(k, entry[k])'
  <2>1. PICK v : v = entry'[k]
    OBVIOUS
  <2>2. Honest(k, v)'
    BY <1>1, <1>3, <2>1, HonestyKept
  <2> QED
    BY <2>1, <2>2 DEF Honest
<1>4. ASSUME NEW x \in stray' PROVE Honest(x.key, x.body)'
  BY <1>2, <1>4, HonestyKept
<1> QED
  BY <1>3, <1>4 DEF HonestCache

LEMMA LateLandingHonest ==
  ASSUME WindowInv, LateLanding
  PROVE HonestCache' /\ HonestRequests'
<1>1. PICK w \in stray : entry' = With(w) /\ stray' = stray \ {w} /\ req' = req
  BY DEF LateLanding
<1>2. CountedStay
  BY <1>1 DEF CountedStay
<1>3. HonestCache'
  BY <1>1, <1>2, LandingHonest DEF WindowInv, HonestCache
<1>4. ASSUME NEW r \in Requests PROVE HonestRequest(r)'
  BY <1>1 DEF WindowInv, HonestRequest, LetThrough, Honest, Let, WideEntry
<1> QED
  BY <1>3, <1>4 DEF HonestRequests

LEMMA WritesAreHonest ==
  ASSUME WindowInv, NEW r \in Requests, req[r].pc \in PutStages
  PROVE Honest(Write(r).key, Write(r).body)
<1>0. HonestRequest(r) /\ IsRequest(req[r])
  BY DEF WindowInv, SlotInv, TypeInv, RequestsTyped
<1>1. CASE req[r].pc = "widePut"
  <2>1. Write(r).key = WideEntry(r) /\ Write(r).body = req[r].next
    BY <1>1 DEF Write
  <2> QED
    BY <1>0, <1>1, <2>1 DEF HonestRequest
<1>2. CASE req[r].pc = "minutePut"
  <2>1. Write(r).key = MinuteEntry(r) /\ Write(r).body = req[r].used + 1
    BY <1>2 DEF Write
  <2>2. req[r].used + 1 \in Nat /\ req[r].used + 1 <= Cardinality(LetThrough(r, "min"))
    BY <1>0, <1>2 DEF HonestRequest, IsRequest
  <2> QED
    BY <2>1, <2>2, HonestEntries
<1>3. CASE req[r].pc \in {"hourPut", "dayPut"}
  <2>1. \E s, b : Write(r).key = UnitEntry(s, b)
    BY <1>3 DEF Write
  <2> QED
    BY <2>1, HonestEntries
<1> QED
  BY <1>1, <1>2, <1>3 DEF PutStages

LEMMA PutOverHonest ==
  ASSUME WindowInv, NEW r \in Requests, PutOver(r)
  PROVE HonestCache' /\ HonestRequests'
<1> DEFINE z == [req[r] EXCEPT !.used = 0]
<1>0. /\ TypeInv /\ RequestsTyped /\ IsRequest(req[r]) /\ req[r].pc \in PutStages /\ HonestCache
      /\ HonestRequest(r) /\ Honest(Write(r).key, Write(r).body)
  BY WritesAreHonest DEF WindowInv, SlotInv, TypeInv, RequestsTyped, PutOver, PutStages
<1>1. SUFFICES HonestRequests' /\ CountedStay
  <2>1. \/ entry' = With(Write(r)) /\ stray' = stray
        \/ entry' = entry /\ stray' = stray
        \/ stray' = stray \union {Write(r)} /\ entry' = entry
    BY DEF PutOver
  <2>2. PICK w : w = Write(r)
    OBVIOUS
  <2> QED
    BY <1>0, <1>1, <2>1, <2>2, LandingHonest
<1>2. IsRequest(z) /\ z.counted = req[r].counted /\ z.at = req[r].at
  BY <1>0, Updates DEF IsRequest, FieldNames
<1>3. ASSUME NEW stages \in SUBSET CappedScales, NEW led, GoOn(r, z, stages, led)
      PROVE HonestRequests' /\ CountedStay
  <2> HIDE DEF z
  <2>1. HonestRequests'
    BY <1>2, <1>3, GoOnHonest
  <2>2. OthersStand(r) /\ OwnCountStays(r)
    BY <1>0, <1>2, <1>3, GoOnKeeps DEF OwnCountStays
  <2> QED
    BY <2>1, <2>2, CountsStay
<1>4. CASE /\ req[r].pc = "widePut"
           /\ req' = [req EXCEPT ![r].pc = "minutePut", ![r].next = NoWide]
  <2> DEFINE d == [req[r] EXCEPT !.pc = "minutePut", !.next = NoWide]
  <2>1. d.pc = "minutePut" /\ d.counted = req[r].counted /\ d.at = req[r].at /\ d.used = req[r].used
    BY <1>0 DEF IsRequest, FieldNames
  <2>2. req' = [req EXCEPT ![r] = d]
    BY <1>0, <1>4 DEF RequestsTyped
  <2> HIDE DEF d
  <2>3. OthersStand(r) /\ req'[r] = d
    BY <1>0, <2>2, OneRecord
  <2>4. OwnCountStays(r)
    BY <2>1, <2>3 DEF OwnCountStays
  <2>5. CountedStay
    BY <2>3, <2>4, CountsStay
  <2>6. HonestRequest(r)'
    <3>0. PICK b : b = Bucket(req[r].at, "min")
      OBVIOUS
    <3>1. Cardinality(Let(ClientIp[r], RouteOf[r], "min", b))
            <= Cardinality(Let(ClientIp[r], RouteOf[r], "min", b)')
      BY <2>5, LetsGrow
    <3>2. /\ LetThrough(r, "min") = Let(ClientIp[r], RouteOf[r], "min", b)
          /\ LetThrough(r, "min")' = Let(ClientIp[r], RouteOf[r], "min", b)'
      BY <2>1, <2>3, <3>0 DEF LetThrough, Let
    <3>3. req[r].used + 1 <= Cardinality(LetThrough(r, "min")) /\ req[r].used \in Nat
      BY <1>0, <1>4 DEF HonestRequest, IsRequest
    <3>4. req[r].used + 1 <= Cardinality(LetThrough(r, "min")')
      BY <3>1, <3>2, <3>3, LetsAreFinite
    <3> QED
      BY <2>1, <2>3, <3>4 DEF HonestRequest
  <2>7. HonestRequests'
    BY <2>3, <2>4, <2>6, HonestStep
  <2> QED
    BY <2>5, <2>7
<1>5. \/ /\ req[r].pc = "widePut"
         /\ req' = [req EXCEPT ![r].pc = "minutePut", ![r].next = NoWide]
      \/ \E stages \in SUBSET CappedScales : \E led : GoOn(r, z, stages, led)
  BY DEF PutOver
<1> HIDE DEF z
<1> QED
  BY <1>3, <1>4, <1>5

LEMMA StepHonest == WindowInv /\ [Next]_admissionVars => WindowInv'
<1> SUFFICES ASSUME WindowInv, [Next]_admissionVars PROVE HonestCache' /\ HonestRequests'
  BY StepSlots DEF WindowInv, HonestRequests
<1>1. ASSUME req' = req, entry' = entry, stray' = stray PROVE HonestCache' /\ HonestRequests'
  <2>1. CountedStay
    BY <1>1 DEF CountedStay
  <2>2. HonestCache'
    BY <1>1, <2>1, HonestyKept DEF WindowInv, HonestCache
  <2>3. ASSUME NEW r \in Requests PROVE HonestRequest(r)'
    BY <1>1 DEF WindowInv, HonestRequest, LetThrough, Honest, Let, WideEntry
  <2> QED
    BY <2>2, <2>3 DEF HonestRequests
<1>2. CASE UNCHANGED admissionVars
  BY <1>1, <1>2 DEF admissionVars
<1>3. CASE Tick
  BY <1>1, <1>3 DEF Tick
<1>4. CASE LateLanding
  BY <1>4, LateLandingHonest
<1>5. ASSUME NEW r \in Requests, AdmissionStep(r) PROVE HonestCache' /\ HonestRequests'
  BY <1>5, AdmitHonest, ExpireHonest, ReadMinuteHonest, ReadWideHonest, ReadBudgetHonest,
     PutOverHonest DEF AdmissionStep
<1>6. ASSUME NEW r \in Requests, RouteStep(r) PROVE HonestCache' /\ HonestRequests'
  BY <1>6, ReliefHonest, ReleaseHonest DEF RouteStep
<1> QED
  BY <1>2, <1>3, <1>4, <1>5, <1>6 DEF Next

(***************************************************************************)
(* No stored value of the shared tier, none on its way and none about to   *)
(* be written says more than what was let through (sharedtier.js, the gets *)
(* and puts of sharedVerdict): the races of the shared windows lose counts *)
(* and never invent them, so no visitor is turned away by the shared tier  *)
(* for requests that were never made.                                      *)
(***************************************************************************)
THEOREM WindowsAreUndercounted == Spec => []WindowsUndercount
<1>1. AdmissionInit => WindowInv
  <2> SUFFICES ASSUME AdmissionInit PROVE HonestCache /\ \A r \in Requests : HonestRequest(r)
    BY InitSlots DEF WindowInv
  <2>1. HonestCache
    BY DEF AdmissionInit, HonestCache
  <2>2. ASSUME NEW r \in Requests PROVE HonestRequest(r)
    BY DEF AdmissionInit, HonestRequest, Idle
  <2> QED
    BY <2>1, <2>2
<1>2. WindowInv => WindowsUndercount
  <2> SUFFICES ASSUME WindowInv, NEW r \in Requests
               PROVE /\ \A n \in Stocked(MinuteEntry(r)) : n <= Cardinality(LetThrough(r, "min"))
                     /\ \A v \in Stocked(WideEntry(r)), s \in BudgetScales :
                           WideUsed(v, s, req[r].at) <= Cardinality(LetThrough(r, s))
    BY DEF WindowsUndercount
  <2>1. ASSUME NEW k, NEW v \in Stocked(k) PROVE Honest(k, v)
    <3>1. CASE k \in DOMAIN entry /\ v = entry[k]
      BY <3>1 DEF WindowInv, HonestCache
    <3>2. ASSUME NEW w \in stray, w.key = k, w.body = v PROVE Honest(k, v)
      BY <3>2 DEF WindowInv, HonestCache
    <3>3. ASSUME NEW q \in Requests, req[q].pc \in PutStages, Write(q).key = k, Write(q).body = v
          PROVE Honest(k, v)
      BY <3>3, WritesAreHonest
    <3> QED
      BY <2>1, <3>1, <3>2, <3>3 DEF Stocked, Writing, PutStages
  <2>2. \A n \in Stocked(MinuteEntry(r)) : n <= Cardinality(LetThrough(r, "min"))
    BY <2>1, HonestEntries
  <2>3. ASSUME NEW v \in Stocked(WideEntry(r)), NEW s \in BudgetScales
        PROVE WideUsed(v, s, req[r].at) <= Cardinality(LetThrough(r, s))
    <3>1. v[s].n \in Nat /\ v[s].n <= Cardinality(Let(ClientIp[r], RouteOf[r], s, v[s].bucket))
      BY <2>1, <2>3, HonestEntries
    <3> QED
      BY <3>1, LetIsLetThrough, LetsAreFinite DEF WideUsed
  <2> QED
    BY <2>2, <2>3
<1> QED
  BY <1>1, <1>2, StepHonest, PTL DEF Spec

-----------------------------------------------------------------------------
(* The probe (health.js). *)

LEMMA CeilingsAreNumbers ==
  /\ CappedScales \subseteq BudgetScales /\ BudgetScales \subseteq Scales
  /\ \A s \in BudgetScales : Ceiling[s] \in Nat
<1>1. IntOf("DEMO_UNIT_BUDGET_HOUR") \in Nat /\ IntOf("DEMO_UNIT_BUDGET_DAY") \in Nat
  <2>1. Default.DEMO_UNIT_BUDGET_HOUR \in Nat /\ Default.DEMO_UNIT_BUDGET_DAY \in Nat
    BY SMT DEF Default
  <2>2. /\ Bounds.DEMO_UNIT_BUDGET_HOUR[1] \in Nat /\ Bounds.DEMO_UNIT_BUDGET_HOUR[2] \in Nat
        /\ Bounds.DEMO_UNIT_BUDGET_DAY[1] \in Nat /\ Bounds.DEMO_UNIT_BUDGET_DAY[2] \in Nat
    BY SMT DEF Bounds
  <2> QED
    BY <2>1, <2>2 DEF IntOf
<1> QED
  BY <1>1 DEF CappedScales, BudgetScales, Scales, Ceiling, BudgetVar

LEMMA ChargesAreNumbers ==
  ASSUME TypeInv, NEW i \in Isolates, NEW key
  PROVE  Charged(key, budget[i]) \in Nat
<1>1. IsABag(budget[i])
  BY DEF TypeInv, CountersTyped
<1> QED
  BY <1>1 DEF IsABag, Charged, BagIn, BagToSet

LEMMA MultiplesDivide ==
  ASSUME NEW n \in Nat \ {0}, NEW k \in Nat PROVE (k * n) \div n = k
<1> DEFINE d == (k * n) \div n
           m == (k * n) % n
<1>1. k * n \in Nat
  OBVIOUS
<1>2. d \in Int /\ m \in 0 .. n - 1 /\ k * n = n * d + m
  BY <1>1
<1> HIDE DEF d, m
<1>3. ASSUME NEW e \in Int, e = k - d PROVE n * e = m
  BY <1>2, <1>3
<1>4. k - d = 0
  <2> DEFINE e == k - d
  <2>1. e \in Int /\ n * e = m
    BY <1>2, <1>3
  <2> HIDE DEF e
  <2>2. CASE e >= 1
    <3>1. n * e >= n
      BY <2>1, <2>2
    <3> QED
      BY <1>2, <2>1, <3>1
  <2>3. CASE e <= -1
    <3>1. n * e <= -n
      BY <2>1, <2>3
    <3> QED
      BY <1>2, <2>1, <3>1
  <2> QED
    BY <2>1, <2>2, <2>3 DEF e
<1> QED
  BY <1>2, <1>4 DEF d

(* The wait that a spent budget names is over when the next window begins. *)
LEMMA WindowsEnd ==
  ASSUME now \in Nat, NEW s \in Scales
  PROVE  /\ UntilNext(s) \in Nat \ {0}
         /\ Bucket(now + UntilNext(s), s) = Bucket(now, s) + 1
<1> DEFINE n == Span[s]
           b == now \div n
<1>1. n \in Nat \ {0}
  BY RequestsAssumption
<1>2. b \in Nat /\ now < n * (b + 1) /\ n * b <= now
  BY <1>1
<1>3. (b + 1) * n \in Nat /\ (b + 1) * n > now
  BY <1>1, <1>2
<1>4. ((b + 1) * n) \div n = b + 1
  BY <1>1, <1>2, MultiplesDivide
<1>5. Bucket(now, s) = b /\ UntilNext(s) = (b + 1) * n - now
  BY DEF Bucket, UntilNext
<1>6. now + UntilNext(s) = (b + 1) * n
  BY <1>3, <1>5
<1> QED
  BY <1>3, <1>4, <1>5, <1>6 DEF Bucket
(* What envelope.js makes of a reply that gives its own reason and mode.    *)
LEMMA EnvelopeKeeps ==
  ASSUME NEW ok, NEW degraded, NEW reason \in Reasons \union {"none"}, NEW retry, NEW mode,
         NEW turnstile, NEW load, NEW f,
         f = [ok |-> ok, degraded |-> degraded, reason |-> reason, retry_after_s |-> retry,
              mode |-> mode, turnstile |-> turnstile]
  PROVE  /\ Envelope(f, load).ok = ok /\ Envelope(f, load).reason = reason
         /\ Envelope(f, load).retry_after_s = retry /\ Envelope(f, load).mode = mode
         /\ Envelope(f, load).load = Standing(load).load
<1>1. DOMAIN f = {"ok", "degraded", "reason", "retry_after_s", "mode", "turnstile"}
  OBVIOUS
<1>2. DOMAIN Standing(load) = {"load", "limits", "voice", "ears"}
  BY DEF Standing
<1>3. InClosedSet(f.reason) = reason
  BY DEF InClosedSet
<1> DEFINE plain == [ok |-> reason \in {"none", "blocked"}, degraded |-> reason # "none"]
           said(k) == CASE k \in DOMAIN f -> f[k]
                        [] k \in DOMAIN plain \ DOMAIN f -> plain[k]
                        [] k \in DOMAIN Standing(load) \ DOMAIN f -> Standing(load)[k]
                        [] OTHER -> Silent[k]
<1>4. Envelope(f, load) = [k \in PublicKeys |-> IF k = "reason" THEN reason ELSE said(k)]
  BY <1>3 DEF Envelope
<1>5. DOMAIN plain = {"ok", "degraded"}
  OBVIOUS
<1> HIDE DEF plain
<1>6. said("ok") = ok /\ said("retry_after_s") = retry /\ said("mode") = mode
  BY <1>1
<1>7. said("load") = Standing(load).load
  BY <1>1, <1>2, <1>5
<1> HIDE DEF said
<1> QED
  BY <1>4, <1>6, <1>7 DEF PublicKeys

LEMMA ProbeFields ==
  ASSUME TypeInv, NEW i \in Isolates
  PROVE  LET spent == SpentScales(i)
             says == ModeOf(spent # {})
             body == Probe(i).body
         IN /\ Probe(i).status = 200 /\ body.ok = TRUE
            /\ body.reason = says.reason /\ body.mode = says.mode
            /\ body.load.level = LoadLevel(inflight[i]["chat"], Cap["chat"])
            /\ says.reason = "budget_exhausted" => /\ spent # {}
                                                   /\ Probe(i).retryAfter = BudgetState(i).retryAfter
            /\ says.mode = "live" => spent = {}
<1> DEFINE spent == SpentScales(i)
           says == ModeOf(spent # {})
           wait == IF says.reason = "budget_exhausted" THEN BudgetState(i).retryAfter ELSE 0
           load == LoadOf(i, "chat")
           f == [ok |-> TRUE, degraded |-> says.mode # "live", reason |-> says.reason,
                 retry_after_s |-> wait, mode |-> says.mode, turnstile |-> PublicTurnstile]
           e == Envelope(f, load)
<1>1. /\ says.reason \in {"gateway_not_configured", "budget_exhausted", "none"}
      /\ says.reason = "budget_exhausted" => spent # {}
      /\ says.mode = "live" => spent = {}
  BY DEF ModeOf
<1>2. {"gateway_not_configured", "budget_exhausted"} \subseteq Reasons
  BY DEF Reasons, StatusFor
<1>3. /\ e.ok = TRUE /\ e.reason = says.reason /\ e.retry_after_s = wait /\ e.mode = says.mode
      /\ e.load = Standing(load).load
  <2>1. says.reason \in Reasons \union {"none"}
    BY <1>1, <1>2
  <2> HIDE DEF says, wait, load
  <2> QED
    BY <2>1, EnvelopeKeeps
<1>4. /\ Probe(i).status = 200 /\ Probe(i).body = e
      /\ Probe(i).retryAfter = IF e.reason = "none" THEN 0
                               ELSE IF e.retry_after_s > 0 THEN e.retry_after_s
                               ELSE RetryAfterFor(e.reason)
  <2>1. BudgetState(i).exhausted = (spent # {})
    BY DEF BudgetState
  <2>2. Probe(i) = [Respond(f, load) EXCEPT !.status = 200]
    BY <2>1 DEF Probe
  <2> HIDE DEF f, load
  <2> QED
    BY <2>2 DEF Respond
<1>5. e.load.level = LoadLevel(inflight[i]["chat"], Cap["chat"])
  BY <1>3 DEF Standing, LoadOf
<1> HIDE DEF e
<1>6. says.reason = "budget_exhausted" => Probe(i).retryAfter = BudgetState(i).retryAfter
  <2> SUFFICES ASSUME says.reason = "budget_exhausted"
               PROVE  Probe(i).retryAfter = BudgetState(i).retryAfter
    OBVIOUS
  <2>1. BudgetState(i).retryAfter \in Nat \ {0}
    <3>1. spent # {} /\ spent \subseteq {"hour", "day"}
      BY <1>1 DEF SpentScales, CappedScales, BudgetScales
    <3>2. now \in Nat
      BY RequestsAssumption DEF TypeInv
    <3>3. UntilNext("hour") \in Nat \ {0} /\ UntilNext("day") \in Nat \ {0}
      BY <3>2, WindowsEnd DEF Scales
    <3>4. "hour" \in spent \/ spent = {"day"}
      BY <3>1
    <3> QED
      BY <3>3, <3>4 DEF BudgetState
  <2>2. wait = BudgetState(i).retryAfter
    OBVIOUS
  <2> HIDE DEF says, wait
  <2> QED
    BY <1>3, <1>4, <2>1, <2>2
<1> QED
  BY <1>1, <1>3, <1>4, <1>5, <1>6

LEMMA ProbesAreHonest ==
  ASSUME SlotInv PROVE ProbeIsHonest
<1> SUFFICES ASSUME NEW i \in Isolates
             PROVE  /\ Probe(i).status = 200 /\ Probe(i).body.ok
                    /\ Probe(i).body.reason = "budget_exhausted" =>
                         /\ \A rt \in Routes : OverBudget(i, rt, now)
                         /\ \E s \in SpentScales(i) :
                              Bucket(now + Probe(i).retryAfter, s) = Bucket(now, s) + 1
                    /\ Probe(i).body.mode = "live" =>
                         \A s \in CappedScales : Charged(BudgetKey(s, now), budget[i]) < Ceiling[s]
                    /\ Probe(i).body.load.level = "full" <=> ~FreeLane(i, "chat")
  BY DEF ProbeIsHonest
<1> DEFINE spent == SpentScales(i)
           says == ModeOf(spent # {})
<1>1. TypeInv /\ LaneCounted(i, "chat") /\ now \in Nat
  BY ProbeAssumption, RequestsAssumption DEF SlotInv, TypeInv
<1>2. /\ Probe(i).status = 200 /\ Probe(i).body.ok
      /\ Probe(i).body.reason = says.reason /\ Probe(i).body.mode = says.mode
      /\ Probe(i).body.load.level = LoadLevel(inflight[i]["chat"], Cap["chat"])
      /\ says.reason = "budget_exhausted" => /\ spent # {}
                                             /\ Probe(i).retryAfter = BudgetState(i).retryAfter
      /\ says.mode = "live" => spent = {}
  BY <1>1, ProbeFields
<1> HIDE DEF says
<1>3. \A s \in CappedScales : /\ Charged(BudgetKey(s, now), budget[i]) \in Nat
                              /\ Ceiling[s] \in Nat /\ s \in {"hour", "day"} /\ s \in Scales
  BY <1>1, ChargesAreNumbers, CeilingsAreNumbers DEF BudgetScales
<1>4. ASSUME says.reason = "budget_exhausted"
      PROVE  /\ \A rt \in Routes : OverBudget(i, rt, now)
             /\ \E s \in spent : Bucket(now + Probe(i).retryAfter, s) = Bucket(now, s) + 1
  <2>1. spent # {} /\ spent \subseteq CappedScales /\ Probe(i).retryAfter = BudgetState(i).retryAfter
    BY <1>2, <1>4 DEF SpentScales
  <2>2. \A rt \in Routes : OverBudget(i, rt, now)
    <3> TAKE rt \in Routes
    <3>1. PICK s \in spent : TRUE
      BY <2>1
    <3>2. Units(rt) \in Nat \ {0}
      BY DEF Units
    <3> QED
      BY <1>3, <2>1, <3>1, <3>2 DEF OverBudget, SpentScales
  <2>3. CASE "hour" \in spent
    <3>1. BudgetState(i).retryAfter = UntilNext("hour") /\ "hour" \in Scales
      BY <2>3 DEF BudgetState, Scales
    <3> QED
      BY <1>1, <2>1, <2>2, <2>3, <3>1, WindowsEnd
  <2>4. CASE "hour" \notin spent
    <3>1. spent = {"day"}
      BY <1>3, <2>1, <2>4
    <3>2. BudgetState(i).retryAfter = UntilNext("day") /\ "day" \in Scales
      BY <3>1 DEF BudgetState, Scales
    <3> QED
      BY <1>1, <2>1, <2>2, <3>1, <3>2, WindowsEnd
  <2> QED
    BY <2>3, <2>4
<1>5. ASSUME says.mode = "live"
      PROVE  \A s \in CappedScales : Charged(BudgetKey(s, now), budget[i]) < Ceiling[s]
  BY <1>2, <1>3, <1>5 DEF SpentScales
<1>6. LoadLevel(inflight[i]["chat"], Cap["chat"]) = "full" <=> ~FreeLane(i, "chat")
  <2>1. inflight[i]["chat"] \in Nat /\ Cap["chat"] \in Nat
    BY <1>1, ProbeAssumption, CapsAreNumbers DEF TypeInv
  <2>2. LoadLevel(inflight[i]["chat"], Cap["chat"]) = "full" <=> inflight[i]["chat"] >= Cap["chat"]
    BY <2>1 DEF LoadLevel
  <2> QED
    BY <1>1, <2>1, <2>2 DEF FreeLane, LaneCounted
<1> QED
  BY <1>2, <1>4, <1>5, <1>6

(***************************************************************************)
(* The probe never says that more is spent than is (health.js): while it   *)
(* says budget_exhausted every request of the isolate is refused, and the  *)
(* wait it names ends the window that is spent; while it says live there   *)
(* is something left of each budget; and it tells a full load exactly when *)
(* a newcomer finds no slot, whatever the configuration.                   *)
(***************************************************************************)
THEOREM ProbesTellTheTruth == Spec => []ProbeIsHonest
<1>1. SlotInv /\ [Next]_admissionVars => SlotInv'
  BY StepSlots
<1> QED
  BY <1>1, InitSlots, ProbesAreHonest, PTL DEF Spec
=============================================================================
