--------------------------- MODULE PageMode_proofs ---------------------------
(***************************************************************************)
(* Proofs about PageMode: a page that may still change its mind always has *)
(* something under way that will make it, and an outage that a turn        *)
(* reported ends by a clean turn only.                                     *)
(***************************************************************************)
EXTENDS PageMode, TLAPS

States == {"boot", "offline", "degraded", "live"}
Reasons == Known \union {Nothing}

PageRec ==
  [state : States, reason : Reasons, sticky : BOOLEAN, left : 0 .. LongWait,
   strikes : 0 .. StrikesToDegrade, pollStrikes : 0 .. StrikesToDegrade,
   turnOut : BOOLEAN, trial : BOOLEAN, timer : BOOLEAN, skipped : BOOLEAN, ears : BOOLEAN]

(* What the flags of mode.js say together, and the two ways to give up. *)
Sound(p) ==
  /\ p \in PageRec
  /\ p.turnOut \/ p.trial => p.state \notin {"boot", "live"}
  /\ p.state = "offline" => p.sticky
  /\ p.state = "degraded" /\ p.reason = "gateway_not_configured" => p.sticky

(* What may be on its way from the deployment. *)
ProbeMail == {Nothing, "asked", "live", "gone", "silent", "gateway_not_configured", "budget_exhausted"}
TurnAnswer == ServerReasons \union {"clean", "silent"}
TurnRec == [at : {"idle", "asked", "answered"}, kind : {Nothing, "chat", "ears"},
            answer : TurnAnswer \union {Nothing}, wait : 0 .. LongWait]
TurnSound(q) ==
  /\ q \in TurnRec
  /\ q.at = "answered" <=> q.answer # Nothing

MailInv ==
  /\ probes \in [Probes -> ProbeMail] /\ turns \in [Turns -> TurnRec]
  /\ \A t \in Turns : TurnSound(turns[t])
  /\ mood \in Moods /\ hidden \in BOOLEAN

WaitInv == page.sticky \/ page.timer \/ (page.skipped /\ hidden)
             \/ \E p \in Probes : probes[p] # Nothing

PageInv == Sound(page) /\ MailInv /\ WaitInv

-----------------------------------------------------------------------------
(* The parts of mode.js.  r is what an operation makes of the page p. *)
Keeps(p, r) ==
  /\ Sound(r)
  /\ r.skipped = p.skipped
  /\ p.sticky => r.sticky
  /\ r.sticky \/ r.timer \/ r.timer = p.timer

LEMMA SetStateSound ==
  ASSUME NEW p, Sound(p), NEW next \in {"offline", "degraded", "live"}, NEW why \in Reasons
  PROVE  /\ Sound(SetState(p, next, why))
         /\ SetState(p, next, why).state = next
         /\ SetState(p, next, why).skipped = p.skipped
         /\ SetState(p, next, why).timer = p.timer
         /\ p.sticky \/ next = "offline" \/ (next = "degraded" /\ why = "gateway_not_configured")
              => SetState(p, next, why).sticky
<1> DEFINE q == IF next = "live" THEN [p EXCEPT !.turnOut = FALSE, !.trial = FALSE] ELSE p
<1>1. /\ q \in PageRec /\ q.state = p.state /\ q.reason = p.reason /\ q.sticky = p.sticky
      /\ q.skipped = p.skipped /\ q.timer = p.timer
      /\ IF next = "live" THEN ~q.turnOut /\ ~q.trial
         ELSE q.turnOut = p.turnOut /\ q.trial = p.trial
  BY DEF Sound, PageRec
<1> DEFINE s == [q EXCEPT !.state = next, !.reason = why,
                          !.sticky = q.sticky \/ next = "offline"
                                       \/ (next = "degraded" /\ why = "gateway_not_configured")]
<1>2. SetState(p, next, why) = IF next = q.state /\ why = q.reason THEN q ELSE s
  BY DEF SetState
<1> HIDE DEF q
<1>3. /\ s \in PageRec /\ s.state = next /\ s.reason = why
      /\ s.sticky = (q.sticky \/ next = "offline" \/ (next = "degraded" /\ why = "gateway_not_configured"))
      /\ s.skipped = q.skipped /\ s.timer = q.timer /\ s.turnOut = q.turnOut /\ s.trial = q.trial
  BY <1>1 DEF PageRec, States
<1> HIDE DEF s
<1> QED
  BY <1>1, <1>2, <1>3 DEF Sound

LEMMA ScheduleSound ==
  ASSUME NEW p, Sound(p)
  PROVE  /\ Sound(Schedule(p)) /\ Schedule(p).state = p.state
         /\ Schedule(p).skipped = p.skipped /\ Schedule(p).sticky = p.sticky
         /\ Schedule(p).sticky \/ Schedule(p).timer
BY DEF Schedule, Sound, PageRec

LEMMA AbsentKeeps ==
  ASSUME NEW p, Sound(p)
  PROVE  Keeps(p, Absent(p)) /\ Absent(p).state = "offline"
<1> DEFINE q == [p EXCEPT !.timer = FALSE]
<1>1. Sound(q) /\ q.skipped = p.skipped /\ q.sticky = p.sticky
  BY DEF Sound, PageRec
<1>2. Absent(p) = SetState(q, "offline", Nothing) /\ Nothing \in Reasons
  BY DEF Absent, Reasons
<1> HIDE DEF q
<1> QED
  BY <1>1, <1>2, SetStateSound DEF Keeps

(* One more strike, and the page that gives in at the last one. *)
LEMMA StruckBound ==
  ASSUME NEW n \in 0 .. StrikesToDegrade
  PROVE  Struck(n) \in 0 .. StrikesToDegrade
BY MoodsAssumption DEF Struck

LEMMA StrickenKeeps ==
  ASSUME NEW p, NEW q, Sound(p), Sound(q), q.skipped = p.skipped, q.sticky = p.sticky,
         q.state = p.state, NEW out \in BOOLEAN,
         NEW r, r = Schedule(IF out THEN SetState(q, "degraded", "upstream_down") ELSE q)
  PROVE  /\ Keeps(p, r) /\ (r.sticky \/ r.timer)
         /\ r.state = "live" => p.state = "live"
<1> DEFINE s == IF out THEN SetState(q, "degraded", "upstream_down") ELSE q
<1>1. "upstream_down" \in Reasons
  BY DEF Reasons, Known
<1>2. /\ Sound(s) /\ s.skipped = p.skipped /\ (p.sticky => s.sticky)
      /\ s.state = "live" => p.state = "live"
  BY <1>1, SetStateSound
<1>3. r = Schedule(s)
  OBVIOUS
<1> HIDE DEF s
<1> QED
  BY <1>2, <1>3, ScheduleSound DEF Keeps

LEMMA UnusableKeeps ==
  ASSUME NEW p, Sound(p)
  PROVE  /\ Keeps(p, Unusable(p)) /\ (Unusable(p).sticky \/ Unusable(p).timer)
         /\ Unusable(p).state = "live" => p.state = "live"
<1>1. CASE p.state = "boot"
  BY <1>1, AbsentKeeps DEF Unusable, Keeps, Sound
<1>2. CASE p.state \notin {"boot", "live"}
  BY <1>2, ScheduleSound DEF Unusable, Keeps
<1>3. CASE p.state = "live"
  <2> DEFINE q == [p EXCEPT !.pollStrikes = Struck(p.pollStrikes)]
  <2>1. p.pollStrikes \in 0 .. StrikesToDegrade
    BY DEF Sound, PageRec
  <2>2. Sound(q) /\ q.skipped = p.skipped /\ q.sticky = p.sticky /\ q.state = p.state
    BY <2>1, StruckBound DEF Sound, PageRec
  <2>3. Unusable(p) = Schedule(IF q.pollStrikes >= StrikesToDegrade
                               THEN SetState(q, "degraded", "upstream_down") ELSE q)
    BY <1>3 DEF Unusable
  <2> HIDE DEF q
  <2>4. (q.pollStrikes >= StrikesToDegrade) \in BOOLEAN
    OBVIOUS
  <2> QED
    BY <2>2, <2>3, <2>4, StrickenKeeps
<1> QED
  BY <1>1, <1>2, <1>3

LEMMA TurnFailedKeeps ==
  ASSUME NEW p, Sound(p)
  PROVE  Keeps(p, TurnFailed(p)) /\ (TurnFailed(p).state = "live" => p.state = "live")
<1>1. CASE p.state = "boot"
  BY <1>1, AbsentKeeps DEF TurnFailed
<1>2. CASE p.state \notin {"boot", "live"}
  <2> DEFINE q == [p EXCEPT !.trial = FALSE]
  <2>1. Sound(q) /\ q.skipped = p.skipped /\ q.sticky = p.sticky /\ q.state = p.state
    BY DEF Sound, PageRec
  <2>2. TurnFailed(p) = Schedule(q)
    BY <1>2 DEF TurnFailed
  <2> HIDE DEF q
  <2> QED
    BY <1>2, <2>1, <2>2, ScheduleSound DEF Keeps
<1>3. CASE p.state = "live"
  <2> DEFINE q == [p EXCEPT !.strikes = Struck(p.strikes)]
  <2>1. p.strikes \in 0 .. StrikesToDegrade
    BY DEF Sound, PageRec
  <2>2. Sound(q) /\ q.skipped = p.skipped /\ q.sticky = p.sticky /\ q.state = p.state
    BY <2>1, StruckBound DEF Sound, PageRec
  <2>3. TurnFailed(p) = Schedule(IF q.strikes >= StrikesToDegrade
                                 THEN SetState(q, "degraded", "upstream_down") ELSE q)
    BY <1>3 DEF TurnFailed
  <2> HIDE DEF q
  <2>4. (q.strikes >= StrikesToDegrade) \in BOOLEAN
    OBVIOUS
  <2> QED
    BY <2>2, <2>3, <2>4, StrickenKeeps
<1> QED
  BY <1>1, <1>2, <1>3

(* A probe's answer, read: live only when it says so, and never over an    *)
(* outage a turn reported.                                                 *)
LEMMA ApplyEnvelopeSound ==
  ASSUME NEW p, Sound(p), NEW answer \in {"live", "gateway_not_configured", "budget_exhausted"}
  PROVE  LET r == ApplyEnvelope(p, answer) IN
         /\ Sound(r) /\ r.skipped = p.skipped /\ (p.sticky => r.sticky)
         /\ p.state = "degraded" /\ p.turnOut => r.state # "live"
<1> DEFINE q == [p EXCEPT !.trial = FALSE]
           u == [p EXCEPT !.trial = TRUE]
<1>1. Sound(q) /\ q.skipped = p.skipped /\ q.sticky = p.sticky
  BY DEF Sound, PageRec
<1>2. answer # "live" => answer \in Reasons
  BY DEF Reasons, Known
<1>3. CASE answer # "live"
  <2>1. ApplyEnvelope(p, answer) = SetState(q, "degraded", answer)
    BY <1>3 DEF ApplyEnvelope
  <2> HIDE DEF q
  <2> QED
    BY <1>1, <1>2, <1>3, <2>1, SetStateSound
<1>4. CASE answer = "live" /\ p.state = "degraded" /\ p.turnOut
  <2>1. Sound(u) /\ u.skipped = p.skipped /\ u.sticky = p.sticky /\ u.state = "degraded"
    BY <1>4 DEF Sound, PageRec
  <2>2. ApplyEnvelope(p, answer) = u
    BY <1>4 DEF ApplyEnvelope
  <2> QED
    BY <2>1, <2>2
<1>5. CASE answer = "live" /\ ~(p.state = "degraded" /\ p.turnOut)
  <2>1. ApplyEnvelope(p, answer) \in {p, SetState(p, "live", Nothing)}
    BY <1>5 DEF ApplyEnvelope
  <2>2. Nothing \in Reasons
    BY DEF Reasons
  <2> QED
    BY <1>5, <2>1, <2>2, SetStateSound
<1> QED
  BY <1>3, <1>4, <1>5

(* The answer to a turn, note() by note(). *)
LEMMA CleanKeeps ==
  ASSUME NEW p, Sound(p) PROVE Keeps(p, Clean(p))
<1> DEFINE q == IF p.state = "live" /\ p.reason = "turnstile_failed"
                THEN [p EXCEPT !.strikes = 0, !.reason = Nothing]
                ELSE [p EXCEPT !.strikes = 0]
<1>0. 0 \in 0 .. StrikesToDegrade /\ Nothing \in Reasons
  BY MoodsAssumption DEF Reasons
<1>a. /\ q \in PageRec /\ q.state = p.state /\ q.sticky = p.sticky /\ q.skipped = p.skipped
      /\ q.timer = p.timer /\ q.turnOut = p.turnOut /\ q.trial = p.trial
      /\ q.reason = p.reason \/ q.state = "live"
  BY <1>0 DEF Sound, PageRec
<1>1. Sound(q) /\ q.skipped = p.skipped /\ q.sticky = p.sticky /\ q.timer = p.timer
  <2> HIDE DEF q
  <2> QED BY <1>a DEF Sound
<1>2. Clean(p) \in {q, Schedule(SetState(q, "live", Nothing))}
  BY DEF Clean
<1> HIDE DEF q
<1>3. Nothing \in Reasons
  BY DEF Reasons
<1>4. Keeps(p, q)
  BY <1>1 DEF Keeps
<1> DEFINE s == SetState(q, "live", Nothing)
<1>5. Sound(s) /\ s.skipped = p.skipped /\ (p.sticky => s.sticky)
  BY <1>1, <1>3, SetStateSound
<1> HIDE DEF s
<1>6. Keeps(p, Schedule(s))
  BY <1>5, ScheduleSound DEF Keeps
<1> QED
  BY <1>2, <1>4, <1>6 DEF s

LEMMA NoteRateLimitedKeeps ==
  ASSUME NEW p, Sound(p), NEW wait \in 0 .. LongWait
  PROVE  /\ Keeps(p, NoteRateLimited(p, wait))
         /\ NoteRateLimited(p, wait).state = "live" => p.state = "live"
<1> DEFINE q == [p EXCEPT !.strikes = 0, !.left = wait]
           u == [q EXCEPT !.trial = TRUE]
           v == [q EXCEPT !.reason = "rate_limited"]
<1>0. "rate_limited" \in Reasons /\ 0 \in 0 .. StrikesToDegrade
  BY MoodsAssumption DEF Reasons, Known
<1>a. /\ q \in PageRec /\ q.state = p.state /\ q.sticky = p.sticky /\ q.skipped = p.skipped
      /\ q.timer = p.timer /\ q.turnOut = p.turnOut /\ q.trial = p.trial /\ q.reason = p.reason
  BY <1>0 DEF Sound, PageRec
<1>1. /\ Sound(q) /\ q.skipped = p.skipped /\ q.sticky = p.sticky /\ q.timer = p.timer
      /\ q.state = p.state
  <2> HIDE DEF q
  <2> QED BY <1>a DEF Sound
<1>2. NoteRateLimited(p, wait) =
        IF q.state # "live" THEN q
        ELSE IF wait = LongWait THEN SetState(u, "degraded", "rate_limited") ELSE v
  BY DEF NoteRateLimited
<1> HIDE DEF q
<1>3. CASE q.state # "live"
  BY <1>1, <1>2, <1>3 DEF Keeps
<1>4. CASE q.state = "live" /\ wait # LongWait
  <2>1. Sound(v) /\ v.skipped = q.skipped /\ v.sticky = q.sticky /\ v.timer = q.timer
    BY <1>0, <1>1, <1>4 DEF Sound, PageRec
  <2> HIDE DEF v
  <2> QED
    BY <1>1, <1>2, <1>4, <2>1 DEF Keeps
<1>5. CASE q.state = "live" /\ wait = LongWait
  (* u itself is not sound: it is live, with a trial; the page is not yet. *)
  <2> DEFINE w == [u EXCEPT !.state = "degraded", !.reason = "rate_limited"]
  <2>1. /\ u \in PageRec /\ u.state = "live" /\ u.sticky = q.sticky /\ u.skipped = q.skipped
        /\ u.timer = q.timer
    BY <1>1, <1>5 DEF Sound, PageRec
  <2> HIDE DEF u
  <2>2. SetState(u, "degraded", "rate_limited") = [w EXCEPT !.sticky = u.sticky]
    BY <2>1 DEF SetState, PageRec
  <2>3. w \in PageRec /\ w.state = "degraded" /\ w.reason = "rate_limited" /\ w.sticky = u.sticky
        /\ w.skipped = u.skipped /\ w.timer = u.timer
    BY <1>0, <2>1 DEF PageRec, States
  <2> HIDE DEF w
  <2>4. [w EXCEPT !.sticky = u.sticky] = w
    BY <2>3 DEF PageRec
  <2>5. Sound(w)
    BY <2>3 DEF Sound
  <2> QED
    BY <1>1, <1>2, <1>5, <2>1, <2>2, <2>3, <2>4, <2>5 DEF Keeps
<1> QED
  BY <1>3, <1>4, <1>5

LEMMA NoteAtCapacityKeeps ==
  ASSUME NEW p, Sound(p)
  PROVE  /\ Keeps(p, NoteAtCapacity(p))
         /\ NoteAtCapacity(p).state = "live" => p.state = "live"
<1> DEFINE q == [p EXCEPT !.strikes = 0, !.left = ShortWait]
           s == IF q.state = "live" THEN [q EXCEPT !.reason = "at_capacity"]
                ELSE SetState(q, "degraded", "at_capacity")
<1>0. /\ "at_capacity" \in Reasons /\ 0 \in 0 .. StrikesToDegrade
      /\ ShortWait \in 0 .. LongWait
  BY MoodsAssumption DEF Reasons, Known, ShortWait, LongWait
<1>a. /\ q \in PageRec /\ q.state = p.state /\ q.sticky = p.sticky /\ q.skipped = p.skipped
      /\ q.turnOut = p.turnOut /\ q.trial = p.trial /\ q.reason = p.reason
  BY <1>0 DEF Sound, PageRec
<1>1. Sound(q) /\ q.skipped = p.skipped /\ q.sticky = p.sticky /\ q.state = p.state
  <2> HIDE DEF q
  <2> QED BY <1>a DEF Sound
<1>2. NoteAtCapacity(p) = Schedule(s)
  BY DEF NoteAtCapacity
<1> HIDE DEF q
<1>3. /\ Sound(s) /\ s.skipped = p.skipped /\ (p.sticky => s.sticky)
      /\ s.state = "live" => p.state = "live"
  <2>1. CASE q.state = "live"
    BY <1>0, <1>1, <2>1 DEF Sound, PageRec
  <2>2. CASE q.state # "live"
    BY <1>0, <1>1, <2>2, SetStateSound
  <2> QED
    BY <2>1, <2>2
<1> HIDE DEF s
<1> QED
  BY <1>2, <1>3, ScheduleSound DEF Keeps

(* What note() makes of an answer, by the reason h it reads in it. *)
Heard(answer) == IF answer \in Known THEN answer ELSE Nothing

IsNote(n, p, h, wait) ==
  /\ h = "forbidden_origin" => n = Absent(p)
  /\ h = "gateway_not_configured" => n = [SetState(p, "degraded", h) EXCEPT !.timer = FALSE]
  /\ h \in Outages =>
       n = Schedule(SetState([p EXCEPT !.turnOut = TRUE, !.trial = FALSE], "degraded", h))
  /\ h = "rate_limited" => n = NoteRateLimited(p, wait)
  /\ h = "at_capacity" => n = NoteAtCapacity(p)
  /\ h \in ThisTurnOnly => n = p
  /\ h = "turnstile_failed" =>
       n = IF p.state = "live" THEN [p EXCEPT !.strikes = 0, !.reason = h]
           ELSE [p EXCEPT !.strikes = 0]
  /\ h = Nothing => n = Clean(p)

LEMMA NoteIs ==
  ASSUME NEW p, NEW answer, NEW wait
  PROVE  IsNote(Note(p, answer, wait), p, Heard(answer), wait)
<1>r. PICK r : r = Heard(answer)
  OBVIOUS
<1> SUFFICES IsNote(Note(p, answer, wait), p, r, wait)
  BY <1>r
<1>1. /\ r \in {"forbidden_origin", "gateway_not_configured", "rate_limited", "at_capacity",
               "turnstile_failed", Nothing} => r \notin Outages /\ r \notin ThisTurnOnly
      /\ r \in Outages => r \notin ThisTurnOnly
  BY DEF Outages, ThisTurnOnly, Nothing
<1>2. CASE r = "forbidden_origin"
  BY <1>1, <1>2, <1>r DEF IsNote, Note, Heard, Nothing
<1>3. CASE r = "gateway_not_configured"
  BY <1>1, <1>3, <1>r DEF IsNote, Note, Heard, Nothing
<1>4. CASE r \in Outages
  <2>1. r # "forbidden_origin" /\ r # "gateway_not_configured" /\ r # "rate_limited"
        /\ r # "at_capacity" /\ r # "turnstile_failed" /\ r # Nothing
    BY <1>1, <1>4, <1>r
  <2> QED
    BY <1>1, <1>4, <1>r, <2>1 DEF IsNote, Note, Heard
<1>5. CASE r = "rate_limited"
  BY <1>1, <1>5, <1>r DEF IsNote, Note, Heard, Nothing
<1>6. CASE r = "at_capacity"
  BY <1>1, <1>6, <1>r DEF IsNote, Note, Heard, Nothing
<1>7. CASE r \in ThisTurnOnly
  <2>1. r # "forbidden_origin" /\ r # "gateway_not_configured" /\ r # "rate_limited"
        /\ r # "at_capacity" /\ r # "turnstile_failed" /\ r # Nothing /\ r \notin Outages
    BY <1>1, <1>7, <1>r
  <2> QED
    BY <1>7, <1>r, <2>1 DEF IsNote, Note, Heard
<1>8. CASE r = "turnstile_failed"
  BY <1>1, <1>8, <1>r DEF IsNote, Note, Heard, Nothing
<1>9. CASE r = Nothing
  BY <1>1, <1>9, <1>r DEF IsNote, Note, Heard, Nothing
<1>10. CASE /\ r \notin {"forbidden_origin", "gateway_not_configured", "rate_limited",
                        "at_capacity", "turnstile_failed", Nothing}
            /\ r \notin Outages /\ r \notin ThisTurnOnly
  BY <1>10 DEF IsNote
<1> QED
  BY <1>2, <1>3, <1>4, <1>5, <1>6, <1>7, <1>8, <1>9, <1>10

(* No refused turn makes a page live. *)
LEMMA NoteKeeps ==
  ASSUME NEW p, Sound(p), NEW answer \in TurnAnswer, NEW wait \in 0 .. LongWait
  PROVE  /\ Keeps(p, Note(p, answer, wait))
         /\ Note(p, answer, wait).state = "live" /\ p.state # "live"
              => answer \notin ServerReasons
<1>r. PICK r : r = Heard(answer)
  OBVIOUS
<1>n. PICK n : n = Note(p, answer, wait)
  OBVIOUS
<1>m. IsNote(n, p, r, wait)
  BY <1>r, <1>n, NoteIs
<1> SUFFICES /\ Keeps(p, n)
             /\ n.state = "live" /\ p.state # "live" => answer \notin ServerReasons
  BY <1>n
<1>0. /\ answer \in ServerReasons => r = answer /\ answer \in Reasons
      /\ r \in Reasons
  <2>1. ServerReasons = Known
    BY DEF ServerReasons, Known
  <2> QED
    BY <1>r, <2>1 DEF Heard, Reasons
<1>1. CASE r = "forbidden_origin"
  BY <1>1, <1>m, AbsentKeeps DEF IsNote
<1>2. CASE r = "gateway_not_configured"
  <2> DEFINE s == SetState(p, "degraded", r)
  <2>1. n = [s EXCEPT !.timer = FALSE]
    BY <1>2, <1>m DEF IsNote
  <2>2. Sound(s) /\ s.state = "degraded" /\ s.skipped = p.skipped /\ s.sticky
    BY <1>0, <1>2, SetStateSound
  <2> HIDE DEF s
  <2>3. Sound(n) /\ n.state = "degraded" /\ n.skipped = p.skipped /\ n.sticky
    BY <2>1, <2>2 DEF Sound, PageRec
  <2> QED
    BY <2>3 DEF Keeps
<1>3. CASE r \in Outages
  <2> DEFINE q == [p EXCEPT !.turnOut = TRUE, !.trial = FALSE]
  <2>1. n = Schedule(SetState(q, "degraded", r))
    BY <1>3, <1>m DEF IsNote
  (* q is not sound when the page is live: an outage is about to be said. *)
  <2> DEFINE w == [q EXCEPT !.state = "degraded", !.reason = r]
  <2>2. /\ q \in PageRec /\ q.state = p.state /\ q.reason = p.reason /\ q.sticky = p.sticky
        /\ q.skipped = p.skipped
    BY DEF Sound, PageRec
  <2> HIDE DEF q
  <2>3. r # "gateway_not_configured"
    BY <1>3 DEF Outages
  <2>4. w \in PageRec /\ w.state = "degraded" /\ w.reason = r /\ w.sticky = q.sticky
        /\ w.skipped = q.skipped
    BY <1>0, <2>2 DEF PageRec, States
  <2>5. SetState(q, "degraded", r) \in {q, [w EXCEPT !.sticky = q.sticky]}
        /\ (SetState(q, "degraded", r) = q => q.state = "degraded" /\ q.reason = r)
    <3>1. SetState(q, "degraded", r) = IF q.state = "degraded" /\ q.reason = r THEN q
             ELSE [w EXCEPT !.sticky = q.sticky]
      BY <2>2, <2>3 DEF SetState, PageRec
    <3>2. [w EXCEPT !.sticky = q.sticky] = w
      BY <2>4 DEF PageRec
    <3> QED
      BY <2>4, <3>1, <3>2
  <2> HIDE DEF w
  <2>6. [w EXCEPT !.sticky = q.sticky] = w
    BY <2>4 DEF PageRec
  <2>7. Sound(w)
    BY <2>3, <2>4 DEF Sound
  <2>8. ASSUME q.state = "degraded", q.reason = r PROVE Sound(q)
    BY <2>2, <2>3, <2>8 DEF Sound
  <2> DEFINE s == SetState(q, "degraded", r)
  <2>9. Sound(s) /\ s.state = "degraded" /\ s.skipped = p.skipped /\ s.sticky = p.sticky
    BY <2>2, <2>4, <2>5, <2>6, <2>7, <2>8
  <2> HIDE DEF s
  <2>10. Keeps(p, n) /\ n.state = "degraded"
    BY <2>1, <2>9, ScheduleSound DEF Keeps, s
  <2> QED
    BY <2>10
<1>4. CASE r = "rate_limited"
  <2>1. n = NoteRateLimited(p, wait)
    BY <1>4, <1>m DEF IsNote
  <2> QED
    BY <2>1, NoteRateLimitedKeeps
<1>5. CASE r = "at_capacity"
  <2>1. n = NoteAtCapacity(p)
    BY <1>5, <1>m DEF IsNote
  <2> QED
    BY <2>1, NoteAtCapacityKeeps
<1>6. CASE r \in ThisTurnOnly
  <2>1. n = p
    BY <1>6, <1>m DEF IsNote
  <2> QED
    BY <2>1 DEF Keeps
<1>7. CASE r = "turnstile_failed"
  <2> DEFINE a == [p EXCEPT !.strikes = 0, !.reason = r]
             b == [p EXCEPT !.strikes = 0]
  <2>1. n = IF p.state = "live" THEN a ELSE b
    BY <1>7, <1>m DEF IsNote
  <2>0. 0 \in 0 .. StrikesToDegrade
    BY MoodsAssumption
  <2>2. p.state = "live" => Keeps(p, a)
    <3>1. /\ a \in PageRec /\ a.state = p.state /\ a.sticky = p.sticky /\ a.skipped = p.skipped
          /\ a.timer = p.timer /\ a.turnOut = p.turnOut /\ a.trial = p.trial
      BY <1>0, <2>0 DEF Sound, PageRec
    <3> HIDE DEF a
    <3> QED
      BY <3>1 DEF Sound, Keeps
  <2>3. p.state # "live" => Keeps(p, b) /\ b.state = p.state
    <3>1. /\ b \in PageRec /\ b.state = p.state /\ b.sticky = p.sticky /\ b.skipped = p.skipped
          /\ b.timer = p.timer /\ b.turnOut = p.turnOut /\ b.trial = p.trial
          /\ b.reason = p.reason
      BY <2>0 DEF Sound, PageRec
    <3> HIDE DEF b
    <3> QED
      BY <3>1 DEF Sound, Keeps
  <2> QED
    BY <2>1, <2>2, <2>3
<1>8. CASE r = Nothing
  <2>1. n = Clean(p)
    BY <1>8, <1>m DEF IsNote
  <2>2. answer \notin ServerReasons
    <3>1. Nothing \notin ServerReasons
      BY DEF ServerReasons, Nothing
    <3> QED
      BY <1>0, <1>8, <3>1
  <2> QED
    BY <2>1, <2>2, CleanKeeps
<1>9. \/ r \in {"forbidden_origin", "gateway_not_configured", "rate_limited", "at_capacity",
                "turnstile_failed", Nothing}
      \/ r \in Outages \/ r \in ThisTurnOnly
  BY <1>0 DEF Reasons, Known, Outages, ThisTurnOnly
<1> QED
  BY <1>1, <1>2, <1>3, <1>4, <1>5, <1>6, <1>7, <1>8, <1>9

-----------------------------------------------------------------------------
(* The invariant, step by step. *)

LEMMA InitInv == Init => PageInv
<1> SUFFICES ASSUME Init PROVE PageInv
  OBVIOUS
<1> DEFINE first == CHOOSE p \in Probes : TRUE
<1>0. first \in Probes
  BY MoodsAssumption
<1>1. probes = [p \in Probes |-> IF p = first /\ ~hidden THEN "asked" ELSE Nothing]
  BY DEF Init
<1> HIDE DEF first
<1>2. MailInv
  <2>1. probes \in [Probes -> ProbeMail]
    BY <1>1 DEF ProbeMail
  <2>2. Quiet \in TurnRec /\ TurnSound(Quiet)
    BY DEF Quiet, TurnRec, TurnSound, Nothing, LongWait
  <2>3. turns = [t \in Turns |-> Quiet] /\ mood \in Moods /\ hidden \in BOOLEAN
    BY DEF Init
  <2> QED
    BY <2>1, <2>2, <2>3 DEF MailInv
<1>3. Sound(page)
  <2>1. 0 \in 0 .. StrikesToDegrade /\ 0 \in 0 .. LongWait /\ hidden \in BOOLEAN
    BY MoodsAssumption DEF LongWait, Init
  <2>2. page \in PageRec
    BY <2>1 DEF Init, PageRec, States, Reasons
  <2>3. ~page.turnOut /\ ~page.trial /\ page.state = "boot"
    BY DEF Init
  <2> QED
    BY <2>2, <2>3 DEF Sound
<1>4. WaitInv
  <2>1. CASE hidden
    BY <2>1 DEF Init, WaitInv
  <2>2. CASE ~hidden
    <3>1. probes[first] # Nothing
      BY <1>0, <1>1, <2>2 DEF Nothing
    <3> QED
      BY <1>0, <3>1 DEF WaitInv
  <2> QED
    BY <2>1, <2>2
<1> QED
  BY <1>2, <1>3, <1>4 DEF PageInv

(* A probe goes out: there is one in flight. *)
LEMMA AskedOne ==
  ASSUME PageInv, NEW p \in Probes, Ask(p)
  PROVE  probes' \in [Probes -> ProbeMail] /\ probes'[p] # Nothing
BY DEF PageInv, MailInv, Ask, ProbeMail, Nothing

LEMMA TimerFiresKeeps ==
  ASSUME PageInv, TimerFires PROVE PageInv'
<1>0. /\ page \in PageRec /\ UNCHANGED <<turns, mood, hidden>> /\ hidden \in BOOLEAN
  BY DEF PageInv, Sound, TimerFires, MailInv
<1>1. CASE hidden
  <2>1. page' = [page EXCEPT !.timer = FALSE, !.skipped = TRUE] /\ probes' = probes
    BY <1>1 DEF TimerFires
  <2>2. Sound(page)' /\ page'.skipped
    BY <2>1 DEF PageInv, Sound, PageRec
  <2>3. WaitInv'
    BY <1>0, <1>1, <2>2 DEF WaitInv
  <2>4. MailInv'
    BY <1>0, <2>1 DEF PageInv, MailInv
  <2> QED
    BY <2>2, <2>3, <2>4 DEF PageInv
<1>2. CASE ~hidden
  <2>1. page' = [page EXCEPT !.timer = FALSE] /\ \E p \in Probes : Ask(p)
    BY <1>2 DEF TimerFires
  <2>2. PICK p \in Probes : Ask(p)
    BY <2>1
  <2>3. Sound(page)'
    BY <2>1 DEF PageInv, Sound, PageRec
  <2>4. probes' \in [Probes -> ProbeMail] /\ probes'[p] # Nothing
    BY <2>2, AskedOne
  <2> QED
    BY <1>0, <2>3, <2>4 DEF PageInv, MailInv, WaitInv
<1> QED
  BY <1>1, <1>2

LEMMA ShowKeeps ==
  ASSUME PageInv, Show PROVE PageInv'
<1>0. /\ UNCHANGED <<turns, mood>> /\ hidden' = FALSE
  BY DEF Show
<1>1. CASE ~page.sticky /\ (page.skipped \/ ~page.timer)
  <2>1. page' = [page EXCEPT !.skipped = FALSE] /\ \E p \in Probes : Ask(p)
    BY <1>1 DEF Show
  <2>2. PICK p \in Probes : Ask(p)
    BY <2>1
  <2>3. Sound(page)'
    BY <2>1 DEF PageInv, Sound, PageRec
  <2>4. probes' \in [Probes -> ProbeMail] /\ probes'[p] # Nothing
    BY <2>2, AskedOne
  <2> QED
    BY <1>0, <2>3, <2>4 DEF PageInv, MailInv, WaitInv
<1>2. CASE page.sticky \/ (~page.skipped /\ page.timer)
  <2>1. UNCHANGED <<page, probes>>
    BY <1>2 DEF Show
  <2> QED
    BY <1>0, <1>2, <2>1 DEF PageInv, MailInv, WaitInv
<1> QED
  BY <1>1, <1>2

LEMMA ServeProbeKeeps ==
  ASSUME PageInv, NEW p \in Probes, ServeProbe(p) PROVE PageInv'
<1>1. PICK a \in ProbeAnswers(mood) : probes' = [probes EXCEPT ![p] = a]
  BY DEF ServeProbe
<1>2. a \in ProbeMail /\ a # Nothing
  BY DEF ProbeAnswers, ProbeMail, Nothing
<1>3. /\ probes \in [Probes -> ProbeMail] /\ UNCHANGED <<page, turns, mood, hidden>>
  BY DEF PageInv, MailInv, ServeProbe
<1>4. probes' \in [Probes -> ProbeMail] /\ probes'[p] # Nothing
  BY <1>1, <1>2, <1>3
<1> QED
  BY <1>3, <1>4 DEF PageInv, MailInv, WaitInv

LEMMA ReadProbeKeeps ==
  ASSUME PageInv, NEW p \in Probes, ReadProbe(p)
  PROVE  PageInv' /\ (page.state = "degraded" /\ page.turnOut => page'.state # "live")
<1>0. /\ Sound(page) /\ probes \in [Probes -> ProbeMail] /\ probes[p] \notin {Nothing, "asked"}
      /\ probes' = [probes EXCEPT ![p] = Nothing] /\ UNCHANGED <<turns, mood, hidden>>
  BY DEF PageInv, MailInv, ReadProbe
<1>1. probes' \in [Probes -> ProbeMail]
  BY <1>0 DEF ProbeMail
<1>2. PICK a : a = probes[p]
  OBVIOUS
<1>3. a \in {"live", "gone", "silent", "gateway_not_configured", "budget_exhausted"}
  BY <1>0, <1>2 DEF ProbeMail
<1>4. page' = CASE a = "gone" -> Absent(page)
                [] a = "silent" -> Unusable(page)
                [] OTHER -> Schedule(ApplyEnvelope(
                                [page EXCEPT !.pollStrikes = 0, !.ears = TRUE], a))
  BY <1>2 DEF ReadProbe
<1>5. PICK r : r = page'
  OBVIOUS
<1> SUFFICES /\ Sound(r) /\ (r.sticky \/ r.timer)
             /\ page.state = "degraded" /\ page.turnOut => r.state # "live"
  BY <1>0, <1>1, <1>5 DEF PageInv, MailInv, WaitInv
<1>6. CASE a = "gone"
  <2>1. r = Absent(page)
    BY <1>4, <1>5, <1>6
  <2> QED
    BY <1>0, <2>1, AbsentKeeps DEF Keeps, Sound
<1>7. CASE a = "silent"
  <2>1. r = Unusable(page)
    BY <1>4, <1>5, <1>7
  <2> QED
    BY <1>0, <2>1, UnusableKeeps DEF Keeps
<1>8. CASE a \in {"live", "gateway_not_configured", "budget_exhausted"}
  <2> DEFINE q == [page EXCEPT !.pollStrikes = 0, !.ears = TRUE]
             e == ApplyEnvelope(q, a)
  <2>1. r = Schedule(e)
    BY <1>4, <1>5, <1>8
  <2>2. 0 \in 0 .. StrikesToDegrade
    BY MoodsAssumption
  <2>3. Sound(q) /\ q.state = page.state /\ q.turnOut = page.turnOut
    <3>1. /\ q \in PageRec /\ q.state = page.state /\ q.reason = page.reason
          /\ q.sticky = page.sticky /\ q.turnOut = page.turnOut /\ q.trial = page.trial
      BY <1>0, <2>2 DEF Sound, PageRec
    <3> HIDE DEF q
    <3> QED
      BY <1>0, <3>1 DEF Sound
  <2> HIDE DEF q
  <2>4. Sound(e) /\ (q.state = "degraded" /\ q.turnOut => e.state # "live")
    BY <1>8, <2>3, ApplyEnvelopeSound
  <2> HIDE DEF e
  <2> QED
    BY <2>1, <2>3, <2>4, ScheduleSound
<1> QED
  BY <1>3, <1>6, <1>7, <1>8

LEMMA StartTurnKeeps ==
  ASSUME PageInv, NEW t \in Turns, NEW kind \in {"chat", "ears"}, StartTurn(t, kind)
  PROVE  PageInv'
<1> DEFINE q == [Quiet EXCEPT !.at = "asked", !.kind = kind]
<1>1. q \in TurnRec /\ TurnSound(q)
  <2>1. Quiet \in TurnRec /\ Quiet.answer = Nothing
    BY DEF Quiet, TurnRec, LongWait
  <2>2. q \in TurnRec /\ q.answer = Nothing /\ q.at = "asked"
    BY <2>1 DEF TurnRec
  <2> HIDE DEF q
  <2> QED
    BY <2>2 DEF TurnSound
<1>2. turns' = [turns EXCEPT ![t] = q] /\ UNCHANGED <<page, probes, mood, hidden>>
  BY DEF StartTurn
<1> HIDE DEF q
<1>3. turns' \in [Turns -> TurnRec] /\ \A u \in Turns : TurnSound(turns'[u])
  BY <1>1, <1>2 DEF PageInv, MailInv
<1> QED
  BY <1>2, <1>3 DEF PageInv, MailInv, WaitInv

LEMMA AnswersAreKnown ==
  ASSUME NEW m \in Moods, NEW kind, NEW a \in TurnAnswers(m, kind)
  PROVE  a \in TurnAnswer /\ a # Nothing
<1>1. m \in ServerReasons \union {"well", "unchecked", "silent", "gone"}
  BY MoodsAssumption
<1>2. CASE m = "well"
  BY <1>2 DEF TurnAnswers, TurnAnswer, Nothing
<1>3. CASE m \in {"silent", "gone", "unchecked"}
  BY <1>3 DEF TurnAnswers, TurnAnswer, Nothing
<1>4. CASE m \notin {"well", "silent", "gone", "unchecked"}
  <2>1. a \in {m, "clean"}
    BY <1>4 DEF TurnAnswers
  <2>2. m # Nothing
    BY <1>1, <1>4 DEF ServerReasons, Nothing
  <2> QED
    BY <1>1, <1>4, <2>1, <2>2 DEF TurnAnswer, Nothing
<1> QED
  BY <1>2, <1>3, <1>4

LEMMA ServeTurnKeeps ==
  ASSUME PageInv, NEW t \in Turns, ServeTurn(t) PROVE PageInv'
<1>1. PICK a \in TurnAnswers(mood, turns[t].kind) :
        \E w \in IF a = "rate_limited" THEN {ShortWait, LongWait} ELSE {0} :
          turns' = [turns EXCEPT ![t] = [turns[t] EXCEPT !.at = "answered", !.answer = a, !.wait = w]]
  BY DEF ServeTurn
<1>2. PICK w \in IF a = "rate_limited" THEN {ShortWait, LongWait} ELSE {0} :
          turns' = [turns EXCEPT ![t] = [turns[t] EXCEPT !.at = "answered", !.answer = a, !.wait = w]]
  BY <1>1
<1>3. w \in 0 .. LongWait
  BY <1>2 DEF ShortWait, LongWait
<1>4. a \in TurnAnswer /\ a # Nothing
  BY AnswersAreKnown DEF PageInv, MailInv
<1> DEFINE q == [turns[t] EXCEPT !.at = "answered", !.answer = a, !.wait = w]
<1>5. q \in TurnRec /\ TurnSound(q)
  <2>1. turns[t] \in TurnRec
    BY DEF PageInv, MailInv
  <2>2. q \in TurnRec /\ q.at = "answered" /\ q.answer = a
    BY <1>3, <1>4, <2>1 DEF TurnRec
  <2> HIDE DEF q
  <2> QED
    BY <1>4, <2>2 DEF TurnSound
<1> HIDE DEF q
<1>6. turns' \in [Turns -> TurnRec] /\ \A u \in Turns : TurnSound(turns'[u])
  BY <1>2, <1>5 DEF PageInv, MailInv, q
<1> QED
  BY <1>6 DEF PageInv, MailInv, WaitInv, ServeTurn

LEMMA ReadTurnKeeps ==
  ASSUME PageInv, NEW t \in Turns, ReadTurn(t)
  PROVE  /\ PageInv'
         /\ page'.state = "live" /\ page.state # "live" => turns[t].answer = "clean"
<1>0. /\ Sound(page) /\ turns \in [Turns -> TurnRec] /\ TurnSound(turns[t])
      /\ turns[t].at = "answered" /\ turns' = [turns EXCEPT ![t] = Quiet]
      /\ UNCHANGED <<probes, mood, hidden>>
  BY DEF PageInv, MailInv, ReadTurn
<1>1. PICK a, w : a = turns[t].answer /\ w = turns[t].wait
  OBVIOUS
<1>2. a \in TurnAnswer /\ w \in 0 .. LongWait
  <2>1. turns[t] \in TurnRec
    BY <1>0
  <2> QED
    BY <1>0, <1>1, <2>1 DEF TurnRec, TurnSound
<1>3. PICK r : r = page'
  OBVIOUS
<1>4. r = IF a = "silent" THEN TurnFailed(page) ELSE Note(page, a, w)
  BY <1>1, <1>3 DEF ReadTurn
<1>5. Keeps(page, r) /\ (r.state = "live" /\ page.state # "live" => a = "clean")
  <2>1. CASE a = "silent"
    BY <1>0, <1>4, <2>1, TurnFailedKeeps
  <2>2. CASE a # "silent"
    <3>1. r = Note(page, a, w)
      BY <1>4, <2>2
    <3>2. a \in ServerReasons \/ a = "clean"
      BY <1>2, <2>2 DEF TurnAnswer
    <3> QED
      BY <1>0, <1>2, <3>1, <3>2, NoteKeeps
  <2> QED
    BY <2>1, <2>2
<1>6. MailInv'
  <2>1. Quiet \in TurnRec /\ TurnSound(Quiet)
    BY DEF Quiet, TurnRec, TurnSound, Nothing, LongWait
  <2>2. turns' \in [Turns -> TurnRec] /\ \A u \in Turns : TurnSound(turns'[u])
    BY <1>0, <2>1 DEF PageInv, MailInv
  <2> QED
    BY <1>0, <2>2 DEF PageInv, MailInv
<1>7. WaitInv'
  BY <1>0, <1>3, <1>5 DEF PageInv, WaitInv, Keeps
<1> QED
  BY <1>1, <1>3, <1>5, <1>6, <1>7 DEF PageInv, Keeps

LEMMA TickKeeps ==
  ASSUME PageInv, Tick PROVE PageInv' /\ page'.state = page.state
<1>0. Sound(page) /\ page.left > 0 /\ page' = [page EXCEPT !.left = page.left - 1]
      /\ UNCHANGED <<probes, turns, mood, hidden>>
  BY DEF PageInv, Tick
<1>1. page.left - 1 \in 0 .. LongWait
  BY <1>0 DEF Sound, PageRec, LongWait
<1>2. /\ page' \in PageRec /\ page'.state = page.state /\ page'.reason = page.reason
      /\ page'.sticky = page.sticky /\ page'.turnOut = page.turnOut /\ page'.trial = page.trial
      /\ page'.timer = page.timer /\ page'.skipped = page.skipped
  BY <1>0, <1>1 DEF Sound, PageRec
<1>3. Sound(page')
  BY <1>0, <1>2 DEF Sound
<1> QED
  BY <1>0, <1>2, <1>3 DEF PageInv, MailInv, WaitInv

LEMMA NextKeeps == PageInv /\ [Next]_vars => PageInv'
<1> SUFFICES ASSUME PageInv, [Next]_vars PROVE PageInv'
  OBVIOUS
<1>1. CASE TimerFires
  BY <1>1, TimerFiresKeeps
<1>2. CASE Hide
  BY <1>2 DEF Hide, PageInv, MailInv, WaitInv
<1>3. CASE Show
  BY <1>3, ShowKeeps
<1>4. CASE Tick
  BY <1>4, TickKeeps
<1>5. ASSUME NEW m \in Moods, ChangeMood(m) PROVE PageInv'
  BY <1>5 DEF ChangeMood, PageInv, MailInv, WaitInv
<1>6. ASSUME NEW p \in Probes, ServeProbe(p) PROVE PageInv'
  BY <1>6, ServeProbeKeeps
<1>7. ASSUME NEW p \in Probes, ReadProbe(p) PROVE PageInv'
  BY <1>7, ReadProbeKeeps
<1>8. ASSUME NEW t \in Turns, ServeTurn(t) PROVE PageInv'
  BY <1>8, ServeTurnKeeps
<1>9. ASSUME NEW t \in Turns, ReadTurn(t) PROVE PageInv'
  BY <1>9, ReadTurnKeeps
<1>10. ASSUME NEW t \in Turns, NEW kind \in {"chat", "ears"}, StartTurn(t, kind) PROVE PageInv'
  BY <1>10, StartTurnKeeps
<1>11. CASE UNCHANGED vars
  BY <1>11 DEF vars, PageInv, MailInv, WaitInv
<1> QED
  BY <1>1, <1>2, <1>3, <1>4, <1>5, <1>6, <1>7, <1>8, <1>9, <1>10, <1>11 DEF Next

LEMMA AlwaysSound == Spec => []PageInv
BY InitInv, NextKeeps, PTL DEF Spec

(***************************************************************************)
(* A page that may still change its mind always has something under way    *)
(* that will make it: an armed timer, a probe in flight, or a tab that     *)
(* will be looked at; and it never claims to be live while it carries an   *)
(* outage or a trial (mode.js schedule, tick, visibilitychange).           *)
(***************************************************************************)
THEOREM NobodyIsAbandoned == Spec => []NeverAbandoned
<1>1. PageInv => NeverAbandoned
  BY DEF PageInv, WaitInv, NeverAbandoned, PageTypeOK, Sound, PageRec, States, Reasons
<1> QED
  BY <1>1, AlwaysSound, PTL

(* What one step may do to a page that is out, and to one that is not live. *)
OnlyATurnEndsIt ==
  /\ (page.state = "degraded" /\ page.turnOut /\ page'.state = "live")
        => \E t \in Turns : turns[t].answer = "clean" /\ turns'[t] = Quiet
  /\ \A t \in Turns :
        (turns[t].answer \in ServerReasons /\ turns'[t] = Quiet /\ page'.state = "live")
          => page.state = "live"

LEMMA IdleTurnsSayNothing ==
  ASSUME PageInv, NEW t \in Turns, turns[t].answer \in ServerReasons
  PROVE  turns[t] # Quiet /\ turns[t].at = "answered"
BY DEF PageInv, MailInv, TurnSound, Quiet, ServerReasons, Nothing

LEMMA StepEndsIt == PageInv /\ [Next]_vars => OnlyATurnEndsIt \/ UNCHANGED vars
<1> SUFFICES ASSUME PageInv, Next PROVE OnlyATurnEndsIt
  BY DEF vars
<1>0. \A t \in Turns : turns[t].answer \in ServerReasons => turns[t] # Quiet
  BY IdleTurnsSayNothing
<1>1. ASSUME page'.state = page.state PROVE OnlyATurnEndsIt
  BY <1>1 DEF OnlyATurnEndsIt
<1>2. CASE TimerFires
  BY <1>1, <1>2 DEF TimerFires, PageInv, Sound, PageRec
<1>3. CASE Show
  BY <1>1, <1>3 DEF Show, PageInv, Sound, PageRec
<1>4. CASE Tick
  BY <1>1, <1>4, TickKeeps
<1>5. CASE UNCHANGED page
  BY <1>1, <1>5
<1>6. ASSUME NEW p \in Probes, ReadProbe(p) PROVE OnlyATurnEndsIt
  <2>1. page.state = "degraded" /\ page.turnOut => page'.state # "live"
    BY <1>6, ReadProbeKeeps
  <2>2. turns' = turns
    BY <1>6 DEF ReadProbe
  <2> QED
    BY <1>0, <2>1, <2>2 DEF OnlyATurnEndsIt
<1>7. ASSUME NEW t \in Turns, ReadTurn(t) PROVE OnlyATurnEndsIt
  <2>1. page'.state = "live" /\ page.state # "live" => turns[t].answer = "clean"
    BY <1>7, ReadTurnKeeps
  <2>2. turns' = [turns EXCEPT ![t] = Quiet] /\ turns \in [Turns -> TurnRec]
    BY <1>7 DEF ReadTurn, PageInv, MailInv
  <2>3. turns'[t] = Quiet /\ \A u \in Turns : u # t => turns'[u] = turns[u]
    BY <2>2
  <2>4. "clean" \notin ServerReasons
    BY DEF ServerReasons
  <2> QED
    BY <1>0, <2>1, <2>3, <2>4 DEF OnlyATurnEndsIt
<1> QED
  <2>1. ASSUME NEW m \in Moods, ChangeMood(m) PROVE OnlyATurnEndsIt
    BY <1>5, <2>1 DEF ChangeMood
  <2>2. ASSUME NEW p \in Probes, ServeProbe(p) PROVE OnlyATurnEndsIt
    BY <1>5, <2>2 DEF ServeProbe
  <2>3. ASSUME NEW t \in Turns, ServeTurn(t) PROVE OnlyATurnEndsIt
    BY <1>5, <2>3 DEF ServeTurn
  <2>4. ASSUME NEW t \in Turns, NEW kind \in {"chat", "ears"}, StartTurn(t, kind)
        PROVE OnlyATurnEndsIt
    BY <1>5, <2>4 DEF StartTurn
  <2>5. CASE Hide
    BY <1>5, <2>5 DEF Hide
  <2> QED
    BY <1>2, <1>3, <1>4, <1>6, <1>7, <2>1, <2>2, <2>3, <2>4, <2>5 DEF Next

(***************************************************************************)
(* "Who may say she is back": an outage a turn reported ends only in the   *)
(* step that reads a clean turn, however many probes say live meanwhile;   *)
(* and no refused turn makes a page live (mode.js note, applyEnvelope).    *)
(***************************************************************************)
THEOREM OutagesEndByATurn == Spec => OutageEndsByATurn
<1>1. PageInv /\ [Next]_vars => [OnlyATurnEndsIt]_vars
  BY StepEndsIt
<1> QED
  BY <1>1, AlwaysSound, PTL DEF Spec, OutageEndsByATurn, OnlyATurnEndsIt
=============================================================================
