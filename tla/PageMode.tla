----------------------------- MODULE PageMode -----------------------------
(***************************************************************************)
(* What the hosted page believes its deployment can do (sim/web/mode.js).  *)
(*                                                                         *)
(* Two kinds of traffic feed it: probes of /api/health, which never reach  *)
(* the gateway, and the turns the visitor spends, whose answers it hears   *)
(* from cloud-transport.js (typed) and mic.js (spoken).  An answer is      *)
(* decided when the server serves it and read later, so answers of an      *)
(* earlier day of the deployment arrive in a later one, in any order.      *)
(*                                                                         *)
(* Waits are abstracted: an armed timer may fire at any moment, and what   *)
(* is left of a Retry-After window is counted in ticks.                    *)
(***************************************************************************)
EXTENDS Naturals, FiniteSets, FiniteSetsExt

CONSTANTS
    Probes,     \* probes that may be in flight at once
    Turns,      \* turns that may be in flight at once
    StrikesToDegrade,   \* consecutive errors before a live page degrades
    Moods,      \* what the deployment may be like
    MaxMoods    \* bound: how often it changes

\* envelope.js: the closed set of reasons the server can send.
ServerReasons ==
    {"rate_limited", "at_capacity", "budget_exhausted", "upstream_down",
     "gateway_unreachable_or_gated", "gateway_not_configured", "timeout",
     "bad_request", "too_long", "too_short", "bad_ticket", "blocked",
     "forbidden_origin", "turnstile_failed", "turnstile_misconfigured"}

\* mode.js: the reasons the page knows; any other is read as none.
Known ==
    {"rate_limited", "at_capacity", "budget_exhausted", "upstream_down",
     "gateway_unreachable_or_gated", "gateway_not_configured", "timeout",
     "bad_request", "too_long", "too_short", "bad_ticket", "blocked",
     "forbidden_origin", "turnstile_failed", "turnstile_misconfigured"}

\* Reasons that put the brain out until a turn comes back clean.
Outages == {"budget_exhausted", "upstream_down", "timeout",
            "gateway_unreachable_or_gated", "turnstile_misconfigured"}

\* Reasons about one sentence, never about the deployment.
ThisTurnOnly == {"bad_request", "too_long", "too_short", "bad_ticket", "blocked"}

ASSUME MoodsAssumption ==
    /\ Moods \subseteq ServerReasons \union {"well", "unchecked", "silent", "gone"}
    /\ "well" \in Moods
    /\ Probes # {}      \* the page always has one to send
    /\ StrikesToDegrade \in Nat \ {0}
    /\ MaxMoods \in Nat

VARIABLES
    page,       \* mode.js's own state
    probes,     \* probe -> what it carries
    turns,      \* turn -> what it carries
    mood,       \* what the deployment is like now
    changes,    \* how often that changed
    hidden      \* the tab is in the background

vars == <<page, probes, turns, mood, changes, hidden>>

Nothing == "none"
ShortWait == 1      \* the per-minute window, or a seat that frees soon
LongWait == 2       \* past REST_AFTER_S: the hour or the day cap

-----------------------------------------------------------------------------
(* The parts of mode.js                                                     *)

SetState(p, next, why) ==
    LET q == IF next = "live" THEN [p EXCEPT !.turnOut = FALSE, !.trial = FALSE] ELSE p
    IN  IF next = q.state /\ why = q.reason THEN q
        ELSE [q EXCEPT !.state = next, !.reason = why,
                       !.sticky = @ \/ next = "offline"
                                    \/ (next = "degraded" /\ why = "gateway_not_configured")]

\* schedule() clears the timer first; a sticky page arms none.
Schedule(p) == [p EXCEPT !.timer = ~p.sticky]

Absent(p) == SetState([p EXCEPT !.timer = FALSE], "offline", Nothing)

Struck(n) == IF n < StrikesToDegrade THEN n + 1 ELSE n

\* Mutant: the probe that could not be read is not followed by another.
MutNoNextProbe(p) ==
    IF p.state = "boot" THEN Absent(p)
    ELSE IF p.state # "live" THEN p
    ELSE [p EXCEPT !.pollStrikes = Struck(@)]

\* A probe nobody can read.
Unusable(p) ==
    IF p.state = "boot" THEN Absent(p)
    ELSE IF p.state # "live" THEN Schedule(p)
    ELSE LET q == [p EXCEPT !.pollStrikes = Struck(@)]
         IN  Schedule(IF q.pollStrikes >= StrikesToDegrade
                      THEN SetState(q, "degraded", "upstream_down") ELSE q)

\* A turn that got no envelope at all.
TurnFailed(p) ==
    IF p.state = "boot" THEN Absent(p)
    ELSE IF p.state # "live" THEN Schedule([p EXCEPT !.trial = FALSE])
    ELSE LET q == [p EXCEPT !.strikes = Struck(@)]
         IN  Schedule(IF q.strikes >= StrikesToDegrade
                      THEN SetState(q, "degraded", "upstream_down") ELSE q)

Limited(p) == p.reason = "rate_limited" /\ p.left > 0

CanSpend(p) == p.left = 0 /\ (p.state = "live" \/ (p.state = "degraded" /\ p.trial))

\* Mutant: a probe undoes what a turn reported.
MutProbeKnowsBest(p, answer) ==
    IF answer # "live" THEN SetState([p EXCEPT !.trial = FALSE], "degraded", answer)
    ELSE IF ~Limited(p) THEN SetState(p, "live", Nothing)
    ELSE p

\* Mutant: a page whose turn reported an outage never lets a turn try.
MutNoTrial(p, answer) ==
    IF answer # "live" THEN SetState([p EXCEPT !.trial = FALSE], "degraded", answer)
    ELSE IF p.state = "degraded" /\ p.turnOut THEN p
    ELSE IF ~Limited(p) THEN SetState(p, "live", Nothing)
    ELSE p

ApplyEnvelope(p, answer) ==
    IF answer # "live" THEN SetState([p EXCEPT !.trial = FALSE], "degraded", answer)
    ELSE IF p.state = "degraded" /\ p.turnOut THEN [p EXCEPT !.trial = TRUE]
    ELSE IF ~Limited(p) THEN SetState(p, "live", Nothing)
    ELSE p

Clean(p) ==
    LET q == IF p.state = "live" /\ p.reason = "turnstile_failed"
             THEN [p EXCEPT !.strikes = 0, !.reason = Nothing]
             ELSE [p EXCEPT !.strikes = 0]
    IN  IF q.state = "degraded" /\ ~q.sticky /\ ~Limited(q)
        THEN Schedule(SetState(q, "live", Nothing)) ELSE q

NoteRateLimited(p, wait) ==
    LET q == [p EXCEPT !.strikes = 0, !.left = wait]
    IN  IF q.state # "live" THEN q
        ELSE IF wait = LongWait
             THEN SetState([q EXCEPT !.trial = TRUE], "degraded", "rate_limited")
             ELSE [q EXCEPT !.reason = "rate_limited"]

NoteAtCapacity(p) ==
    LET q == [p EXCEPT !.strikes = 0, !.left = ShortWait]
    IN  Schedule(IF q.state = "live" THEN [q EXCEPT !.reason = "at_capacity"]
                 ELSE SetState(q, "degraded", "at_capacity"))

\* note(): what the page makes of the answer to a turn.
Note(p, answer, wait) ==
    LET r == IF answer \in Known THEN answer ELSE Nothing IN
    CASE r = "forbidden_origin" -> Absent(p)
      [] r = "gateway_not_configured" -> [SetState(p, "degraded", r) EXCEPT !.timer = FALSE]
      [] r \in Outages ->
           Schedule(SetState([p EXCEPT !.turnOut = TRUE, !.trial = FALSE], "degraded", r))
      [] r = "rate_limited" -> NoteRateLimited(p, wait)
      [] r = "at_capacity" -> NoteAtCapacity(p)
      [] r \in ThisTurnOnly -> p
      [] r = "turnstile_failed" ->
           IF p.state = "live" THEN [p EXCEPT !.strikes = 0, !.reason = r]
           ELSE [p EXCEPT !.strikes = 0]
      [] OTHER -> Clean(p)

-----------------------------------------------------------------------------
(* The deployment                                                           *)

\* The probe never asks the gateway: it sees configuration and one isolate's
\* budget, and calls everything else live.
ProbeAnswers(m) ==
    CASE m = "gateway_not_configured" -> {m}
      [] m = "budget_exhausted" -> {m, "live"}
      [] m \in {"silent", "gone"} -> {m}
      [] OTHER -> {"live"}

\* "unchecked": the visitor check fails in the browser, and nothing is sent.
TurnAnswers(m, kind) ==
    CASE m = "well" -> {"clean"}
      [] m \in {"silent", "gone", "unchecked"} -> {"silent"}
      [] OTHER -> IF kind = "ears" THEN {m, "clean"} ELSE {m}

Quiet == [at |-> "idle", kind |-> Nothing, answer |-> Nothing, wait |-> 0]

Ask(p) == /\ probes[p] = Nothing
          /\ probes' = [probes EXCEPT ![p] = "asked"]

-----------------------------------------------------------------------------
(* Actions                                                                  *)

\* The page loads: its first probe goes out, or waits to be looked at.
Init ==
    /\ hidden \in BOOLEAN
    /\ page = [state |-> "boot", reason |-> Nothing, sticky |-> FALSE, left |-> 0,
               strikes |-> 0, pollStrikes |-> 0, turnOut |-> FALSE, trial |-> FALSE,
               timer |-> FALSE, skipped |-> hidden, ears |-> FALSE]
    /\ LET first == CHOOSE p \in Probes : TRUE
       IN  probes = [p \in Probes |-> IF p = first /\ ~hidden THEN "asked" ELSE Nothing]
    /\ turns = [t \in Turns |-> Quiet]
    /\ mood \in Moods
    /\ changes = 0

ChangeMood(m) ==
    /\ changes < MaxMoods
    /\ m # mood
    /\ mood' = m
    /\ changes' = changes + 1
    /\ UNCHANGED <<page, probes, turns, hidden>>

\* tick(): a due probe, put off while nobody looks.
TimerFires ==
    /\ page.timer
    /\ IF hidden
       THEN /\ page' = [page EXCEPT !.timer = FALSE, !.skipped = TRUE]
            /\ UNCHANGED probes
       ELSE /\ page' = [page EXCEPT !.timer = FALSE]
            /\ \E p \in Probes : Ask(p)
    /\ UNCHANGED <<turns, mood, changes, hidden>>

Hide ==
    /\ ~hidden
    /\ hidden' = TRUE
    /\ UNCHANGED <<page, probes, turns, mood, changes>>

\* visibilitychange: a probe that fell due in the background goes out now.
Show ==
    /\ hidden
    /\ hidden' = FALSE
    /\ IF ~page.sticky /\ (page.skipped \/ ~page.timer)
       THEN /\ page' = [page EXCEPT !.skipped = FALSE]
            /\ \E p \in Probes : Ask(p)
       ELSE UNCHANGED <<page, probes>>
    /\ UNCHANGED <<turns, mood, changes>>

ServeProbe(p) ==
    /\ probes[p] = "asked"
    /\ \E a \in ProbeAnswers(mood) : probes' = [probes EXCEPT ![p] = a]
    /\ UNCHANGED <<page, turns, mood, changes, hidden>>

ReadProbe(p) ==
    /\ probes[p] \notin {Nothing, "asked"}
    /\ probes' = [probes EXCEPT ![p] = Nothing]
    /\ page' = CASE probes[p] = "gone" -> Absent(page)
                 [] probes[p] = "silent" -> Unusable(page)
                 [] OTHER -> Schedule(ApplyEnvelope(
                                 [page EXCEPT !.pollStrikes = 0, !.ears = TRUE], probes[p]))
    /\ UNCHANGED <<turns, mood, changes, hidden>>

\* A typed turn asks the mode machine; a spoken one asks only for ears.
StartTurn(t, kind) ==
    /\ turns[t].at = "idle"
    /\ IF kind = "chat" THEN CanSpend(page) ELSE page.ears
    /\ turns' = [turns EXCEPT ![t] = [Quiet EXCEPT !.at = "asked", !.kind = kind]]
    /\ UNCHANGED <<page, probes, mood, changes, hidden>>

ServeTurn(t) ==
    /\ turns[t].at = "asked"
    /\ \E a \in TurnAnswers(mood, turns[t].kind) :
         \E w \in IF a = "rate_limited" THEN {ShortWait, LongWait} ELSE {0} :
            turns' = [turns EXCEPT ![t] =
                        [@ EXCEPT !.at = "answered", !.answer = a, !.wait = w]]
    /\ UNCHANGED <<page, probes, mood, changes, hidden>>

ReadTurn(t) ==
    /\ turns[t].at = "answered"
    /\ turns' = [turns EXCEPT ![t] = Quiet]
    /\ page' = IF turns[t].answer = "silent" THEN TurnFailed(page)
               ELSE Note(page, turns[t].answer, turns[t].wait)
    /\ UNCHANGED <<probes, mood, changes, hidden>>

\* A Retry-After window runs down.
Tick ==
    /\ page.left > 0
    /\ page' = [page EXCEPT !.left = @ - 1]
    /\ UNCHANGED <<probes, turns, mood, changes, hidden>>

Next ==
    \/ TimerFires \/ Hide \/ Show \/ Tick
    \/ \E m \in Moods : ChangeMood(m)
    \/ \E p \in Probes : ServeProbe(p) \/ ReadProbe(p)
    \/ \E t \in Turns : ServeTurn(t) \/ ReadTurn(t)
    \/ \E t \in Turns, kind \in {"chat", "ears"} : StartTurn(t, kind)

\* Timers fire, windows run down, answers come and are read, and a visitor
\* who can spend a turn spends one sooner or later.
Fairness ==
    /\ WF_vars(TimerFires) /\ WF_vars(Tick)
    /\ \A p \in Probes : WF_vars(ServeProbe(p)) /\ WF_vars(ReadProbe(p))
    /\ \A t \in Turns : WF_vars(ServeTurn(t)) /\ WF_vars(ReadTurn(t))
    /\ WF_vars(\E t \in Turns : StartTurn(t, "chat"))

Spec == Init /\ [][Next]_vars /\ Fairness

-----------------------------------------------------------------------------
(* Properties                                                               *)

\* Types, and what the flags of mode.js may say together: a trial or an
\* unproven outage is never carried by a page that claims to be live.
PageTypeOK ==
    /\ page.state \in {"boot", "offline", "degraded", "live"}
    /\ page.reason \in Known \union {Nothing}
    /\ page.left \in 0 .. LongWait
    /\ page.strikes \in 0 .. StrikesToDegrade
    /\ page.pollStrikes \in 0 .. StrikesToDegrade
    /\ \A f \in {page.sticky, page.timer, page.skipped, page.ears} : f \in BOOLEAN
    /\ page.turnOut \/ page.trial => page.state \notin {"boot", "live"}

\* A page that may still change its mind always has something under way that
\* will make it: a timer, a probe in flight, or a tab that will be looked at.
\* (mode.js: sticky states are the only ones never probed again.)
NeverAbandoned ==
    /\ PageTypeOK
    /\ \/ page.sticky
       \/ page.timer
       \/ page.skipped /\ hidden
       \/ \E p \in Probes : probes[p] # Nothing

\* "Who may say she is back": an outage a turn reported ends only in the step
\* that reads a clean turn, however many probes say live meanwhile; and every
\* reason the server can send is one the page understands: no refused turn makes
\* a page live.
OutageEndsByATurn ==
    [][ /\ (page.state = "degraded" /\ page.turnOut /\ page'.state = "live")
              => \E t \in Turns : turns[t].answer = "clean" /\ turns'[t] = Quiet
        /\ \A t \in Turns :
              (turns[t].answer \in ServerReasons /\ turns'[t] = Quiet /\ page'.state = "live")
                => page.state = "live" ]_vars

\* Once the deployment is well for good and somebody is looking, the page
\* ends up live and stays so, unless it gave the deployment up for good.
BackWhenWell ==
    <>[](mood = "well" /\ ~hidden) => <>[](page.state = "live" \/ page.sticky)
=============================================================================
