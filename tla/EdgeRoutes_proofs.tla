------------------------- MODULE EdgeRoutes_proofs -------------------------
(***************************************************************************)
(* Proofs about EdgeRoutes, for every value of its constants: whatever     *)
(* children say and record, whatever the gateway and siteverify answer,    *)
(* whatever the environment switches on, with the shared tier and without. *)
(*                                                                         *)
(* The routes add to admission only what they do with a slot they hold, so *)
(* a step is described twice again: as one of the nine ways in which a     *)
(* route moves (Acts), and, where it touches the requests, as a move on    *)
(* the lanes of EdgeAdmission_proofs. The money follows from a table that  *)
(* says, for every place of a route, how many calls it has made and paid.  *)
(***************************************************************************)
EXTENDS EdgeRoutes, EdgeAdmission_proofs

(* A turn is a record with these fields. *)
TurnFields == {"leg", "calls", "retries", "said", "clip", "history", "token", "bot",
               "ticket", "asked", "first", "answer"}

IsTurn(t) == TurnFields \subseteq DOMAIN t

TurnsTyped ==
  /\ DOMAIN turn = Requests
  /\ \A r \in Requests : IsTurn(turn[r])
  /\ DOMAIN penaltiesOk = Isolates
  /\ DOMAIN spent = Isolates

(* What a request was charged, by where admission has it: it comes charged *)
(* for nothing, holds the price of one call at least while it waits or has *)
(* a slot, and a refusal of admission takes it all back.                   *)
ReqPaid(r) ==
  /\ req[r].refunded \in BOOLEAN
  /\ req[r].pc = "new" => req[r].times = 0 /\ req[r].refunded = FALSE
  /\ req[r].pc \notin {"new", "done"} =>
        req[r].times >= 1 /\ req[r].refunded = FALSE /\ Open(RouteOf[r])
  /\ req[r].pc = "done" /\ turn[r].leg = "body" => req[r].times = 0

(* What a route has asked of the gateway, by where it stands: each call    *)
(* but the retry of a refused body is one it was charged for before.       *)
TurnPaid(r) ==
  LET t == turn[r] IN
  /\ t.leg \in Legs
  /\ t.retries \in 0 .. 1
  /\ t.retries = 1 => penaltiesOk[IsolateOf[r]] = FALSE
  /\ t.leg \in {"body", "bot", "ready", "cache"} => t.calls = 0 /\ t.retries = 0
  /\ t.leg \in {"bot", "ready", "call", "reroll", "cache", "store"} => req[r].pc = "granted"
  /\ t.leg \in {"call", "store"} => t.calls = 1 + t.retries
  /\ t.leg = "reroll" => t.calls = 2 + t.retries /\ req[r].times >= 2
  /\ t.leg \in {"cache", "store"} => RouteOf[r] = "speech"
  /\ t.leg \in {"bot", "ready", "reroll"} => RouteOf[r] # "speech"
  /\ t.leg = "over" =>
        /\ req[r].pc = "done"
        /\ t.calls \in 0 .. 3
        /\ req[r].refunded \/ ~Open(RouteOf[r]) => t.calls = 0
        /\ ~req[r].refunded => t.calls <= req[r].times + t.retries
        /\ req[r].times > 0 /\ t.calls = 0 => RouteOf[r] = "speech" /\ t.answer \in audio

(* The tickets an isolate remembers are some of those redeemed in it, and  *)
(* all of them, each redeemed once, while they fit.                        *)
Redeemed(i) == {turn[r].ticket : r \in Redeemers(i)}

SpentOK(i) ==
  /\ IsFiniteSet(Redeemed(i))
  /\ spent[i] \subseteq Redeemed(i)
  /\ Cardinality(spent[i]) <= SpentMax
  /\ Cardinality(Redeemed(i)) <= SpentMax =>
        /\ spent[i] = Redeemed(i)
        /\ \A r, q \in Redeemers(i) : r # q => turn[r].ticket # turn[q].ticket

(* What the bot control knows of a request.                                *)
TokenOK(r) ==
  LET t == turn[r] IN
  /\ t.leg \in {"body", "bot"} => t.bot = "none" /\ t.calls = 0
  /\ Guarded /\ RouteOf[r] # "speech" /\ (t.leg \notin {"body", "bot", "over"} \/ t.calls > 0)
        => t.bot \in {"verified", "unreachable"}
  /\ t.bot = "verified" => t.token \in used /\ WidgetOf[t.token].action = RouteOf[r]

TokensApart ==
  \A r, q \in Requests :
     turn[r].bot = "verified" /\ turn[q].bot = "verified" /\ r # q
        => turn[r].token # turn[q].token

RoutesInv ==
  /\ SlotInv
  /\ TurnsTyped
  /\ \A r \in Requests : ReqPaid(r) /\ TurnPaid(r)
  /\ \A i \in Isolates : SpentOK(i)

BotInv ==
  /\ TurnsTyped
  /\ \A r \in Requests : TokenOK(r)
  /\ TokensApart

-----------------------------------------------------------------------------
(* What a step makes of the turn of request r                               *)

OthersWait(r) == \A p \in Requests : p # r => turn'[p] = turn[p]

Frame(r) ==
  /\ TurnsTyped' /\ OthersWait(r)
  /\ used \subseteq used' /\ audio \subseteq audio'

(* The fields that a move leaves as they are. *)
SameCalls(r) == turn'[r].calls = turn[r].calls /\ turn'[r].retries = turn[r].retries
OneCallMore(r) == turn'[r].calls = turn[r].calls + 1
SameProof(r) == turn'[r].bot = turn[r].bot /\ turn'[r].token = turn[r].token
SameTicket(r) == turn'[r].ticket = turn[r].ticket
KeepsSpent == UNCHANGED <<penaltiesOk, spent>>

(* Refused before anything was spent. *)
TurnedDown(r) ==
  /\ InLeg(r, "body") \/ InLeg(r, "bot")
  /\ \E reason : SpentNothing(r, reason)
  /\ turn'[r].leg = "over" /\ SameCalls(r) /\ turn'[r].bot = turn[r].bot
  /\ KeepsSpent

(* The body of a turn or of an utterance was read. *)
ReadsOn(r) ==
  /\ InLeg(r, "body") /\ RouteOf[r] # "speech"
  /\ turn'[r].leg = NextLegAfterBody /\ SameCalls(r) /\ turn'[r].bot = turn[r].bot
  /\ UNCHANGED admissionVars /\ KeepsSpent

(* A ticket this isolate does not remember was redeemed. *)
Redeems(r) ==
  /\ InLeg(r, "body") /\ RouteOf[r] = "speech"
  /\ turn[r].leg = "body"
  /\ turn'[r].ticket \notin spent[IsolateOf[r]]
  /\ MarkSpent(IsolateOf[r], turn'[r].ticket)
  /\ \/ turn'[r].leg = "cache" /\ turn'[r].calls = turn[r].calls
     \/ turn'[r].leg = "call" /\ OneCallMore(r)
  /\ turn'[r].retries = turn[r].retries /\ SameProof(r)
  /\ UNCHANGED admissionVars /\ UNCHANGED penaltiesOk

(* The bot control lets the request go on. *)
Passes(r) ==
  /\ InLeg(r, "bot")
  /\ turn'[r].leg = "ready" /\ SameCalls(r) /\ turn'[r].token = turn[r].token
  /\ turn'[r].bot \in {"verified", "unreachable"}
  /\ turn'[r].bot = "verified" =>
        /\ turn[r].token \notin used /\ turn[r].token \in used'
        /\ WidgetOf[turn[r].token].action = RouteOf[r]
  /\ UNCHANGED admissionVars /\ KeepsSpent

(* The first call goes out. *)
CallsOut(r) ==
  /\ \/ InLeg(r, "ready") /\ RouteOf[r] # "speech"
     \/ InLeg(r, "cache")
  /\ turn'[r].leg = "call" /\ OneCallMore(r)
  /\ turn'[r].retries = turn[r].retries /\ SameProof(r) /\ SameTicket(r)
  /\ UNCHANGED admissionVars /\ KeepsSpent

(* The call is made again without the penalty fields. *)
CallsAgain(r) ==
  /\ InLeg(r, "call") \/ InLeg(r, "reroll")
  /\ penaltiesOk[IsolateOf[r]]
  /\ penaltiesOk' = [penaltiesOk EXCEPT ![IsolateOf[r]] = FALSE]
  /\ turn'[r].leg = turn[r].leg /\ OneCallMore(r)
  /\ turn'[r].retries = turn[r].retries + 1 /\ SameProof(r) /\ SameTicket(r)
  /\ UNCHANGED admissionVars /\ UNCHANGED spent

(* A second line is asked for, and charged. *)
Rerolls(r) ==
  /\ InLeg(r, "call") /\ RouteOf[r] = "chat"
  /\ ChargeExtra(r)
  /\ turn'[r].leg = "reroll" /\ OneCallMore(r)
  /\ turn'[r].retries = turn[r].retries /\ SameProof(r) /\ SameTicket(r)
  /\ KeepsSpent

(* The voice is there and goes to the cache. *)
StoresVoice(r) ==
  /\ InLeg(r, "call") /\ RouteOf[r] = "speech"
  /\ turn'[r].leg = "store" /\ SameCalls(r) /\ SameProof(r) /\ SameTicket(r)
  /\ UNCHANGED admissionVars /\ KeepsSpent

(* The request is answered, well or badly, and what it spent was spent. *)
Ends(r) ==
  /\ InLeg(r, "call") \/ InLeg(r, "reroll") \/ InLeg(r, "cache") \/ InLeg(r, "store")
  /\ \E reason : Release(r, reason)
  /\ turn'[r].leg = "over" /\ SameCalls(r) /\ SameTicket(r)
  /\ turn'[r].bot = turn[r].bot
  /\ turn[r].bot = "verified" => turn'[r].token = turn[r].token
  /\ turn[r].leg = "cache" => turn'[r].answer \in audio'
  /\ KeepsSpent

Acts(r) ==
  /\ Frame(r)
  /\ \/ TurnedDown(r) \/ ReadsOn(r) \/ Redeems(r) \/ Passes(r) \/ CallsOut(r)
     \/ CallsAgain(r) \/ Rerolls(r) \/ StoresVoice(r) \/ Ends(r)

(* Writing one turn back. *)
LEMMA TurnPlaced ==
  ASSUME TurnsTyped, NEW r \in Requests, NEW e, IsTurn(e),
         turn' = [turn EXCEPT ![r] = e],
         DOMAIN penaltiesOk' = Isolates, DOMAIN spent' = Isolates
  PROVE TurnsTyped' /\ OthersWait(r) /\ turn'[r] = e
BY DEF TurnsTyped, OthersWait

(* What is left of a turn that is over. *)
LEMMA EndedTurn ==
  ASSUME NEW t, IsTurn(t)
  PROVE /\ IsTurn(Ended(t)) /\ Ended(t).leg = "over"
        /\ Ended(t).calls = t.calls /\ Ended(t).retries = t.retries
        /\ Ended(t).bot = t.bot /\ Ended(t).ticket = t.ticket
        /\ t.bot = "verified" => Ended(t).token = t.token
BY DEF Ended, IsTurn, TurnFields

(* And when it is over with an answer. *)
AnsweredWith(e, t, x) ==
  /\ IsTurn(e) /\ e.leg = t.leg /\ e.calls = t.calls /\ e.retries = t.retries
  /\ e.bot = t.bot /\ e.ticket = t.ticket /\ e.token = t.token /\ e.answer = x

LEMMA AnsweredTurn ==
  ASSUME NEW t, IsTurn(t), NEW x, NEW y
  PROVE /\ AnsweredWith([t EXCEPT !.answer = x], t, x)
        /\ AnsweredWith([t EXCEPT !.said = y, !.answer = x], t, x)
        /\ AnsweredWith([t EXCEPT !.answer = x, !.asked = y], t, x)
BY DEF IsTurn, TurnFields, AnsweredWith

LEMMA TurnedDownActs ==
  ASSUME TurnsTyped, NEW r \in Requests, InLeg(r, "body") \/ InLeg(r, "bot"),
         NEW reason, SpentNothing(r, reason),
         turn' = [turn EXCEPT ![r] = Ended(@)],
         used \subseteq used', UNCHANGED <<penaltiesOk, spent, audio>>
  PROVE Acts(r)
<1>1. IsTurn(turn[r]) /\ DOMAIN penaltiesOk' = Isolates /\ DOMAIN spent' = Isolates
  BY DEF TurnsTyped
<1>2. PICK e : e = Ended(turn[r])
  OBVIOUS
<1>3. /\ IsTurn(e) /\ e.leg = "over" /\ e.calls = turn[r].calls
      /\ e.retries = turn[r].retries /\ e.bot = turn[r].bot
  BY <1>1, <1>2, EndedTurn
<1>4. TurnsTyped' /\ OthersWait(r) /\ turn'[r] = e
  BY <1>1, <1>2, <1>3, TurnPlaced
<1> QED
  BY <1>3, <1>4 DEF Acts, Frame, TurnedDown, SameCalls, KeepsSpent

LEMMA BlockTextActs ==
  ASSUME TurnsTyped, NEW r \in Requests, BlockText(r)
  PROVE Acts(r)
<1>1. /\ IsTurn(turn[r]) /\ DOMAIN penaltiesOk' = Isolates /\ DOMAIN spent' = Isolates
      /\ InLeg(r, "body") /\ SpentNothing(r, "blocked")
      /\ UNCHANGED <<penaltiesOk, spent, audio, used>>
  BY DEF TurnsTyped, BlockText
<1>2. PICK s, x : turn' = [turn EXCEPT ![r] = [Ended(@) EXCEPT !.said = s, !.answer = x]]
  BY DEF BlockText
<1>3. PICK d : d = Ended(turn[r])
  OBVIOUS
<1>4. PICK e : e = [d EXCEPT !.said = s, !.answer = x]
  OBVIOUS
<1>5. /\ IsTurn(d) /\ d.leg = "over" /\ d.calls = turn[r].calls
      /\ d.retries = turn[r].retries /\ d.bot = turn[r].bot
  BY <1>1, <1>3, EndedTurn
<1>6. /\ IsTurn(e) /\ e.leg = "over" /\ e.calls = turn[r].calls
      /\ e.retries = turn[r].retries /\ e.bot = turn[r].bot
  <2>1. AnsweredWith(e, d, x)
    BY <1>4, <1>5, AnsweredTurn
  <2> QED
    BY <1>5, <2>1 DEF AnsweredWith
<1>7. TurnsTyped' /\ OthersWait(r) /\ turn'[r] = e
  BY <1>1, <1>2, <1>3, <1>4, <1>6, TurnPlaced
<1> QED
  BY <1>1, <1>6, <1>7 DEF Acts, Frame, TurnedDown, SameCalls, KeepsSpent

ReadFrom(e, t, leg) ==
  /\ IsTurn(e) /\ e.leg = leg /\ e.calls = t.calls /\ e.retries = t.retries /\ e.bot = t.bot

LEMMA ReadsOnActs ==
  ASSUME TurnsTyped, NEW r \in Requests, ReadChat(r) \/ ReadAudio(r)
  PROVE Acts(r)
<1>1. /\ IsTurn(turn[r]) /\ DOMAIN penaltiesOk' = Isolates /\ DOMAIN spent' = Isolates
      /\ InLeg(r, "body") /\ RouteOf[r] # "speech"
      /\ UNCHANGED <<penaltiesOk, spent, audio, used>> /\ UNCHANGED admissionVars
  BY DEF TurnsTyped, ReadChat, ReadAudio
<1>2. PICK leg : leg = NextLegAfterBody
  OBVIOUS
<1>4. PICK e : turn' = [turn EXCEPT ![r] = e] /\ ReadFrom(e, turn[r], leg)
  <2>1. CASE ReadChat(r)
    <3>1. PICK s \in DOMAIN Sayings, c \in contexts \union {Nobody}, k \in Tokens \union {Nobody} :
             turn' = [turn EXCEPT ![r] = [@ EXCEPT !.leg = NextLegAfterBody, !.said = s,
                        !.history = HistoryOf(c), !.token = k]]
      BY <2>1 DEF ReadChat
    <3>2. PICK h : h = HistoryOf(c)
      OBVIOUS
    <3>3. PICK e : e = [turn[r] EXCEPT !.leg = leg, !.said = s, !.history = h, !.token = k]
      OBVIOUS
    <3>4. turn' = [turn EXCEPT ![r] = e]
      BY <1>2, <3>1, <3>2, <3>3
    <3>5. ReadFrom(e, turn[r], leg)
      BY <1>1, <3>3 DEF IsTurn, TurnFields, ReadFrom
    <3> QED
      BY <3>4, <3>5
  <2>2. CASE ReadAudio(r)
    <3>1. PICK c \in Clips, k \in Tokens \union {Nobody} :
             turn' = [turn EXCEPT ![r] = [@ EXCEPT !.leg = NextLegAfterBody, !.clip = c, !.token = k]]
      BY <2>2 DEF ReadAudio
    <3>2. PICK e : e = [turn[r] EXCEPT !.leg = leg, !.clip = c, !.token = k]
      OBVIOUS
    <3>3. turn' = [turn EXCEPT ![r] = e]
      BY <1>2, <3>1, <3>2
    <3>4. ReadFrom(e, turn[r], leg)
      BY <1>1, <3>2 DEF IsTurn, TurnFields, ReadFrom
    <3> QED
      BY <3>3, <3>4
  <2> QED
    BY <2>1, <2>2
<1>5. /\ IsTurn(e) /\ e.leg = leg /\ e.calls = turn[r].calls
      /\ e.retries = turn[r].retries /\ e.bot = turn[r].bot
  BY <1>4 DEF ReadFrom
<1>6. TurnsTyped' /\ OthersWait(r) /\ turn'[r] = e
  BY <1>1, <1>4, <1>5, TurnPlaced
<1> QED
  BY <1>1, <1>2, <1>5, <1>6 DEF Acts, Frame, ReadsOn, SameCalls, KeepsSpent

LEMMA RedeemActs ==
  ASSUME TurnsTyped, NEW r \in Requests, Redeem(r)
  PROVE Acts(r)
<1>1. /\ IsTurn(turn[r]) /\ DOMAIN penaltiesOk' = Isolates
      /\ InLeg(r, "body") /\ turn[r].leg = "body" /\ RouteOf[r] = "speech"
      /\ UNCHANGED <<penaltiesOk, audio, used>> /\ UNCHANGED admissionVars
  BY DEF TurnsTyped, Redeem, InLeg
<1>2. PICK t \in tickets :
        /\ RefusalOfTicket(t, IsolateOf[r]) = "none"
        /\ MarkSpent(IsolateOf[r], t)
        /\ turn' = [turn EXCEPT ![r] =
              IF TtsCache THEN [@ EXCEPT !.ticket = t, !.leg = "cache"]
              ELSE [Calling(@, "call", BuildSpeechBody(t.words)) EXCEPT !.ticket = t]]
  BY DEF Redeem
<1>3. t \notin spent[IsolateOf[r]]
  BY <1>2 DEF RefusalOfTicket
<1>4. DOMAIN spent' = Isolates
  BY <1>2 DEF MarkSpent, TurnsTyped
<1>5. PICK asked : asked = BuildSpeechBody(t.words)
  OBVIOUS
<1>6. PICK e : e = IF TtsCache THEN [turn[r] EXCEPT !.ticket = t, !.leg = "cache"]
                   ELSE [Calling(turn[r], "call", asked) EXCEPT !.ticket = t]
  OBVIOUS
<1>7. /\ IsTurn(e) /\ e.ticket = t /\ e.retries = turn[r].retries
      /\ e.bot = turn[r].bot /\ e.token = turn[r].token
      /\ \/ e.leg = "cache" /\ e.calls = turn[r].calls
         \/ e.leg = "call" /\ e.calls = turn[r].calls + 1
  BY <1>1, <1>6 DEF IsTurn, TurnFields, Calling
<1>8. turn' = [turn EXCEPT ![r] = e]
  BY <1>2, <1>5, <1>6
<1>9. TurnsTyped' /\ OthersWait(r) /\ turn'[r] = e
  BY <1>1, <1>4, <1>7, <1>8, TurnPlaced
<1> QED
  BY <1>1, <1>2, <1>3, <1>7, <1>9 DEF Acts, Frame, Redeems, OneCallMore, SameProof

(* Cloudflare is asked: a yes is one nobody had before, for this route; no *)
(* trouble is a yes.                                                       *)
LEMMA VerdictIsNew ==
  ASSUME NEW r \in Requests, NEW says \in Troubles \union {CloudflareSays(r)},
         OutcomeOfVerify(r, says) = "verified", AskCloudflare(r, says)
  PROVE /\ turn[r].token \notin used /\ turn[r].token \in used'
        /\ WidgetOf[turn[r].token].action = RouteOf[r]
<1>1. CheckVerdict(r, says) = "verified"
  BY DEF OutcomeOfVerify
<1>2. says.success /\ says.action = RouteOf[r]
  BY <1>1 DEF CheckVerdict, ActionFor
<1>3. says \notin Troubles
  BY <1>2, RoutesAssumption
<1>4. says = CloudflareSays(r)
  BY <1>3
<1>5. /\ CloudflareSays(r).success = (turn[r].token \notin used)
      /\ CloudflareSays(r).action = WidgetOf[turn[r].token].action
  BY DEF CloudflareSays
<1> QED
  BY <1>2, <1>3, <1>4, <1>5 DEF AskCloudflare

LEMMA VerifyActs ==
  ASSUME TurnsTyped, NEW r \in Requests, Verify(r)
  PROVE Acts(r)
<1>1. /\ IsTurn(turn[r]) /\ DOMAIN penaltiesOk' = Isolates /\ DOMAIN spent' = Isolates
      /\ InLeg(r, "bot") /\ UNCHANGED <<penaltiesOk, spent, audio>>
  BY DEF TurnsTyped, Verify
<1>2. PICK says \in Troubles \union {CloudflareSays(r)} :
        LET outcome == OutcomeOfVerify(r, says) IN
        /\ AskCloudflare(r, says)
        /\ IF outcome \in {"verified", "unreachable"}
           THEN /\ turn' = [turn EXCEPT ![r] = [@ EXCEPT !.leg = "ready", !.bot = outcome]]
                /\ UNCHANGED admissionVars
           ELSE /\ SpentNothing(r, IF outcome = "failed" THEN "turnstile_failed"
                                   ELSE "turnstile_misconfigured")
                /\ turn' = [turn EXCEPT ![r] = Ended(@)]
  BY DEF Verify
<1>3. used \subseteq used'
  BY <1>2 DEF AskCloudflare
<1>4. PICK outcome : outcome = OutcomeOfVerify(r, says)
  OBVIOUS
<1>5. CASE outcome \in {"verified", "unreachable"}
  <2>1. PICK e : e = [turn[r] EXCEPT !.leg = "ready", !.bot = outcome]
    OBVIOUS
  <2>2. /\ IsTurn(e) /\ e.leg = "ready" /\ e.bot = outcome /\ e.token = turn[r].token
        /\ e.calls = turn[r].calls /\ e.retries = turn[r].retries
    BY <1>1, <2>1 DEF IsTurn, TurnFields
  <2>3. turn' = [turn EXCEPT ![r] = e] /\ UNCHANGED admissionVars
    BY <1>2, <1>4, <1>5, <2>1
  <2>4. TurnsTyped' /\ OthersWait(r) /\ turn'[r] = e
    BY <1>1, <2>2, <2>3, TurnPlaced
  <2>5. outcome = "verified" =>
          /\ turn[r].token \notin used /\ turn[r].token \in used'
          /\ WidgetOf[turn[r].token].action = RouteOf[r]
    BY <1>2, <1>4, VerdictIsNew
  <2> QED
    BY <1>1, <1>3, <1>5, <2>2, <2>3, <2>4, <2>5 DEF Acts, Frame, Passes, SameCalls, KeepsSpent
<1>6. CASE outcome \notin {"verified", "unreachable"}
  <2>1. /\ \E reason : SpentNothing(r, reason)
        /\ turn' = [turn EXCEPT ![r] = Ended(@)]
    BY <1>2, <1>4, <1>6
  <2> QED
    BY <1>1, <1>3, <2>1, TurnedDownActs
<1> QED
  BY <1>5, <1>6

(* One call more of a turn. *)
CalledFrom(e, t, leg) ==
  /\ IsTurn(e) /\ e.leg = leg /\ e.calls = t.calls + 1 /\ e.retries = t.retries
  /\ e.bot = t.bot /\ e.token = t.token /\ e.ticket = t.ticket

LEMMA CallingTurn ==
  ASSUME NEW t, IsTurn(t), NEW leg, NEW asked, NEW x
  PROVE /\ CalledFrom(Calling(t, leg, asked), t, leg)
        /\ CalledFrom([Calling(t, leg, asked) EXCEPT !.first = x], t, leg)
BY DEF IsTurn, TurnFields, Calling, CalledFrom

LEMMA CallsOutActs ==
  ASSUME TurnsTyped, NEW r \in Requests,
         (InLeg(r, "ready") /\ RouteOf[r] # "speech") \/ InLeg(r, "cache"),
         NEW asked, turn' = [turn EXCEPT ![r] = Calling(@, "call", asked)],
         UNCHANGED admissionVars, UNCHANGED <<penaltiesOk, spent, audio, used>>
  PROVE Acts(r)
<1>1. IsTurn(turn[r]) /\ DOMAIN penaltiesOk' = Isolates /\ DOMAIN spent' = Isolates
  BY DEF TurnsTyped
<1>2. PICK e : e = Calling(turn[r], "call", asked)
  OBVIOUS
<1>3. CalledFrom(e, turn[r], "call")
  BY <1>1, <1>2, CallingTurn
<1>4. TurnsTyped' /\ OthersWait(r) /\ turn'[r] = e
  BY <1>1, <1>2, <1>3, TurnPlaced DEF CalledFrom
<1> QED
  BY <1>3, <1>4 DEF CalledFrom, Acts, Frame, CallsOut, OneCallMore, SameProof, SameTicket, KeepsSpent

LEMMA FirstCallActs ==
  ASSUME TurnsTyped, NEW r \in Requests, CallChat(r) \/ CallEars(r)
  PROVE Acts(r)
<1>1. CASE CallChat(r)
  <2>1. PICK passage : turn' = [turn EXCEPT ![r] = Calling(@, "call", Asking(r, <<>>, passage))]
    BY <1>1 DEF CallChat
  <2>2. PICK asked : asked = Asking(r, <<>>, passage)
    OBVIOUS
  <2>3. turn' = [turn EXCEPT ![r] = Calling(@, "call", asked)]
    BY <2>1, <2>2
  <2> QED
    BY <1>1, <2>3, CallsOutActs DEF CallChat
<1>2. CASE CallEars(r)
  <2>1. PICK asked : asked = BuildTranscribeForm(turn[r].clip)
    OBVIOUS
  <2>2. turn' = [turn EXCEPT ![r] = Calling(@, "call", asked)]
    BY <1>2, <2>1 DEF CallEars
  <2> QED
    BY <1>2, <2>2, CallsOutActs DEF CallEars
<1> QED
  BY <1>1, <1>2

LEMMA RetryActs ==
  ASSUME TurnsTyped, NEW r \in Requests, RetryPlain(r)
  PROVE Acts(r)
<1>1. /\ IsTurn(turn[r]) /\ DOMAIN penaltiesOk' = Isolates /\ DOMAIN spent' = Isolates
      /\ InLeg(r, "call") \/ InLeg(r, "reroll")
      /\ penaltiesOk[IsolateOf[r]]
      /\ penaltiesOk' = [penaltiesOk EXCEPT ![IsolateOf[r]] = FALSE]
      /\ UNCHANGED <<spent, audio, used>> /\ UNCHANGED admissionVars
  BY DEF TurnsTyped, RetryPlain, MayRetry
<1>2. PICK e : e = Retrying(turn[r])
  OBVIOUS
<1>3. /\ IsTurn(e) /\ e.leg = turn[r].leg /\ e.calls = turn[r].calls + 1
      /\ e.retries = turn[r].retries + 1
      /\ e.bot = turn[r].bot /\ e.token = turn[r].token /\ e.ticket = turn[r].ticket
  BY <1>1, <1>2 DEF IsTurn, TurnFields, Retrying
<1>4. turn' = [turn EXCEPT ![r] = e]
  BY <1>2 DEF RetryPlain
<1>5. TurnsTyped' /\ OthersWait(r) /\ turn'[r] = e
  BY <1>1, <1>3, <1>4, TurnPlaced
<1> QED
  BY <1>1, <1>3, <1>5 DEF Acts, Frame, CallsAgain, OneCallMore, SameProof, SameTicket

(* A turn that ends, with an answer or with a reason. *)
EndedFrom(e, t) ==
  /\ IsTurn(e) /\ e.leg = "over" /\ e.calls = t.calls /\ e.retries = t.retries
  /\ e.bot = t.bot /\ e.ticket = t.ticket
  /\ t.bot = "verified" => e.token = t.token

LEMMA EndedFromThere ==
  ASSUME NEW t, IsTurn(t), NEW x, NEW y
  PROVE /\ EndedFrom(Ended(t), t)
        /\ EndedFrom([Ended(t) EXCEPT !.answer = x], t)
        /\ [Ended(t) EXCEPT !.answer = x].answer = x
        /\ EndedFrom([Ended(t) EXCEPT !.answer = x, !.asked = y], t)
<1>1. PICK d : d = Ended(t)
  OBVIOUS
<1>2. /\ IsTurn(d) /\ d.leg = "over" /\ d.calls = t.calls /\ d.retries = t.retries
      /\ d.bot = t.bot /\ d.ticket = t.ticket
      /\ t.bot = "verified" => d.token = t.token
  BY <1>1, EndedTurn
<1>3. /\ AnsweredWith([d EXCEPT !.answer = x], d, x)
      /\ AnsweredWith([d EXCEPT !.answer = x, !.asked = y], d, x)
  BY <1>2, AnsweredTurn
<1>4. EndedFrom(d, t)
  BY <1>2 DEF EndedFrom
<1>5. EndedFrom([d EXCEPT !.answer = x], t) /\ [d EXCEPT !.answer = x].answer = x
  BY <1>2, <1>3 DEF EndedFrom, AnsweredWith
<1>6. EndedFrom([d EXCEPT !.answer = x, !.asked = y], t)
  BY <1>2, <1>3 DEF EndedFrom, AnsweredWith
<1> QED
  BY <1>1, <1>4, <1>5, <1>6

LEMMA EndsActs ==
  ASSUME TurnsTyped, NEW r \in Requests,
         InLeg(r, "call") \/ InLeg(r, "reroll") \/ InLeg(r, "cache") \/ InLeg(r, "store"),
         NEW reason, Release(r, reason),
         NEW e, EndedFrom(e, turn[r]), turn' = [turn EXCEPT ![r] = e],
         turn[r].leg = "cache" => e.answer \in audio,
         audio \subseteq audio', UNCHANGED <<penaltiesOk, spent, used>>
  PROVE Acts(r)
<1>1. DOMAIN penaltiesOk' = Isolates /\ DOMAIN spent' = Isolates
  BY DEF TurnsTyped
<1>2. TurnsTyped' /\ OthersWait(r) /\ turn'[r] = e
  BY <1>1, TurnPlaced DEF EndedFrom
<1> QED
  BY <1>2 DEF EndedFrom, Acts, Frame, Ends, SameCalls, SameTicket, KeepsSpent

(* The voice of a ticket is played. *)
LEMMA SpokenActs ==
  ASSUME TurnsTyped, NEW r \in Requests, Spoken(r),
         InLeg(r, "call") \/ InLeg(r, "cache") \/ InLeg(r, "store"),
         turn[r].leg = "cache" => Voice(turn[r].ticket) \in audio,
         audio \subseteq audio', UNCHANGED <<penaltiesOk, spent, used>>
  PROVE Acts(r)
<1>1. PICK x : x = Voice(turn[r].ticket)
  OBVIOUS
<1>2. PICK e : e = [Ended(turn[r]) EXCEPT !.answer = x]
  OBVIOUS
<1>3. EndedFrom(e, turn[r]) /\ e.answer = x
  BY <1>2, EndedFromThere DEF TurnsTyped
<1>4. Release(r, "none") /\ turn' = [turn EXCEPT ![r] = e]
  BY <1>1, <1>2 DEF Spoken
<1> QED
  BY <1>1, <1>3, <1>4, EndsActs

LEMMA GatewayFailsActs ==
  ASSUME TurnsTyped, NEW r \in Requests, GatewayFails(r)
  PROVE Acts(r)
<1>1. PICK reason : Done(r, reason)
  BY DEF GatewayFails
<1>2. PICK e : e = Ended(turn[r])
  OBVIOUS
<1>3. EndedFrom(e, turn[r])
  BY <1>2, EndedFromThere DEF TurnsTyped
<1>4. turn' = [turn EXCEPT ![r] = e] /\ Release(r, reason)
  BY <1>1, <1>2 DEF Done
<1>5. InLeg(r, "call") /\ UNCHANGED <<penaltiesOk, spent, audio, used>>
  BY DEF GatewayFails
<1> QED
  BY <1>3, <1>4, <1>5, EndsActs DEF InLeg

LEMMA ReplyActs ==
  ASSUME TurnsTyped, NEW r \in Requests, InLeg(r, "call") \/ InLeg(r, "reroll"),
         NEW line, NEW asked, Reply(r, line, asked)
  PROVE Acts(r)
<1>1. PICK x : x = Message(line, turn[r].said, turn[r].asked.passage)
  OBVIOUS
<1>2. PICK e : e = [Ended(turn[r]) EXCEPT !.answer = x, !.asked = asked]
  OBVIOUS
<1>3. EndedFrom(e, turn[r])
  BY <1>2, EndedFromThere DEF TurnsTyped
<1>4. /\ turn' = [turn EXCEPT ![r] = e] /\ Release(r, "none")
      /\ UNCHANGED <<penaltiesOk, spent, audio, used>>
  BY <1>1, <1>2 DEF Reply
<1> QED
  BY <1>3, <1>4, EndsActs DEF InLeg

LEMMA FirstReplyActs ==
  ASSUME TurnsTyped, NEW r \in Requests, FirstReply(r)
  PROVE Acts(r)
<1>1. RouteOf[r] = "chat" /\ InLeg(r, "call") /\ IsTurn(turn[r])
  BY DEF FirstReply, TurnsTyped
<1>2. PICK line \in Servings :
        \/ Reply(r, line, turn[r].asked)
        \/ /\ ChargeExtra(r)
           /\ turn' = [turn EXCEPT ![r] =
                 [Calling(@, "reroll", Asking(r, line.text, turn[r].asked.passage))
                  EXCEPT !.first = [line |-> line, asked |-> turn[r].asked]]]
           /\ UNCHANGED <<penaltiesOk, spent, audio, used>>
  BY DEF FirstReply
<1>3. CASE Reply(r, line, turn[r].asked)
  BY <1>1, <1>3, ReplyActs
<1>4. ASSUME ChargeExtra(r),
             turn' = [turn EXCEPT ![r] =
                 [Calling(@, "reroll", Asking(r, line.text, turn[r].asked.passage))
                  EXCEPT !.first = [line |-> line, asked |-> turn[r].asked]]],
             UNCHANGED <<penaltiesOk, spent, audio, used>>
      PROVE Acts(r)
  <2>1. PICK asked : asked = Asking(r, line.text, turn[r].asked.passage)
    OBVIOUS
  <2>2. PICK x : x = [line |-> line, asked |-> turn[r].asked]
    OBVIOUS
  <2>3. PICK e : e = [Calling(turn[r], "reroll", asked) EXCEPT !.first = x]
    OBVIOUS
  <2>4. CalledFrom(e, turn[r], "reroll")
    BY <1>1, <2>3, CallingTurn
  <2>5. turn' = [turn EXCEPT ![r] = e]
    BY <1>4, <2>1, <2>2, <2>3
  <2>6. DOMAIN penaltiesOk' = Isolates /\ DOMAIN spent' = Isolates
    BY <1>4 DEF TurnsTyped
  <2>7. TurnsTyped' /\ OthersWait(r) /\ turn'[r] = e
    BY <2>4, <2>5, <2>6, TurnPlaced DEF CalledFrom
  <2> QED
    BY <1>1, <1>4, <2>4, <2>7
       DEF CalledFrom, Acts, Frame, Rerolls, OneCallMore, SameProof, SameTicket, KeepsSpent
<1> QED
  BY <1>2, <1>3, <1>4

LEMMA SecondReplyActs ==
  ASSUME TurnsTyped, NEW r \in Requests, SecondReply(r)
  PROVE Acts(r)
<1>1. InLeg(r, "reroll")
  BY DEF SecondReply
<1>2. PICK kept : Reply(r, kept.line, kept.asked)
  BY DEF SecondReply
<1> QED
  BY <1>1, <1>2, ReplyActs

LEMMA VoiceActs ==
  ASSUME TurnsTyped, NEW r \in Requests, CacheAnswers(r) \/ Synthesised(r) \/ StoreOver(r)
  PROVE Acts(r)
<1>1. CASE CacheAnswers(r)
  <2>1. InLeg(r, "cache") /\ UNCHANGED <<penaltiesOk, spent, audio, used>>
    BY <1>1 DEF CacheAnswers
  <2>2. CASE Voice(turn[r].ticket) \in audio /\ Spoken(r)
    BY <2>1, <2>2, SpokenActs
  <2>3. CASE /\ turn' = [turn EXCEPT ![r] =
                           Calling(@, "call", BuildSpeechBody(Voice(turn[r].ticket)))]
             /\ UNCHANGED admissionVars
    <3>1. PICK asked : asked = BuildSpeechBody(Voice(turn[r].ticket))
      OBVIOUS
    <3>2. turn' = [turn EXCEPT ![r] = Calling(@, "call", asked)]
      BY <2>3, <3>1
    <3> QED
      BY <2>1, <2>3, <3>2, CallsOutActs
  <2> QED
    BY <1>1, <2>2, <2>3 DEF CacheAnswers
<1>2. CASE Synthesised(r)
  <2>1. /\ RouteOf[r] = "speech" /\ InLeg(r, "call") /\ UNCHANGED <<penaltiesOk, spent, audio, used>>
        /\ IsTurn(turn[r]) /\ DOMAIN penaltiesOk' = Isolates /\ DOMAIN spent' = Isolates
    BY <1>2 DEF Synthesised, TurnsTyped
  <2>2. CASE Spoken(r)
    BY <2>1, <2>2, SpokenActs DEF InLeg
  <2>3. CASE turn' = [turn EXCEPT ![r].leg = "store"] /\ UNCHANGED admissionVars
    <3>1. PICK e : e = [turn[r] EXCEPT !.leg = "store"]
      OBVIOUS
    <3>2. /\ IsTurn(e) /\ e.leg = "store" /\ e.calls = turn[r].calls /\ e.retries = turn[r].retries
          /\ e.bot = turn[r].bot /\ e.token = turn[r].token /\ e.ticket = turn[r].ticket
      BY <2>1, <3>1 DEF IsTurn, TurnFields
    <3>3. turn' = [turn EXCEPT ![r] = e]
      BY <2>3, <3>1
    <3>4. TurnsTyped' /\ OthersWait(r) /\ turn'[r] = e
      BY <2>1, <3>2, <3>3, TurnPlaced
    <3> QED
      BY <2>1, <2>3, <3>2, <3>4
         DEF Acts, Frame, StoresVoice, SameCalls, SameProof, SameTicket, KeepsSpent
  <2> QED
    BY <1>2, <2>2, <2>3 DEF Synthesised
<1>3. CASE StoreOver(r)
  <2>1. InLeg(r, "store") /\ audio \subseteq audio' /\ Spoken(r) /\ UNCHANGED <<penaltiesOk, spent, used>>
    BY <1>3 DEF StoreOver
  <2> QED
    BY <2>1, SpokenActs DEF InLeg
<1> QED
  BY <1>1, <1>2, <1>3

LEMMA TranscribedActs ==
  ASSUME TurnsTyped, NEW r \in Requests, Transcribed(r)
  PROVE Acts(r)
<1>1. PICK reply \in Replies["transcribe"] :
        /\ Release(r, "none")
        /\ turn' = [turn EXCEPT ![r] = [Ended(@) EXCEPT !.answer = CleanTranscript(reply.content)]]
  BY DEF Transcribed
<1>2. PICK x : x = CleanTranscript(reply.content)
  OBVIOUS
<1>3. PICK e : e = [Ended(turn[r]) EXCEPT !.answer = x]
  OBVIOUS
<1>4. EndedFrom(e, turn[r])
  BY <1>3, EndedFromThere DEF TurnsTyped
<1>5. turn' = [turn EXCEPT ![r] = e]
  BY <1>1, <1>2, <1>3
<1>6. InLeg(r, "call") /\ UNCHANGED <<penaltiesOk, spent, audio, used>>
  BY DEF Transcribed
<1> QED
  BY <1>1, <1>4, <1>5, <1>6, EndsActs DEF InLeg

(* Every step of a route is one of the nine. *)
LEMMA RoutesAct ==
  ASSUME TurnsTyped, NEW r \in Requests, RouteAction(r)
  PROVE Acts(r)
<1>1. CASE RefuseBody(r)
  BY <1>1, TurnedDownActs DEF RefuseBody
<1>2. CASE RefuseText(r)
  BY <1>2, TurnedDownActs DEF RefuseText
<1>3. CASE RefuseClip(r)
  BY <1>3, TurnedDownActs DEF RefuseClip
<1>4. CASE RefuseTicket(r)
  BY <1>4, TurnedDownActs DEF RefuseTicket
<1>5. CASE NoToken(r)
  BY <1>5, TurnedDownActs DEF NoToken
<1> QED
  BY <1>1, <1>2, <1>3, <1>4, <1>5, BlockTextActs, ReadsOnActs, RedeemActs, VerifyActs,
     FirstCallActs, GatewayFailsActs, RetryActs, FirstReplyActs, SecondReplyActs, VoiceActs,
     TranscribedActs DEF RouteAction

(* A route that is not open ends before anything else happened to it. *)
LEMMA UnreadyTurn ==
  ASSUME TurnsTyped, NEW r \in Requests, RefuseUnready(r)
  PROVE Frame(r) /\ EndedFrom(turn'[r], turn[r]) /\ used' = used /\ audio' = audio /\ KeepsSpent
<1>1. PICK e : e = Ended(turn[r])
  OBVIOUS
<1>2. EndedFrom(e, turn[r])
  BY <1>1, EndedFromThere DEF TurnsTyped
<1>3. /\ turn' = [turn EXCEPT ![r] = e] /\ UNCHANGED <<penaltiesOk, spent, audio, used>>
      /\ DOMAIN penaltiesOk' = Isolates /\ DOMAIN spent' = Isolates
  BY <1>1 DEF RefuseUnready, TurnsTyped
<1>4. TurnsTyped' /\ OthersWait(r) /\ turn'[r] = e
  BY <1>2, <1>3, TurnPlaced DEF EndedFrom
<1> QED
  BY <1>2, <1>3, <1>4 DEF Frame, KeepsSpent

-----------------------------------------------------------------------------
(* The bot control                                                          *)

LEMMA InitRoutesTyped == RoutesInit => TurnsTyped
BY DEF RoutesInit, TurnsTyped, IsTurn, TurnFields, Unread

(* What a verified request stays: the same token, or a token nobody used. *)
ProvenBefore(r) ==
  turn'[r].bot = "verified" =>
     \/ turn[r].bot = "verified" /\ turn'[r].token = turn[r].token
     \/ /\ turn'[r].token \notin used /\ turn'[r].token \in used'
        /\ WidgetOf[turn'[r].token].action = RouteOf[r]

LEMMA OwnToken ==
  ASSUME NEW r \in Requests, TokenOK(r), Acts(r)
  PROVE TokenOK(r)' /\ ProvenBefore(r)
<1> USE DEF InLeg, SameCalls, SameProof, OneCallMore
<1>0. used \subseteq used'
  BY DEF Acts, Frame
<1>1. CASE TurnedDown(r)
  BY <1>1 DEF TurnedDown, TokenOK, ProvenBefore
<1>2. CASE ReadsOn(r)
  BY <1>2 DEF ReadsOn, NextLegAfterBody, TokenOK, ProvenBefore
<1>3. CASE Redeems(r)
  BY <1>0, <1>3 DEF Redeems, TokenOK, ProvenBefore
<1>4. CASE Passes(r)
  BY <1>4 DEF Passes, TokenOK, ProvenBefore
<1>5. CASE CallsOut(r)
  BY <1>0, <1>5 DEF CallsOut, TokenOK, ProvenBefore
<1>6. CASE CallsAgain(r)
  BY <1>0, <1>6 DEF CallsAgain, TokenOK, ProvenBefore
<1>7. CASE Rerolls(r)
  BY <1>0, <1>7 DEF Rerolls, TokenOK, ProvenBefore
<1>8. CASE StoresVoice(r)
  BY <1>0, <1>8 DEF StoresVoice, TokenOK, ProvenBefore
<1>9. CASE Ends(r)
  BY <1>0, <1>9 DEF Ends, TokenOK, ProvenBefore
<1> QED
  BY <1>1, <1>2, <1>3, <1>4, <1>5, <1>6, <1>7, <1>8, <1>9 DEF Acts

LEMMA BotStep ==
  ASSUME BotInv, NEW r \in Requests, Frame(r), TokenOK(r)', ProvenBefore(r)
  PROVE BotInv'
<1>1. TurnsTyped' /\ \A p \in Requests : p # r => turn'[p] = turn[p]
  BY DEF Frame, OthersWait
<1>2. ASSUME NEW p \in Requests PROVE TokenOK(p)'
  <2>1. CASE p # r
    BY <1>1, <2>1 DEF BotInv, TokenOK, Frame
  <2> QED
    BY <2>1
<1>3. ASSUME NEW p \in Requests, NEW q \in Requests, p # q,
             turn'[p].bot = "verified", turn'[q].bot = "verified"
      PROVE turn'[p].token # turn'[q].token
  <2>1. \A x \in Requests : turn[x].bot = "verified" => turn[x].token \in used
    BY DEF BotInv, TokenOK
  <2>2. CASE p # r /\ q # r
    BY <1>1, <1>3, <2>2 DEF BotInv, TokensApart
  <2>3. CASE p = r /\ q # r
    BY <1>1, <1>3, <2>1, <2>3 DEF BotInv, TokensApart, ProvenBefore
  <2>4. CASE q = r /\ p # r
    BY <1>1, <1>3, <2>1, <2>4 DEF BotInv, TokensApart, ProvenBefore
  <2> QED
    BY <1>3, <2>2, <2>3, <2>4
<1> QED
  BY <1>1, <1>2, <1>3 DEF BotInv, TokensApart

LEMMA BotKept == BotInv /\ [RoutesNext]_vars => BotInv'
<1> SUFFICES ASSUME BotInv, [RoutesNext]_vars PROVE BotInv'
  OBVIOUS
<1>1. CASE UNCHANGED routeVars
  BY <1>1 DEF routeVars, BotInv, TurnsTyped, TokenOK, TokensApart
<1>2. ASSUME NEW r \in Requests, RouteAction(r) PROVE BotInv'
  BY <1>2, RoutesAct, OwnToken, BotStep DEF BotInv, Acts
<1>3. ASSUME NEW r \in Requests, RefuseUnready(r) PROVE BotInv'
  <2>1. Frame(r) /\ EndedFrom(turn'[r], turn[r])
    BY <1>3, UnreadyTurn DEF BotInv
  <2>2. TokenOK(r)' /\ ProvenBefore(r)
    BY <2>1 DEF BotInv, EndedFrom, TokenOK, ProvenBefore, Frame
  <2> QED
    BY <2>1, <2>2, BotStep
<1> QED
  BY <1>1, <1>2, <1>3 DEF RoutesNext, vars

(***************************************************************************)
(* Where the bot control is on (turnstile.js), no turn and no utterance    *)
(* reaches the gateway without a verdict or an unreachable Cloudflare, and *)
(* a token buys one request, of the route its widget was for: whatever     *)
(* requests of whatever isolates present it at the same time.              *)
(***************************************************************************)
THEOREM TokensBuyOneCall == RoutesSpec => []TokenBuysOneCall
<1>1. RoutesInit => BotInv
  <2> SUFFICES ASSUME RoutesInit PROVE BotInv
    OBVIOUS
  <2>1. \A r \in Requests : turn[r].leg = "body" /\ turn[r].bot = "none" /\ turn[r].calls = 0
    BY DEF RoutesInit, Unread
  <2> QED
    BY <2>1, InitRoutesTyped DEF BotInv, TokenOK, TokensApart
<1>2. BotInv => TokenBuysOneCall
  <2> SUFFICES ASSUME BotInv PROVE TokenBuysOneCall
    OBVIOUS
  <2>1. ASSUME NEW r \in Requests, Guarded, RouteOf[r] # "speech", turn[r].calls > 0
        PROVE turn[r].bot \in {"verified", "unreachable"}
    BY <2>1 DEF BotInv, TokenOK
  <2>2. ASSUME NEW r \in Requests, turn[r].bot = "verified"
        PROVE WidgetOf[turn[r].token].action = RouteOf[r]
    BY <2>2 DEF BotInv, TokenOK
  <2> QED
    BY <2>1, <2>2 DEF TokenBuysOneCall, BotInv, TokensApart
<1> QED
  BY <1>1, <1>2, BotKept, PTL DEF RoutesSpec

-----------------------------------------------------------------------------
(* What admission charges                                                   *)

(* After a step of admission its request waits, or has a slot, at the price *)
(* of one call, or is refused for nothing.                                  *)
AdmissionPays(r) ==
  /\ OthersStand(r)
  /\ req[r].pc \notin {"granted", "done"}
  /\ req'[r].pc # "new" /\ req'[r].refunded = FALSE
  /\ IF req'[r].pc = "done" THEN req'[r].times = 0 ELSE req'[r].times >= 1

(* A request that stands at pc, charged for n calls. *)
ChargedFor(q, pc, n) == q.pc = pc /\ q.times = n /\ q.refunded = FALSE

LEMMA NewcomersPay ==
  ASSUME now \in Nat, NEW r
  PROVE /\ \A reason : ChargedFor(Refused([Idle EXCEPT !.at = now], reason), "done", 0)
        /\ \A reason : ChargedFor(Refused([Arrived(r, "done") EXCEPT !.times = 0], reason), "done", 0)
        /\ \A pc : ChargedFor(Arrived(r, pc), pc, 1)
<1>1. \A reason : ChargedFor(Refused([Idle EXCEPT !.at = now], reason), "done", 0)
  BY DEF Refused, Idle, ChargedFor
<1>2. \A pc : ChargedFor(Arrived(r, pc), pc, 1)
  BY DEF Arrived, Idle, ChargedFor
<1>3. ASSUME NEW reason
      PROVE ChargedFor(Refused([Arrived(r, "done") EXCEPT !.times = 0], reason), "done", 0)
  <2>1. PICK a : a = Arrived(r, "done")
    OBVIOUS
  <2>2. IsRequest(a) /\ a.refunded = FALSE
    BY <1>2, <2>1, ArrivedIsThere DEF Stages, ChargedFor
  <2>3. PICK b : b = [a EXCEPT !.times = 0]
    OBVIOUS
  <2>4. IsRequest(b) /\ b.refunded = FALSE /\ b.times = 0
    BY <2>2, <2>3, Updates DEF IsRequest, FieldNames
  <2>5. ChargedFor(Refused(b, reason), "done", 0)
    BY <2>4, RefusedIsDone, RefusedKeeps DEF ChargedFor
  <2> QED
    BY <2>1, <2>3, <2>5
<1> QED
  BY <1>1, <1>2, <1>3

LEMMA AdmitPays ==
  ASSUME TypeInv, NEW r \in Requests, Admit(r)
  PROVE AdmissionPays(r)
<1>0. now \in Nat /\ req[r].pc = "new"
  BY LinesTyped DEF Admit
<1>1. ASSUME NEW q, req' = [req EXCEPT ![r] = q],
             ChargedFor(q, "done", 0) \/ ChargedFor(q, "queued", 1) \/ ChargedFor(q, FirstStage, 1)
      PROVE AdmissionPays(r)
  <2>1. OthersStand(r) /\ req'[r] = q
    BY <1>1, OneRecord
  <2> QED
    BY <1>0, <1>1, <2>1, StageNames DEF AdmissionPays, ChargedFor
<1>2. ASSUME NEW reason, req' = [req EXCEPT ![r] = Refused([Idle EXCEPT !.at = now], reason)]
      PROVE AdmissionPays(r)
  BY <1>0, <1>1, <1>2, NewcomersPay
<1>3. CASE ForbidOrigin(r)
  BY <1>2, <1>3 DEF ForbidOrigin
<1>4. CASE RefuseWindow(r)
  BY <1>2, <1>4 DEF RefuseWindow
<1>5. CASE RefuseFull(r)
  BY <1>2, <1>5 DEF RefuseFull
<1>6. CASE RefuseBudget(r)
  <2>1. PICK q : q = Refused([Arrived(r, "done") EXCEPT !.times = 0], "budget_exhausted")
    OBVIOUS
  <2>2. ChargedFor(q, "done", 0)
    BY <1>0, <2>1, NewcomersPay
  <2>3. req' = [req EXCEPT ![r] = q]
    BY <1>6, <2>1 DEF RefuseBudget
  <2> QED
    BY <1>1, <2>2, <2>3
<1>7. CASE TakeSlot(r)
  <2>1. PICK q : q = Arrived(r, FirstStage)
    OBVIOUS
  <2>2. ChargedFor(q, FirstStage, 1)
    BY <1>0, <2>1, NewcomersPay
  <2>3. req' = [req EXCEPT ![r] = q]
    BY <1>7, <2>1 DEF TakeSlot
  <2> QED
    BY <1>1, <2>2, <2>3
<1>8. CASE JoinQueue(r)
  <2>1. PICK q : q = Arrived(r, "queued")
    OBVIOUS
  <2>2. ChargedFor(q, "queued", 1)
    BY <1>0, <2>1, NewcomersPay
  <2>3. req' = [req EXCEPT ![r] = q]
    BY <1>8, <2>1 DEF JoinQueue
  <2> QED
    BY <1>1, <2>2, <2>3
<1> QED
  BY <1>3, <1>4, <1>5, <1>6, <1>7, <1>8 DEF Admit

(* A request that waits or asks the shared tier has paid for one call.      *)
HasPaid(r) == req[r].times >= 1 /\ req[r].refunded = FALSE

LEMMA ExpirePays ==
  ASSUME TypeInv, NEW r \in Requests, HasPaid(r), Expire(r)
  PROVE AdmissionPays(r)
<1>0. IsRequest(req[r]) /\ RequestsTyped /\ req[r].pc = "queued"
  BY DEF TypeInv, RequestsTyped, Expire
<1>1. PICK d : d = Refused([req[r] EXCEPT !.held = {}, !.times = 0], "at_capacity")
  OBVIOUS
<1>2. d.pc = "done" /\ d.times = 0 /\ d.refunded = FALSE
  BY <1>0, <1>1, GivenUp DEF HasPaid
<1>3. req' = [req EXCEPT ![r] = d]
  BY <1>0, <1>1 DEF Expire, RequestsTyped
<1>4. OthersStand(r) /\ req'[r] = d
  BY <1>3, OneRecord
<1> QED
  BY <1>0, <1>2, <1>4 DEF AdmissionPays

LEMMA SharedRefusePays ==
  ASSUME SlotInv, NEW r \in Requests, HasPaid(r), req[r].pc \notin {"queued", "granted", "done"},
         NEW reason, SharedRefuse(r, reason)
  PROVE AdmissionPays(r)
<1>0. IsRequest(req[r]) /\ RequestsTyped
  BY DEF SlotInv, TypeInv, RequestsTyped
<1>1. PICK d : d = Refused([req[r] EXCEPT !.held = {}, !.times = 0], reason)
  OBVIOUS
<1>2. d.pc = "done" /\ d.times = 0 /\ d.refunded = FALSE
  BY <1>0, <1>1, GivenUp DEF HasPaid
<1>3. req' = WithHandOff([req EXCEPT ![r] = d], IsolateOf[r], RouteOf[r])
  BY <1>0, <1>1 DEF SharedRefuse, RequestsTyped
<1>4. OthersStand(r) /\ req'[r] = d
  BY <1>3, HandedRecord
<1> QED
  BY <1>2, <1>4 DEF AdmissionPays

LEMMA GoOnPays ==
  ASSUME TypeInv, NEW r \in Requests, req[r].pc \notin {"granted", "done"},
         NEW q, IsRequest(q), q.times >= 1, q.refunded = FALSE,
         NEW stages \in SUBSET CappedScales, NEW led, GoOn(r, q, stages, led)
  PROVE AdmissionPays(r)
<1>1. /\ OthersStand(r) /\ req'[r].pc \in {"granted", "hour", "day"}
      /\ req'[r].times = q.times /\ req'[r].refunded = q.refunded
  BY GoOnKeeps
<1> QED
  BY <1>1 DEF AdmissionPays

(* A stage that goes on to the next one. *)
LEMMA StagePays ==
  ASSUME TypeInv, NEW r \in Requests, HasPaid(r), req[r].pc \notin {"granted", "done"},
         NEW d, req' = [req EXCEPT ![r] = d], d.pc \notin {"new", "done"},
         d.times = req[r].times, d.refunded = req[r].refunded
  PROVE AdmissionPays(r)
<1>1. OthersStand(r) /\ req'[r] = d
  BY OneRecord
<1> QED
  BY <1>1 DEF AdmissionPays, HasPaid

LEMMA TierPays ==
  ASSUME SlotInv, NEW r \in Requests, HasPaid(r),
         ReadMinute(r) \/ ReadWide(r) \/ ReadBudget(r) \/ PutOver(r)
  PROVE AdmissionPays(r)
<1>0. TypeInv /\ RequestsTyped /\ IsRequest(req[r])
  BY DEF SlotInv, TypeInv, RequestsTyped
<1>1. req[r].pc \in {"minute", "wide", "hour", "day", "widePut", "minutePut", "hourPut", "dayPut"}
  BY DEF ReadMinute, ReadWide, ReadBudget, PutOver, BudgetScales
<1>2. req[r].pc \notin {"queued", "granted", "done"}
  BY <1>1
<1>3. ASSUME NEW reason, SharedRefuse(r, reason) PROVE AdmissionPays(r)
  BY <1>2, <1>3, SharedRefusePays
<1>4. ASSUME NEW stages \in SUBSET CappedScales, NEW led, GoOn(r, req[r], stages, led)
      PROVE AdmissionPays(r)
  BY <1>0, <1>2, <1>4, GoOnPays DEF HasPaid
<1>5. ASSUME NEW stages \in SUBSET CappedScales, NEW led,
             GoOn(r, [req[r] EXCEPT !.used = 0], stages, led)
      PROVE AdmissionPays(r)
  <2>1. PICK q : q = [req[r] EXCEPT !.used = 0]
    OBVIOUS
  <2>2. IsRequest(q) /\ q.times = req[r].times /\ q.refunded = req[r].refunded
    BY <1>0, <2>1, Updates DEF IsRequest, FieldNames
  <2> QED
    BY <1>0, <1>2, <1>5, <2>1, <2>2, GoOnPays DEF HasPaid
<1>6. CASE ReadMinute(r)
  <2>1. \/ GoOn(r, req[r], CappedScales, ledger)
        \/ SharedRefuse(r, "rate_limited")
        \/ \E seen : req' = [req EXCEPT ![r].pc = "wide", ![r].used = seen]
    BY <1>6 DEF ReadMinute
  <2>2. ASSUME NEW seen, req' = [req EXCEPT ![r].pc = "wide", ![r].used = seen]
        PROVE AdmissionPays(r)
    <3>1. PICK d : d = [req[r] EXCEPT !.pc = "wide", !.used = seen]
      OBVIOUS
    <3>2. d.pc = "wide" /\ d.times = req[r].times /\ d.refunded = req[r].refunded
      BY <1>0, <3>1 DEF IsRequest, FieldNames
    <3>3. req' = [req EXCEPT ![r] = d]
      BY <1>0, <2>2, <3>1 DEF RequestsTyped
    <3> QED
      BY <1>0, <1>2, <3>2, <3>3, StagePays
  <2> QED
    BY <1>3, <1>4, <2>1, <2>2
<1>7. CASE ReadWide(r)
  <2>1. \/ req' = [req EXCEPT ![r].pc = "minutePut", ![r].counted = TRUE]
        \/ SharedRefuse(r, "rate_limited")
        \/ \E next : req' = [req EXCEPT ![r].pc = "widePut", ![r].counted = TRUE, ![r].next = next]
    BY <1>7 DEF ReadWide
  <2>2. CASE req' = [req EXCEPT ![r].pc = "minutePut", ![r].counted = TRUE]
    <3>1. PICK d : d = [req[r] EXCEPT !.pc = "minutePut", !.counted = TRUE]
      OBVIOUS
    <3>2. d.pc = "minutePut" /\ d.times = req[r].times /\ d.refunded = req[r].refunded
      BY <1>0, <3>1 DEF IsRequest, FieldNames
    <3>3. req' = [req EXCEPT ![r] = d]
      BY <1>0, <2>2, <3>1 DEF RequestsTyped
    <3> QED
      BY <1>0, <1>2, <3>2, <3>3, StagePays
  <2>3. ASSUME NEW next,
               req' = [req EXCEPT ![r].pc = "widePut", ![r].counted = TRUE, ![r].next = next]
        PROVE AdmissionPays(r)
    <3>1. PICK d : d = [req[r] EXCEPT !.pc = "widePut", !.counted = TRUE, !.next = next]
      OBVIOUS
    <3>2. d.pc = "widePut" /\ d.times = req[r].times /\ d.refunded = req[r].refunded
      BY <1>0, <3>1 DEF IsRequest, FieldNames
    <3>3. req' = [req EXCEPT ![r] = d]
      BY <1>0, <2>3, <3>1 DEF RequestsTyped
    <3> QED
      BY <1>0, <1>2, <3>2, <3>3, StagePays
  <2> QED
    BY <1>3, <2>1, <2>2, <2>3
<1>8. CASE ReadBudget(r)
  <2>1. PICK s \in BudgetScales :
          \/ \E stages \in SUBSET CappedScales : GoOn(r, req[r], stages, ledger)
          \/ SharedRefuse(r, "budget_exhausted")
          \/ \E seen : req' = [req EXCEPT ![r].pc = PutStage[s], ![r].used = seen]
    BY <1>8 DEF ReadBudget
  <2>2. ASSUME NEW seen, req' = [req EXCEPT ![r].pc = PutStage[s], ![r].used = seen]
        PROVE AdmissionPays(r)
    <3>0. PICK pc : pc = PutStage[s] /\ pc \in {"hourPut", "dayPut"}
      BY DEF PutStage, BudgetScales
    <3>1. PICK d : d = [req[r] EXCEPT !.pc = pc, !.used = seen]
      OBVIOUS
    <3>2. d.pc = pc /\ d.times = req[r].times /\ d.refunded = req[r].refunded
      BY <1>0, <3>1 DEF IsRequest, FieldNames
    <3>3. req' = [req EXCEPT ![r] = d]
      BY <1>0, <2>2, <3>0, <3>1 DEF RequestsTyped
    <3> QED
      BY <1>0, <1>2, <3>0, <3>2, <3>3, StagePays
  <2> QED
    BY <1>3, <1>4, <2>1, <2>2
<1>9. CASE PutOver(r)
  <2>1. \/ req' = [req EXCEPT ![r].pc = "minutePut", ![r].next = NoWide]
        \/ \E stages \in SUBSET CappedScales : \E led :
              GoOn(r, [req[r] EXCEPT !.used = 0], stages, led)
    BY <1>9 DEF PutOver
  <2>2. CASE req' = [req EXCEPT ![r].pc = "minutePut", ![r].next = NoWide]
    <3>1. PICK d : d = [req[r] EXCEPT !.pc = "minutePut", !.next = NoWide]
      OBVIOUS
    <3>2. d.pc = "minutePut" /\ d.times = req[r].times /\ d.refunded = req[r].refunded
      BY <1>0, <3>1 DEF IsRequest, FieldNames
    <3>3. req' = [req EXCEPT ![r] = d]
      BY <1>0, <2>2, <3>1 DEF RequestsTyped
    <3> QED
      BY <1>0, <1>2, <3>2, <3>3, StagePays
  <2> QED
    BY <1>5, <2>1, <2>2
<1> QED
  BY <1>6, <1>7, <1>8, <1>9

LEMMA AdmissionStepPays ==
  ASSUME SlotInv, NEW r \in Requests, ReqPaid(r), AdmissionStep(r)
  PROVE AdmissionPays(r)
<1>1. TypeInv
  BY DEF SlotInv
<1>2. CASE Admit(r)
  BY <1>1, <1>2, AdmitPays
<1>3. CASE Expire(r)
  <2>1. HasPaid(r)
    BY <1>3 DEF Expire, ReqPaid, HasPaid
  <2> QED
    BY <1>1, <1>3, <2>1, ExpirePays
<1>4. CASE ReadMinute(r) \/ ReadWide(r) \/ ReadBudget(r) \/ PutOver(r)
  <2>1. req[r].pc \in {"minute", "wide", "hour", "day", "widePut", "minutePut", "hourPut", "dayPut"}
    BY <1>4 DEF ReadMinute, ReadWide, ReadBudget, PutOver, BudgetScales
  <2>2. HasPaid(r)
    BY <2>1 DEF ReqPaid, HasPaid
  <2> QED
    BY <1>4, <2>2, TierPays
<1> QED
  BY <1>2, <1>3, <1>4 DEF AdmissionStep

-----------------------------------------------------------------------------
(* What a route makes of its request                                        *)

(* Its slot given back: nothing of the charge changes but what a refusal    *)
(* that spent nothing takes back.                                           *)
SlotGoes(r) == OthersStand(r) /\ req'[r].pc = "done"

LEMMA SpentNothingMoves ==
  ASSUME SlotInv, NEW r \in Requests, req[r].pc = "granted", NEW reason, SpentNothing(r, reason)
  PROVE /\ Moved /\ SlotGoes(r)
        /\ req'[r].refunded = TRUE /\ req'[r].times = 0
<1>0. TypeInv /\ RequestsTyped /\ CountersTyped /\ IsRequest(req[r]) /\ Inside(req[r].pc)
  BY DEF SlotInv, TypeInv, RequestsTyped, Inside
<1>1. PICK a : a = [req[r] EXCEPT !.pc = "done"]
  OBVIOUS
<1>2. PICK b : b = [a EXCEPT !.reason = reason]
  OBVIOUS
<1>3. PICK c : c = [b EXCEPT !.refunded = TRUE]
  OBVIOUS
<1>4. PICK d : d = [c EXCEPT !.times = 0]
  OBVIOUS
<1>5. IsRequest(a) /\ a.pc = "done"
  BY <1>0, <1>1, Updates DEF Stages
<1>6. IsRequest(b) /\ b.pc = "done"
  BY <1>2, <1>5, Updates
<1>7. IsRequest(c) /\ c.pc = "done" /\ c.refunded = TRUE
  <2>1. IsRequest(c) /\ c.pc = "done"
    BY <1>3, <1>6, Updates
  <2>2. c.refunded = TRUE
    BY <1>3, <1>6 DEF IsRequest, FieldNames
  <2> QED
    BY <2>1, <2>2
<1>8. IsRequest(d) /\ d.pc = "done" /\ d.refunded = TRUE /\ d.times = 0
  BY <1>4, <1>7, Updates DEF IsRequest, FieldNames
<1>9. /\ req' = WithHandOff([req EXCEPT ![r] = d], IsolateOf[r], RouteOf[r])
      /\ HandOffOrRelease(IsolateOf[r], RouteOf[r]) /\ RefundUnits(r)
      /\ UNCHANGED <<now, windows, ledger, entry, stray>>
  BY <1>0, <1>1, <1>2, <1>3, <1>4 DEF SpentNothing, RequestsTyped
<1>10. /\ inflight' \in [Isolates -> [Routes -> Nat]]
       /\ waiters' \in [Isolates -> [Routes -> Seq(Requests)]]
       /\ RequestsTyped' /\ OnLane(r)
  BY <1>0, <1>8, <1>9, HandOffTypes
<1>11. CountersTyped'
  BY <1>0, <1>9, RefundsKeepBags
<1>12. Moved
  BY <1>0, <1>9, <1>10, <1>11 DEF Moved, TypeInv, CacheTyped
<1>13. OthersStand(r) /\ req'[r] = d
  BY <1>9, HandedRecord
<1> QED
  BY <1>8, <1>12, <1>13 DEF SlotGoes

LEMMA ReleaseMoves ==
  ASSUME SlotInv, NEW r \in Requests, NEW reason, Release(r, reason)
  PROVE /\ Moved /\ SlotGoes(r)
        /\ req'[r].refunded = req[r].refunded /\ req'[r].times = req[r].times
<1>0. TypeInv /\ RequestsTyped /\ IsRequest(req[r]) /\ req[r].pc = "granted"
  BY DEF SlotInv, TypeInv, RequestsTyped, Release
<1>1. PICK a : a = [req[r] EXCEPT !.pc = "done"]
  OBVIOUS
<1>2. PICK d : d = [a EXCEPT !.reason = reason]
  OBVIOUS
<1>3. d.pc = "done" /\ d.refunded = req[r].refunded /\ d.times = req[r].times
  BY <1>0, <1>1, <1>2 DEF IsRequest, FieldNames
<1>4. req' = WithHandOff([req EXCEPT ![r] = d], IsolateOf[r], RouteOf[r])
  BY <1>0, <1>1, <1>2 DEF Release, RequestsTyped
<1>5. OthersStand(r) /\ req'[r] = d
  BY <1>0, <1>4, HandedRecord
<1> QED
  BY <1>0, <1>3, <1>5, ReleaseTypes DEF SlotGoes, Kept, Moved

LEMMA ChargeExtraMoves ==
  ASSUME SlotInv, NEW r \in Requests, ChargeExtra(r)
  PROVE /\ Moved /\ OthersStand(r) /\ req'[r].pc = "granted"
        /\ req'[r].refunded = req[r].refunded /\ req'[r].times = req[r].times + 1
<1>0. TypeInv /\ RequestsTyped /\ IsRequest(req[r]) /\ req[r].pc = "granted"
  BY DEF SlotInv, TypeInv, RequestsTyped, ChargeExtra
<1>1. PICK n : n = req[r].times + 1
  OBVIOUS
<1>2. PICK d : d = [req[r] EXCEPT !.times = n]
  OBVIOUS
<1>3. d.pc = "granted" /\ d.refunded = req[r].refunded /\ d.times = n
  BY <1>0, <1>2 DEF IsRequest, FieldNames
<1>4. req' = [req EXCEPT ![r] = d]
  BY <1>0, <1>1, <1>2 DEF ChargeExtra, RequestsTyped
<1>5. OthersStand(r) /\ req'[r] = d
  BY <1>0, <1>4, OneRecord
<1> QED
  BY <1>0, <1>1, <1>3, <1>5, ReliefTypes DEF Kept, Moved

LEMMA UnreadyMoves ==
  ASSUME SlotInv, NEW r \in Requests, RefuseUnready(r)
  PROVE /\ Moved /\ SlotGoes(r) /\ ~Open(RouteOf[r])
        /\ req'[r].refunded = FALSE /\ req'[r].times = 0
<1>0. TypeInv /\ RequestsTyped /\ now \in Nat /\ req[r].pc = "new"
  BY LinesTyped DEF SlotInv, TypeInv, RefuseUnready
<1>1. PICK a : a = [Idle EXCEPT !.at = now]
  OBVIOUS
<1>2. PICK d : d = Refused(a, "gateway_not_configured")
  OBVIOUS
<1>3. IsRequest(a)
  BY <1>0, <1>1, IdleIsARequest, Updates
<1>4. IsRequest(d) /\ d.pc = "done"
  BY <1>2, <1>3, RefusedIsDone
<1>5. d.times = 0 /\ d.refunded = FALSE
  BY <1>0, <1>1, <1>2, NewcomersPay DEF ChargedFor
<1>6. /\ req' = [req EXCEPT ![r] = d] /\ ~Open(RouteOf[r])
      /\ UNCHANGED <<now, windows, budget, ledger, inflight, waiters, entry, stray>>
  BY <1>1, <1>2 DEF RefuseUnready
<1>7. RequestsTyped' /\ Became(r, "done")
  BY <1>0, <1>4, <1>6, Placing
<1>8. Moved
  BY <1>0, <1>6, <1>7 DEF Moved, TypeInv, CountersTyped, CacheTyped, OnLane, TurnedAway
<1>9. OthersStand(r) /\ req'[r] = d
  BY <1>0, <1>6, OneRecord
<1> QED
  BY <1>4, <1>5, <1>6, <1>8, <1>9 DEF SlotGoes

-----------------------------------------------------------------------------
(* Every call is paid for                                                   *)

PenaltiesFall ==
  \A i \in Isolates : penaltiesOk[i] = FALSE => penaltiesOk'[i] = FALSE

(* A request nobody moves, or that is handed a slot, keeps its account.    *)
LEMMA OthersPaid ==
  ASSUME NEW p \in Requests, ReqPaid(p), TurnPaid(p), turn'[p] = turn[p],
         PenaltiesFall, audio \subseteq audio',
         \/ req'[p] = req[p]
         \/ /\ req[p].pc = "queued" /\ req'[p].pc = FirstStage
            /\ req'[p].times = req[p].times /\ req'[p].refunded = req[p].refunded
  PROVE ReqPaid(p)' /\ TurnPaid(p)'
<1>0. IsolateOf[p] \in Isolates /\ FirstStage \in {"minute", "granted"}
  BY RequestsAssumption, StageNames
<1>1. CASE req'[p] = req[p]
  BY <1>0, <1>1 DEF ReqPaid, TurnPaid, PenaltiesFall
<1>2. CASE /\ req[p].pc = "queued" /\ req'[p].pc = FirstStage
           /\ req'[p].times = req[p].times /\ req'[p].refunded = req[p].refunded
  <2>1. turn[p].leg = "body"
    BY <1>2 DEF TurnPaid, Legs
  <2>2. ReqPaid(p)'
    BY <1>0, <1>2 DEF ReqPaid
  <2>3. TurnPaid(p)'
    BY <1>0, <2>1 DEF TurnPaid, PenaltiesFall
  <2> QED
    BY <2>2, <2>3
<1> QED
  BY <1>1, <1>2

(* What the nine moves do to the account of their own request.             *)
LEMMA OwnPaid ==
  ASSUME SlotInv, NEW r \in Requests, ReqPaid(r), TurnPaid(r), Acts(r),
         DOMAIN penaltiesOk = Isolates
  PROVE ReqPaid(r)' /\ TurnPaid(r)'
<1> USE DEF SameCalls, OneCallMore, InLeg
<1>0. /\ IsolateOf[r] \in Isolates /\ audio \subseteq audio'
      /\ req[r].times \in Nat
  BY RequestsAssumption DEF Acts, Frame, SlotInv, TypeInv, RequestsTyped, IsRequest
<1>1. CASE TurnedDown(r)
  <2>1. req[r].pc = "granted" /\ \E reason : SpentNothing(r, reason)
    BY <1>1 DEF TurnedDown
  <2>2. req'[r].pc = "done" /\ req'[r].refunded = TRUE /\ req'[r].times = 0
    BY <2>1, SpentNothingMoves DEF SlotGoes
  <2>3. turn'[r].leg = "over" /\ turn'[r].calls = 0 /\ turn'[r].retries = 0
    BY <1>1 DEF TurnedDown, TurnPaid
  <2>4. ReqPaid(r)'
    BY <2>2 DEF ReqPaid
  <2>5. TurnPaid(r)'
    BY <2>2, <2>3 DEF TurnPaid, Legs
  <2> QED
    BY <2>4, <2>5
<1>2. CASE ReadsOn(r)
  <2>1. /\ req' = req /\ req[r].pc = "granted" /\ turn'[r].leg \in {"bot", "ready"}
        /\ turn'[r].calls = 0 /\ turn'[r].retries = 0 /\ RouteOf[r] # "speech"
    BY <1>2 DEF ReadsOn, NextLegAfterBody, TurnPaid, admissionVars
  <2> QED
    BY <2>1 DEF ReqPaid, TurnPaid, Legs
<1>3. CASE Redeems(r)
  <2>1. /\ req' = req /\ req[r].pc = "granted" /\ turn'[r].leg \in {"cache", "call"}
        /\ turn'[r].calls = (IF turn'[r].leg = "cache" THEN 0 ELSE 1)
        /\ turn'[r].retries = 0 /\ RouteOf[r] = "speech"
    BY <1>3 DEF Redeems, TurnPaid, admissionVars
  <2> QED
    BY <2>1 DEF ReqPaid, TurnPaid, Legs
<1>4. CASE Passes(r)
  <2>1. /\ req' = req /\ req[r].pc = "granted" /\ turn'[r].leg = "ready"
        /\ turn'[r].calls = 0 /\ turn'[r].retries = 0 /\ RouteOf[r] # "speech"
    BY <1>4 DEF Passes, TurnPaid, admissionVars
  <2> QED
    BY <2>1 DEF ReqPaid, TurnPaid, Legs
<1>5. CASE CallsOut(r)
  <2>1. /\ req' = req /\ req[r].pc = "granted" /\ turn'[r].leg = "call"
        /\ turn'[r].calls = 1 /\ turn'[r].retries = 0
    BY <1>5 DEF CallsOut, TurnPaid, admissionVars
  <2> QED
    BY <2>1 DEF ReqPaid, TurnPaid, Legs
<1>6. CASE CallsAgain(r)
  <2>1. /\ req' = req /\ req[r].pc = "granted" /\ turn'[r].leg = turn[r].leg
        /\ turn[r].leg \in {"call", "reroll"} /\ turn[r].retries = 0
        /\ turn'[r].calls = turn[r].calls + 1 /\ turn'[r].retries = 1
        /\ penaltiesOk'[IsolateOf[r]] = FALSE
    BY <1>0, <1>6 DEF CallsAgain, TurnPaid, admissionVars
  <2> QED
    BY <2>1 DEF ReqPaid, TurnPaid, Legs
<1>7. CASE Rerolls(r)
  <2>1. /\ turn[r].leg = "call" /\ turn'[r].leg = "reroll"
        /\ turn'[r].calls = turn[r].calls + 1 /\ turn'[r].retries = turn[r].retries
        /\ req[r].pc = "granted" /\ RouteOf[r] = "chat" /\ penaltiesOk' = penaltiesOk
    BY <1>7 DEF Rerolls, KeepsSpent
  <2>2. /\ req'[r].pc = "granted" /\ req'[r].refunded = req[r].refunded
        /\ req'[r].times = req[r].times + 1
    BY <1>7, ChargeExtraMoves DEF Rerolls
  <2> QED
    BY <1>0, <2>1, <2>2 DEF ReqPaid, TurnPaid, Legs
<1>8. CASE StoresVoice(r)
  <2>1. /\ req' = req /\ req[r].pc = "granted" /\ turn[r].leg = "call" /\ turn'[r].leg = "store"
        /\ turn'[r].calls = turn[r].calls /\ turn'[r].retries = turn[r].retries
        /\ RouteOf[r] = "speech" /\ penaltiesOk' = penaltiesOk
    BY <1>8 DEF StoresVoice, KeepsSpent, admissionVars
  <2> QED
    BY <2>1 DEF ReqPaid, TurnPaid, Legs
<1>9. CASE Ends(r)
  <2>1. /\ req[r].pc = "granted" /\ turn[r].leg \in {"call", "reroll", "cache", "store"}
        /\ turn'[r].leg = "over" /\ turn'[r].calls = turn[r].calls
        /\ turn'[r].retries = turn[r].retries /\ penaltiesOk' = penaltiesOk
        /\ turn[r].leg = "cache" => turn'[r].answer \in audio'
    BY <1>9 DEF Ends, KeepsSpent
  <2>2. /\ req'[r].pc = "done" /\ req'[r].refunded = req[r].refunded
        /\ req'[r].times = req[r].times
    BY <1>9, ReleaseMoves DEF Ends, SlotGoes
  <2>3. req[r].times >= 1 /\ req[r].refunded = FALSE /\ Open(RouteOf[r])
    BY <2>1 DEF ReqPaid
  <2>4. ReqPaid(r)'
    BY <2>1, <2>2, <2>3 DEF ReqPaid
  <2>5. /\ turn[r].retries \in 0 .. 1
        /\ turn[r].calls <= req[r].times + turn[r].retries /\ turn[r].calls \in 0 .. 3
        /\ turn[r].calls = 0 => turn[r].leg = "cache" /\ RouteOf[r] = "speech"
    <3>1. CASE turn[r].leg \in {"call", "store"}
      BY <1>0, <2>3, <3>1 DEF TurnPaid
    <3>2. CASE turn[r].leg = "reroll"
      BY <1>0, <3>2 DEF TurnPaid
    <3>3. CASE turn[r].leg = "cache"
      BY <1>0, <3>3 DEF TurnPaid
    <3> QED
      BY <2>1, <3>1, <3>2, <3>3
  <2>6. turn[r].retries = 1 => penaltiesOk[IsolateOf[r]] = FALSE
    BY DEF TurnPaid
  <2>7. TurnPaid(r)'
    BY <2>1, <2>2, <2>3, <2>5, <2>6 DEF TurnPaid, Legs
  <2> QED
    BY <2>4, <2>7
<1> QED
  BY <1>1, <1>2, <1>3, <1>4, <1>5, <1>6, <1>7, <1>8, <1>9 DEF Acts

-----------------------------------------------------------------------------
(* Tickets                                                                  *)

(* The redeemers of an isolate and their tickets are those they were.      *)
SameRedeemers(i) ==
  \A p \in Requests : /\ p \in Redeemers(i)' <=> p \in Redeemers(i)
                      /\ p \in Redeemers(i) => turn'[p].ticket = turn[p].ticket

LEMMA SpentStays ==
  ASSUME NEW i \in Isolates, SpentOK(i), SameRedeemers(i), spent'[i] = spent[i]
  PROVE SpentOK(i)'
<1>1. Redeemers(i)' = Redeemers(i)
  BY DEF SameRedeemers, Redeemers
<1>2. \A p \in Redeemers(i) : turn'[p].ticket = turn[p].ticket
  BY DEF SameRedeemers, Redeemers
<1>3. Redeemed(i)' = Redeemed(i)
  BY <1>1, <1>2 DEF Redeemed
<1> QED
  BY <1>1, <1>2, <1>3 DEF SpentOK

(* Another request redeems in isolate i.                                   *)
LEMMA SpentGrows ==
  ASSUME NEW i \in Isolates, SpentOK(i), NEW r \in Requests, NEW t,
         r \notin Redeemers(i), Redeemers(i)' = Redeemers(i) \union {r},
         \A p \in Redeemers(i) : turn'[p].ticket = turn[p].ticket,
         turn'[r].ticket = t, t \notin spent[i],
         spent'[i] = (IF Cardinality(spent[i]) >= SpentMax THEN {} ELSE spent[i]) \union {t}
  PROVE SpentOK(i)'
<1> DEFINE S == spent[i]
           R == Redeemed(i)
<1>0. /\ SpentMax \in Nat /\ SpentMax >= 1 /\ IsFiniteSet(R) /\ S \subseteq R
      /\ IsFiniteSet(S) /\ Cardinality(S) \in Nat /\ Cardinality(R) \in Nat
  BY RoutesAssumption, FS_Subset, FS_CardinalityType DEF SpentOK
<1>1. Redeemed(i)' = R \union {t}
  BY DEF Redeemed
<1>2. IsFiniteSet(R \union {t}) /\ Cardinality(R \union {t}) \in Nat
      /\ Cardinality(R) <= Cardinality(R \union {t})
  BY <1>0, FS_AddElement, FS_CardinalityType
<1>3. spent'[i] \subseteq R \union {t}
  BY <1>0
<1>4. Cardinality(spent'[i]) <= SpentMax
  <2>1. CASE Cardinality(S) >= SpentMax
    <3>1. spent'[i] = {t}
      BY <2>1
    <3> QED
      BY <1>0, <3>1, FS_Singleton
  <2>2. CASE ~(Cardinality(S) >= SpentMax)
    <3>1. spent'[i] = S \union {t}
      BY <2>2
    <3>2. Cardinality(S \union {t}) = Cardinality(S) + 1
      BY <1>0, FS_AddElement
    <3> QED
      BY <1>0, <2>2, <3>1, <3>2
  <2> QED
    BY <2>1, <2>2
<1>5. ASSUME Cardinality(R \union {t}) <= SpentMax
      PROVE /\ spent'[i] = R \union {t}
            /\ \A p, q \in Redeemers(i)' : p # q => turn'[p].ticket # turn'[q].ticket
  <2>1. /\ S = R
        /\ \A p, q \in Redeemers(i) : p # q => turn[p].ticket # turn[q].ticket
    BY <1>0, <1>2, <1>5 DEF SpentOK
  <2>2. Cardinality(R \union {t}) = Cardinality(R) + 1
    <3>1. t \notin R
      BY <2>1
    <3> HIDE DEF R
    <3> QED
      BY <1>0, <3>1, FS_AddElement
  <2>3. spent'[i] = R \union {t}
    BY <1>0, <1>5, <2>1, <2>2
  <2>4. \A p \in Redeemers(i) : turn[p].ticket \in R
    BY DEF Redeemed
  <2> HIDE DEF S, R
  <2>5. \A p, q \in Redeemers(i)' : p # q => turn'[p].ticket # turn'[q].ticket
    BY <2>1, <2>4 DEF S
  <2> QED
    BY <2>3, <2>5
<1> HIDE DEF S, R
<1> QED
  BY <1>1, <1>2, <1>3, <1>4, <1>5 DEF SpentOK

(* Who redeems after a step that leaves the routes alone, and after one of *)
(* the nine moves.                                                         *)
LEMMA StillRedeems ==
  ASSUME NEW i \in Isolates, NEW p \in Requests, turn'[p] = turn[p],
         req'[p].times = req[p].times
  PROVE /\ p \in Redeemers(i)' <=> p \in Redeemers(i)
        /\ turn'[p].ticket = turn[p].ticket
BY DEF Redeemers

LEMMA TimesStand ==
  ASSUME NEW r \in Requests, OthersStand(r), NEW p \in Requests, p # r
  PROVE req'[p].times = req[p].times
BY DEF OthersStand

LEMMA NeverRedeems ==
  ASSUME NEW i \in Isolates, NEW r \in Requests,
         RouteOf[r] # "speech" \/ turn[r].leg = "body",
         RouteOf[r] # "speech" \/ req'[r].times = 0 \/ turn'[r].leg = "body"
  PROVE r \notin Redeemers(i) /\ r \notin Redeemers(i)'
BY DEF Redeemers

LEMMA RedeemersOf ==
  ASSUME SlotInv, NEW r \in Requests, ReqPaid(r), TurnPaid(r), Acts(r), ~Redeems(r),
         NEW i \in Isolates
  PROVE SameRedeemers(i) /\ spent' = spent
<1> USE DEF SameCalls, OneCallMore, InLeg
<1>1. ASSUME OthersStand(r), r \in Redeemers(i)' <=> r \in Redeemers(i),
             r \in Redeemers(i) => turn'[r].ticket = turn[r].ticket
      PROVE SameRedeemers(i)
  <2>1. \A p \in Requests : p # r => turn'[p] = turn[p] /\ req'[p].times = req[p].times
    BY <1>1, TimesStand DEF Acts, Frame, OthersWait
  <2>2. ASSUME NEW p \in Requests
        PROVE /\ p \in Redeemers(i)' <=> p \in Redeemers(i)
              /\ p \in Redeemers(i) => turn'[p].ticket = turn[p].ticket
    BY <1>1, <2>1, StillRedeems
  <2> QED
    BY <2>2 DEF SameRedeemers
<1>2. UNCHANGED admissionVars => OthersStand(r) /\ req'[r] = req[r]
  BY DEF admissionVars, OthersStand
<1>3. ASSUME req[r].times > 0, req'[r].times > 0, turn[r].leg # "body", turn'[r].leg # "body"
      PROVE r \in Redeemers(i)' <=> r \in Redeemers(i)
  BY <1>3 DEF Redeemers
<1>4. req[r].pc = "granted" => req[r].times \in Nat /\ req[r].times >= 1
  BY DEF ReqPaid, SlotInv, TypeInv, RequestsTyped, IsRequest
<1>5. CASE TurnedDown(r)
  <2>1. req[r].pc = "granted" /\ \E reason : SpentNothing(r, reason)
    BY <1>5 DEF TurnedDown
  <2>2. OthersStand(r) /\ req'[r].times = 0
    BY <2>1, SpentNothingMoves DEF SlotGoes
  <2>3. RouteOf[r] # "speech" \/ turn[r].leg = "body"
    BY <1>5 DEF TurnedDown, TurnPaid
  <2>4. spent' = spent
    BY <1>5 DEF TurnedDown, KeepsSpent
  <2> QED
    BY <1>1, <2>2, <2>3, <2>4, NeverRedeems
<1>6. CASE ReadsOn(r) \/ Passes(r)
  <2>1. UNCHANGED admissionVars /\ RouteOf[r] # "speech" /\ spent' = spent
    BY <1>6 DEF ReadsOn, Passes, KeepsSpent, TurnPaid
  <2> QED
    BY <1>1, <1>2, <2>1, NeverRedeems
<1>7. CASE CallsOut(r) \/ CallsAgain(r) \/ StoresVoice(r)
  <2>1. /\ UNCHANGED admissionVars /\ spent' = spent /\ req[r].pc = "granted"
        /\ turn[r].leg # "body" /\ turn'[r].leg # "body" /\ turn'[r].ticket = turn[r].ticket
    BY <1>7 DEF CallsOut, CallsAgain, StoresVoice, KeepsSpent, SameTicket
  <2> QED
    BY <1>1, <1>2, <1>3, <1>4, <2>1
<1>8. CASE Rerolls(r)
  <2>1. /\ ChargeExtra(r) /\ spent' = spent /\ req[r].pc = "granted"
        /\ turn[r].leg # "body" /\ turn'[r].leg # "body" /\ turn'[r].ticket = turn[r].ticket
    BY <1>8 DEF Rerolls, KeepsSpent, SameTicket
  <2>2. OthersStand(r) /\ req'[r].times = req[r].times + 1
    BY <2>1, ChargeExtraMoves
  <2> QED
    BY <1>1, <1>3, <1>4, <2>1, <2>2
<1>9. CASE Ends(r)
  <2>1. /\ \E reason : Release(r, reason)
        /\ spent' = spent /\ req[r].pc = "granted"
        /\ turn[r].leg # "body" /\ turn'[r].leg # "body" /\ turn'[r].ticket = turn[r].ticket
    BY <1>9 DEF Ends, KeepsSpent, SameTicket
  <2>2. OthersStand(r) /\ req'[r].times = req[r].times
    BY <2>1, ReleaseMoves DEF SlotGoes
  <2> QED
    BY <1>1, <1>3, <1>4, <2>1, <2>2
<1> QED
  BY <1>5, <1>6, <1>7, <1>8, <1>9 DEF Acts

LEMMA RedeemSpends ==
  ASSUME SlotInv, TurnsTyped, NEW r \in Requests, ReqPaid(r), Acts(r), Redeems(r),
         NEW i \in Isolates, SpentOK(i)
  PROVE SpentOK(i)'
<1>1. /\ req' = req /\ req[r].pc = "granted" /\ RouteOf[r] = "speech"
      /\ turn[r].leg = "body" /\ turn'[r].leg # "body"
      /\ MarkSpent(IsolateOf[r], turn'[r].ticket)
      /\ turn'[r].ticket \notin spent[IsolateOf[r]]
  BY DEF Redeems, admissionVars, InLeg
<1>2. \A p \in Requests : p # r => turn'[p] = turn[p]
  BY DEF Acts, Frame, OthersWait
<1>3. req[r].times > 0
  BY <1>1 DEF ReqPaid, SlotInv, TypeInv, RequestsTyped, IsRequest
<1>4. CASE IsolateOf[r] # i
  <2>1. SameRedeemers(i)
    BY <1>1, <1>2, <1>4 DEF SameRedeemers, Redeemers
  <2>2. spent'[i] = spent[i]
    BY <1>1, <1>4 DEF MarkSpent, TurnsTyped
  <2> QED
    BY <2>1, <2>2, SpentStays
<1>5. CASE IsolateOf[r] = i
  <2>1. r \notin Redeemers(i)
    BY <1>1 DEF Redeemers
  <2>2. Redeemers(i)' = Redeemers(i) \union {r}
    <3>1. \A p \in Requests : p # r => (p \in Redeemers(i)' <=> p \in Redeemers(i))
      BY <1>1, <1>2, StillRedeems
    <3>2. r \in Redeemers(i)'
      BY <1>1, <1>3, <1>5 DEF Redeemers
    <3>3. Redeemers(i) \subseteq Requests /\ Redeemers(i)' \subseteq Requests
      BY DEF Redeemers
    <3> QED
      BY <3>1, <3>2, <3>3
  <2>3. \A p \in Redeemers(i) : turn'[p].ticket = turn[p].ticket
    BY <1>2, <2>1 DEF Redeemers
  <2>4. spent'[i] = (IF Cardinality(spent[i]) >= SpentMax THEN {} ELSE spent[i])
                       \union {turn'[r].ticket}
    BY <1>1, <1>5 DEF MarkSpent, TurnsTyped
  <2> QED
    BY <1>1, <1>5, <2>1, <2>2, <2>3, <2>4, SpentGrows
<1> QED
  BY <1>4, <1>5

-----------------------------------------------------------------------------
(* The invariant of the routes                                              *)

LEMMA InitRoutes == RoutesInit => RoutesInv
<1> SUFFICES ASSUME RoutesInit PROVE RoutesInv
  OBVIOUS
<1>1. AdmissionInit
  BY DEF RoutesInit
<1>2. \A r \in Requests : /\ req[r].pc = "new" /\ req[r].times = 0 /\ req[r].refunded = FALSE
                           /\ turn[r].leg = "body" /\ turn[r].calls = 0 /\ turn[r].retries = 0
  BY <1>1 DEF RoutesInit, AdmissionInit, Idle, Unread
<1>3. ASSUME NEW r \in Requests PROVE ReqPaid(r) /\ TurnPaid(r)
  <2>1. ReqPaid(r)
    BY <1>2 DEF ReqPaid
  <2>2. TurnPaid(r)
    BY <1>2 DEF TurnPaid, Legs
  <2> QED
    BY <2>1, <2>2
<1>4. ASSUME NEW i \in Isolates PROVE SpentOK(i)
  <2>1. Redeemers(i) = {}
    BY <1>2 DEF Redeemers
  <2>2. Redeemed(i) = {}
    BY <2>1 DEF Redeemed
  <2>3. spent[i] = {}
    BY DEF RoutesInit
  <2> QED
    BY <2>1, <2>2, <2>3, FS_EmptySet, RoutesAssumption DEF SpentOK
<1> QED
  BY <1>1, <1>3, <1>4, InitSlots, InitRoutesTyped DEF RoutesInv

(* A step outside the routes: the clock, a late write, admission.          *)
LEMMA OutsideKeeps ==
  ASSUME RoutesInv, UNCHANGED routeVars, Moved,
         \/ req' = req
         \/ \E r \in Requests : AdmissionPays(r) /\ Open(RouteOf[r])
  PROVE RoutesInv'
<1>1. /\ TurnsTyped' /\ turn' = turn /\ penaltiesOk' = penaltiesOk
      /\ spent' = spent /\ audio' = audio
  BY DEF routeVars, RoutesInv, TurnsTyped
<1>2. PenaltiesFall /\ audio \subseteq audio'
  BY <1>1 DEF PenaltiesFall
<1>3. CASE req' = req
  <2>1. ASSUME NEW p \in Requests PROVE ReqPaid(p)' /\ TurnPaid(p)'
    BY <1>1, <1>2, <1>3, OthersPaid DEF RoutesInv
  <2>2. ASSUME NEW i \in Isolates PROVE SpentOK(i)'
    <3>1. SameRedeemers(i)
      BY <1>1, <1>3 DEF SameRedeemers, Redeemers
    <3> QED
      BY <1>1, <3>1, SpentStays DEF RoutesInv
  <2> QED
    BY <1>1, <2>1, <2>2, SlotsKept DEF RoutesInv
<1>4. ASSUME NEW r \in Requests, AdmissionPays(r), Open(RouteOf[r]) PROVE RoutesInv'
  <2>1. OthersStand(r) /\ turn[r].leg = "body" /\ TurnPaid(r)
    BY <1>4 DEF AdmissionPays, RoutesInv, TurnPaid, Legs
  <2>2. ReqPaid(r)' /\ TurnPaid(r)'
    <3>1. ReqPaid(r)'
      BY <1>1, <1>4 DEF AdmissionPays, ReqPaid
    <3>2. TurnPaid(r)'
      BY <1>1, <2>1 DEF TurnPaid
    <3> QED
      BY <3>1, <3>2
  <2>3. ASSUME NEW p \in Requests, p # r PROVE ReqPaid(p)' /\ TurnPaid(p)'
    <3>1. ReqPaid(p) /\ TurnPaid(p) /\ turn'[p] = turn[p]
      BY <1>1 DEF RoutesInv
    <3> QED
      BY <1>2, <2>1, <2>3, <3>1, OthersPaid DEF OthersStand
  <2>4. ASSUME NEW i \in Isolates PROVE SpentOK(i)'
    <3>1. r \notin Redeemers(i) /\ r \notin Redeemers(i)'
      BY <1>1, <2>1, NeverRedeems
    <3>2. \A p \in Requests : p # r => req'[p].times = req[p].times
      BY <2>1, TimesStand
    <3>3. SameRedeemers(i)
      <4>1. ASSUME NEW p \in Requests
            PROVE /\ p \in Redeemers(i)' <=> p \in Redeemers(i)
                  /\ p \in Redeemers(i) => turn'[p].ticket = turn[p].ticket
        BY <1>1, <3>1, <3>2, StillRedeems
      <4> QED
        BY <4>1 DEF SameRedeemers
    <3> QED
      BY <1>1, <3>3, SpentStays DEF RoutesInv
  <2>5. \A p \in Requests : ReqPaid(p)' /\ TurnPaid(p)'
    BY <2>2, <2>3
  <2> QED
    BY <1>1, <2>4, <2>5, SlotsKept DEF RoutesInv
<1> QED
  BY <1>3, <1>4

(* A step of a route.                                                      *)
LEMMA RouteMoves ==
  ASSUME RoutesInv, NEW r \in Requests, Acts(r)
  PROVE Moved /\ OthersStand(r) /\ PenaltiesFall
<1>1. SlotInv /\ TypeInv /\ DOMAIN penaltiesOk = Isolates
  BY DEF RoutesInv, SlotInv, TurnsTyped
<1>2. CASE UNCHANGED admissionVars
  <2>1. OthersStand(r)
    BY <1>2 DEF admissionVars, OthersStand
  <2>2. Moved
    BY <1>1, <1>2, StepTypes
  <2>3. PenaltiesFall
    <3>1. penaltiesOk' = penaltiesOk
          \/ penaltiesOk' = [penaltiesOk EXCEPT ![IsolateOf[r]] = FALSE]
      BY DEF Acts, TurnedDown, ReadsOn, Redeems, Passes, CallsOut, CallsAgain, Rerolls,
             StoresVoice, Ends, KeepsSpent
    <3> QED
      BY <1>1, <3>1 DEF PenaltiesFall
  <2> QED
    BY <2>1, <2>2, <2>3
<1>3. CASE TurnedDown(r)
  <2>1. req[r].pc = "granted" /\ penaltiesOk' = penaltiesOk /\ \E reason : SpentNothing(r, reason)
    BY <1>3 DEF TurnedDown, InLeg, KeepsSpent
  <2> QED
    BY <1>1, <2>1, SpentNothingMoves DEF SlotGoes, PenaltiesFall
<1>4. CASE Rerolls(r)
  BY <1>1, <1>4, ChargeExtraMoves DEF Rerolls, KeepsSpent, PenaltiesFall
<1>5. CASE Ends(r)
  <2>1. penaltiesOk' = penaltiesOk /\ \E reason : Release(r, reason)
    BY <1>5 DEF Ends, KeepsSpent
  <2> QED
    BY <1>1, <2>1, ReleaseMoves DEF SlotGoes, PenaltiesFall
<1> QED
  BY <1>2, <1>3, <1>4, <1>5
     DEF Acts, ReadsOn, Redeems, Passes, CallsOut, CallsAgain, StoresVoice

LEMMA RouteKeeps ==
  ASSUME RoutesInv, NEW r \in Requests, Acts(r)
  PROVE RoutesInv' /\ Moved
<1>1. /\ SlotInv /\ TurnsTyped /\ TurnsTyped' /\ audio \subseteq audio'
      /\ \A p \in Requests : p # r => turn'[p] = turn[p]
  BY DEF RoutesInv, Acts, Frame, OthersWait
<1>2. Moved /\ OthersStand(r) /\ PenaltiesFall
  BY RouteMoves
<1>3. ASSUME NEW p \in Requests PROVE ReqPaid(p)' /\ TurnPaid(p)'
  <2>1. CASE p = r
    BY <2>1, OwnPaid DEF RoutesInv, TurnsTyped
  <2>2. CASE p # r
    <3>1. ReqPaid(p) /\ TurnPaid(p) /\ turn'[p] = turn[p]
      BY <1>1, <2>2 DEF RoutesInv
    <3> QED
      BY <1>1, <1>2, <2>2, <3>1, OthersPaid DEF OthersStand
  <2> QED
    BY <2>1, <2>2
<1>4. ASSUME NEW i \in Isolates PROVE SpentOK(i)'
  <2>1. SpentOK(i) /\ ReqPaid(r) /\ TurnPaid(r)
    BY DEF RoutesInv
  <2>2. CASE Redeems(r)
    BY <1>1, <2>1, <2>2, RedeemSpends
  <2>3. CASE ~Redeems(r)
    BY <1>1, <2>1, <2>3, RedeemersOf, SpentStays
  <2> QED
    BY <2>2, <2>3
<1> QED
  BY <1>1, <1>2, <1>3, <1>4, SlotsKept DEF RoutesInv

LEMMA UnreadyKeeps ==
  ASSUME RoutesInv, NEW r \in Requests, RefuseUnready(r)
  PROVE RoutesInv' /\ Moved
<1>1. SlotInv /\ TurnsTyped /\ ReqPaid(r) /\ TurnPaid(r) /\ req[r].pc = "new"
  BY DEF RoutesInv, RefuseUnready
<1>2. /\ TurnsTyped' /\ \A p \in Requests : p # r => turn'[p] = turn[p]
      /\ EndedFrom(turn'[r], turn[r]) /\ audio' = audio
      /\ penaltiesOk' = penaltiesOk /\ spent' = spent
  BY <1>1, UnreadyTurn DEF Frame, OthersWait, KeepsSpent
<1>3. /\ Moved /\ OthersStand(r) /\ req'[r].pc = "done" /\ ~Open(RouteOf[r])
      /\ req'[r].refunded = FALSE /\ req'[r].times = 0
  BY <1>1, UnreadyMoves DEF SlotGoes
<1>4. turn[r].leg = "body" /\ turn[r].calls = 0 /\ turn[r].retries = 0
  BY <1>1 DEF TurnPaid, Legs
<1>5. turn'[r].leg = "over" /\ turn'[r].calls = 0 /\ turn'[r].retries = 0
  BY <1>2, <1>4 DEF EndedFrom
<1>6. ReqPaid(r)' /\ TurnPaid(r)'
  <2>1. ReqPaid(r)'
    BY <1>3, <1>5 DEF ReqPaid
  <2>2. TurnPaid(r)'
    BY <1>3, <1>5 DEF TurnPaid, Legs
  <2> QED
    BY <2>1, <2>2
<1>7. ASSUME NEW p \in Requests, p # r PROVE ReqPaid(p)' /\ TurnPaid(p)'
  <2>1. ReqPaid(p) /\ TurnPaid(p) /\ turn'[p] = turn[p]
    BY <1>2, <1>7 DEF RoutesInv
  <2> QED
    BY <1>2, <1>3, <1>7, <2>1, OthersPaid DEF OthersStand, PenaltiesFall
<1>8. ASSUME NEW i \in Isolates PROVE SpentOK(i)'
  <2>1. r \notin Redeemers(i) /\ r \notin Redeemers(i)'
    BY <1>3, <1>4, NeverRedeems
  <2>2. ASSUME NEW p \in Requests, p # r
        PROVE /\ p \in Redeemers(i)' <=> p \in Redeemers(i)
              /\ turn'[p].ticket = turn[p].ticket
    BY <1>2, <1>3, <2>2, TimesStand, StillRedeems
  <2>3. SameRedeemers(i)
    BY <2>1, <2>2 DEF SameRedeemers
  <2> QED
    BY <1>2, <2>3, SpentStays DEF RoutesInv
<1>9. \A p \in Requests : ReqPaid(p)' /\ TurnPaid(p)'
  BY <1>6, <1>7
<1> QED
  BY <1>1, <1>2, <1>3, <1>8, <1>9, SlotsKept DEF RoutesInv

LEMMA RoutesKept == RoutesInv /\ [RoutesNext]_vars => RoutesInv' /\ Moved
<1> SUFFICES ASSUME RoutesInv, [RoutesNext]_vars PROVE RoutesInv' /\ Moved
  OBVIOUS
<1>0. SlotInv /\ TypeInv
  BY DEF RoutesInv, SlotInv
<1>1. CASE UNCHANGED vars
  <2>1. UNCHANGED admissionVars /\ UNCHANGED routeVars /\ req' = req
    BY <1>1 DEF vars, admissionVars
  <2>2. Moved
    BY <1>0, <2>1, StepTypes
  <2> QED
    BY <2>1, <2>2, OutsideKeeps
<1>2. CASE Tick /\ UNCHANGED routeVars
  BY <1>0, <1>2, TickTypes, OutsideKeeps DEF Tick
<1>3. CASE LateLanding /\ UNCHANGED routeVars
  <2>1. Moved /\ req' = req
    BY <1>0, <1>3, LateLandingTypes DEF Moved, LateLanding
  <2> QED
    BY <1>3, <2>1, OutsideKeeps
<1>4. ASSUME NEW r \in Requests, Open(RouteOf[r]), AdmissionStep(r), UNCHANGED routeVars
      PROVE RoutesInv' /\ Moved
  <2>1. Moved
    BY <1>0, <1>4, AdmissionStepTypes DEF Moved, Kept
  <2>2. AdmissionPays(r)
    BY <1>0, <1>4, AdmissionStepPays DEF RoutesInv
  <2> QED
    BY <1>4, <2>1, <2>2, OutsideKeeps
<1>5. ASSUME NEW r \in Requests, RefuseUnready(r) PROVE RoutesInv' /\ Moved
  BY <1>5, UnreadyKeeps
<1>6. ASSUME NEW r \in Requests, RouteAction(r) PROVE RoutesInv' /\ Moved
  BY <1>6, RoutesAct, RouteKeeps DEF RoutesInv
<1> QED
  BY <1>1, <1>2, <1>3, <1>4, <1>5, <1>6 DEF RoutesNext

(***************************************************************************)
(* Money and calls (chat.js, speech.js, transcribe.js): whatever a request *)
(* is refused for, and whatever the gateway answers, a refused request     *)
(* that was given its units back has made no call, and a request has made  *)
(* no more calls than it paid for before each, but for the one retry of a  *)
(* body the gateway could not read. What was paid for and not called is a  *)
(* voice that was in the cache.                                            *)
(***************************************************************************)
THEOREM CallsArePaidFor == RoutesSpec => []CallsArePaid
<1>1. RoutesInv => CallsArePaid
  <2> SUFFICES ASSUME RoutesInv PROVE CallsArePaid
    OBVIOUS
  <2>0. TypeInv /\ TypeOK
    BY TypeInvSuffices DEF RoutesInv, SlotInv
  <2>1. ASSUME NEW r \in Requests
        PROVE /\ turn[r].leg \in Legs /\ turn[r].retries \in 0 .. 1
              /\ turn[r].leg = "over" => req[r].pc = "done"
              /\ turn[r].calls \in 0 .. 3
              /\ req[r].refunded \/ ~Open(RouteOf[r]) => turn[r].calls = 0
              /\ ~req[r].refunded => turn[r].calls <= req[r].times + turn[r].retries
              /\ req[r].pc = "done" /\ req[r].times > 0 /\ turn[r].calls = 0
                    => RouteOf[r] = "speech" /\ turn[r].answer \in audio
    <3>0. ReqPaid(r) /\ TurnPaid(r) /\ req[r].times \in Nat
      BY <2>0 DEF RoutesInv, TypeInv, RequestsTyped, IsRequest
    <3>1. turn[r].leg \in Legs /\ turn[r].retries \in 0 .. 1
      BY <3>0 DEF TurnPaid
    <3>2. CASE turn[r].leg \in {"body", "bot", "ready", "cache"}
      <4>1. turn[r].calls = 0 /\ turn[r].retries = 0
        BY <3>0, <3>2 DEF TurnPaid
      <4>2. ~(req[r].pc = "done" /\ req[r].times > 0)
        BY <3>0, <3>2 DEF TurnPaid, ReqPaid
      <4> QED
        BY <3>0, <3>1, <3>2, <4>1, <4>2
    <3>3. CASE turn[r].leg \in {"call", "store", "reroll"}
      <4>1. req[r].pc = "granted" /\ req[r].refunded = FALSE /\ Open(RouteOf[r])
            /\ req[r].times >= 1
        BY <3>0, <3>3 DEF TurnPaid, ReqPaid
      <4>2. /\ turn[r].calls \in 1 .. 3 /\ turn[r].calls <= req[r].times + turn[r].retries
        <5>1. CASE turn[r].leg = "reroll"
          BY <3>0, <3>1, <4>1, <5>1 DEF TurnPaid
        <5>2. CASE turn[r].leg \in {"call", "store"}
          BY <3>0, <3>1, <4>1, <5>2 DEF TurnPaid
        <5> QED
          BY <3>3, <5>1, <5>2
      <4> QED
        BY <3>1, <3>3, <4>1, <4>2
    <3>4. CASE turn[r].leg = "over"
      BY <3>0, <3>1, <3>4 DEF TurnPaid
    <3> QED
      BY <3>1, <3>2, <3>3, <3>4 DEF Legs
  <2>2. \A i \in Isolates : Cardinality(spent[i]) <= SpentMax
    BY DEF RoutesInv, SpentOK
  <2> QED
    BY <2>0, <2>1, <2>2 DEF CallsArePaid, RoutesTypeOK
<1> QED
  BY <1>1, InitRoutes, RoutesKept, PTL DEF RoutesSpec

(***************************************************************************)
(* The tickets of speech.js: while an isolate has redeemed no more tickets *)
(* than it can remember, no two of its requests redeemed the same one,     *)
(* however they overlap and whatever became of their synthesis.            *)
(***************************************************************************)
THEOREM TicketsBuyOneVoice == RoutesSpec => []OneVoicePerTicket
<1>1. RoutesInv => OneVoicePerTicket
  BY DEF RoutesInv, SpentOK, OneVoicePerTicket, Redeemed
<1> QED
  BY <1>1, InitRoutes, RoutesKept, PTL DEF RoutesSpec

(***************************************************************************)
(* The routes keep what admission promises of its slots (limits.js         *)
(* release, in the routes' finally): a route that is refused half-way,     *)
(* fails or answers gives its slot back once.                              *)
(***************************************************************************)
THEOREM RoutesKeepTheSlots == RoutesSpec => []SlotsConserved
<1>1. RoutesInv => SlotsConserved
  BY SlotsSuffice DEF RoutesInv
<1> QED
  BY <1>1, InitRoutes, RoutesKept, PTL DEF RoutesSpec

(***************************************************************************)
(* And with the routes on top of admission every lane is still a           *)
(* FairSlots: first come, first served (limits.js handOffOrRelease).       *)
(***************************************************************************)
THEOREM RoutesAreFair == RoutesSpec => FairOrder
<1>1. RoutesInit => \A i \in Isolates, rt \in Routes : Slots(i, rt)!FairInit
  BY InitFair DEF RoutesInit
<1>2. RoutesInv /\ [RoutesNext]_vars
        => [\A i \in Isolates, rt \in Routes :
              [Slots(i, rt)!FairNext]_(Slots(i, rt)!fairVars)]_admissionVars
  BY RoutesKept, LanesAreFair DEF RoutesInv
<1> QED
  BY <1>1, <1>2, InitRoutes, RoutesKept, PTL DEF RoutesSpec, FairOrder

=============================================================================
