----------------------------- MODULE BotCheck -----------------------------
(***************************************************************************)
(* The browser half of the bot control (sim/web/turnstile.js): one fresh,  *)
(* single-use token per send, from one widget per action.  Cloudflare's    *)
(* script and the challenge it draws are outside; what they may do is      *)
(* read from the callbacks and the guards this file has against them.      *)
(*                                                                         *)
(* The page has a sitekey.  One action is one task of the event loop with  *)
(* the promise continuations it queues.                                    *)
(***************************************************************************)
EXTENDS Naturals, Sequences, FiniteSets, SequencesExt

CONSTANTS
    Clips,          \* the recorded clips: each is a call of getToken
    Typed,          \* the typed turns, which call it as well
    Actions, ChatAction, ClipAction,
    MaxScriptTries, \* MAX_SCRIPT_TRIES
    Nobody          \* no call

ASSUME BotAssumption ==
    /\ Clips \intersect Typed = {} /\ Nobody \notin Clips \union Typed
    /\ Actions = {ChatAction, ClipAction} /\ ChatAction # ClipAction
    /\ MaxScriptTries \in Nat

VARIABLES
    script,     \* Cloudflare's script
    slot,       \* SLOTS: action -> its widget
    call        \* what each getToken call came to

bot == <<script, slot, call>>

Calls == Clips \union Typed
ActionOf(c) == IF c \in Clips THEN ClipAction ELSE ChatAction
NoToken == 0
NoneWait == [a \in Actions |-> <<>>]     \* for Cloudflare's script

BotInit ==
    /\ script = [api |-> FALSE, loading |-> FALSE, tries |-> 0, late |-> FALSE,
                 waiting |-> NoneWait, wanted |-> {}, minted |-> 0]
    /\ slot = [a \in Actions |->
                 [rendered |-> FALSE, pending |-> Nobody, chain |-> <<>>,
                  outstanding |-> FALSE, spent |-> NoToken,
                  held |-> NoToken, screen |-> FALSE,
                  wasted |-> FALSE]]    \* a challenge on screen was reset away
    /\ call = [c \in Calls |-> [pc |-> "idle", token |-> NoToken]]

-----------------------------------------------------------------------------
(* Steps on the slot w of one action and the calls, as a record             *)

Of(w, calls) == [w |-> w, calls |-> calls]

\* done(): the mint of call c resolves.
Resolve(s, c, token) ==
    [w |-> [s.w EXCEPT !.pending = IF @ = c THEN Nobody ELSE @,
                       !.spent = IF token # NoToken THEN token ELSE @],
     calls |-> [s.calls EXCEPT ![c] = [pc |-> "done", token |-> token]]]

\* t.reset: no token is held any more, and a challenge is awaited.
Reset(w) ==
    [w EXCEPT !.held = NoToken, !.outstanding = TRUE, !.wasted = @ \/ w.screen]

\* t.reset, then t.execute: the challenge is on screen.
Challenge(w, c) == [Reset(w) EXCEPT !.screen = TRUE, !.pending = c]

\* Mutant: whatever token the widget holds is used.
MutReplaysTheToken(s, c, throws) ==
    IF s.w.held # NoToken THEN Resolve(s, c, s.w.held)
    ELSE IF s.w.outstanding THEN [s EXCEPT !.w.pending = c]
    ELSE IF throws THEN Resolve([s EXCEPT !.w = Reset(@)], c, NoToken)
    ELSE [s EXCEPT !.w = Challenge(@, c)]

\* run(), the mint of call c: an unspent token the widget already holds, the
\* challenge that is awaited, or a new challenge.  throws: execute() does, and the
\* challenge that is awaited from then on was never drawn.
Run(s, c, throws) ==
    IF s.w.held \notin {NoToken, s.w.spent} THEN Resolve(s, c, s.w.held)
    ELSE IF s.w.outstanding THEN [s EXCEPT !.w.pending = c]
    ELSE IF throws THEN Resolve([s EXCEPT !.w = Reset(@)], c, NoToken)
    ELSE [s EXCEPT !.w = Challenge(@, c)]

\* The next mint of the chain runs when the one before it has resolved.
RunNext(s, throws) ==
    IF s.w.pending # Nobody \/ s.w.chain = <<>> THEN s
    ELSE Run([s EXCEPT !.w.chain = Tail(@)], Head(s.w.chain), throws)

\* The chain runs until a mint waits for its challenge: that is the third one at
\* the latest, after one that took the token the widget held and one that threw.
RunChain(s, throws) == RunNext(RunNext(RunNext(s, throws), throws), throws)

\* The widget is there: the calls of a sequence mint after those of the chain.
Mint(s, calls, throws) ==
    RunChain([w |-> [s.w EXCEPT !.chain = @ \o calls],
              calls |-> [c \in Calls |-> IF c \in Range(calls)
                                         THEN [s.calls[c] EXCEPT !.pc = "minting"]
                                         ELSE s.calls[c]]], throws)

Refuse(calls, refused) ==
    [c \in Calls |-> IF c \in refused THEN [pc |-> "done", token |-> NoToken] ELSE calls[c]]

-----------------------------------------------------------------------------
(* getToken                                                                 *)

\* The script is asked for once more, unless it is on its way.
LoadFor(waiting, wanted) ==
    script' = [script EXCEPT !.loading = TRUE,
                  !.tries = IF script.loading THEN @ ELSE @ + 1,
                  !.waiting = waiting, !.wanted = @ \union wanted]

\* getToken(action): the widget first, then a mint; no token when the script
\* may not be asked for again, or the widget does not render.
Ask(c) ==
    LET a == ActionOf(c) IN
    /\ call[c].pc = "idle"
    /\ IF slot[a].rendered \/ script.api
       THEN \/ \E throws \in BOOLEAN :
                 LET s == Mint(Of([slot[a] EXCEPT !.rendered = TRUE], call), <<c>>, throws)
                 IN  slot' = [slot EXCEPT ![a] = s.w] /\ call' = s.calls /\ UNCHANGED script
            \/ ~slot[a].rendered /\ call' = Refuse(call, {c}) /\ UNCHANGED <<script, slot>>
       ELSE IF script.loading \/ script.tries < MaxScriptTries
       THEN /\ LoadFor([script.waiting EXCEPT ![a] = Append(@, c)], {})
            /\ call' = [call EXCEPT ![c].pc = "script"]
            /\ UNCHANGED slot
       ELSE call' = Refuse(call, {c}) /\ UNCHANGED <<script, slot>>

\* The chat widget renders as soon as a sitekey is known.
EagerRender ==
    /\ ~slot[ChatAction].rendered
    /\ IF script.api
       THEN slot' = [slot EXCEPT ![ChatAction].rendered = TRUE] /\ UNCHANGED <<script, call>>
       ELSE /\ ChatAction \notin script.wanted
            /\ script.loading \/ script.tries < MaxScriptTries
            /\ LoadFor(script.waiting, {ChatAction})
            /\ UNCHANGED <<slot, call>>

\* Every call that waited for the script goes on, in the order they came;
\* broken: the actions whose widget does not render; throws: whose challenge fails.
GoOn(broken, throws) ==
    LET asked(a) == a \in script.wanted \/ script.waiting[a] # <<>>
        after(a) == IF slot[a].rendered \/ (asked(a) /\ a \notin broken)
                    THEN Mint(Of([slot[a] EXCEPT !.rendered = TRUE], call), script.waiting[a],
                              a \in throws)
                    ELSE Of(slot[a], Refuse(call, Range(script.waiting[a])))
    IN  /\ slot' = [a \in Actions |-> after(a).w]
        /\ call' = [c \in Calls |-> after(ActionOf(c)).calls[c]]

\* The script request ends: it loaded, it failed, or its deadline passed
\* (and the tag may still load later).  A failure is not remembered.
ScriptEnds(loaded, late) ==
    /\ script.loading
    /\ late => ~loaded /\ ~script.api
    /\ script' = [script EXCEPT !.api = @ \/ loaded, !.late = @ \/ late,
                                !.loading = FALSE, !.waiting = NoneWait, !.wanted = {}]
    /\ IF loaded THEN \E broken, throws \in SUBSET Actions : GoOn(broken, throws)
       ELSE /\ call' = Refuse(call, UNION {Range(script.waiting[a]) : a \in Actions})
            /\ UNCHANGED slot

\* A tag whose deadline had passed loads after all.
ScriptArrivesLate ==
    /\ script.late /\ ~script.api
    /\ script' = [script EXCEPT !.api = TRUE]
    /\ UNCHANGED <<slot, call>>

-----------------------------------------------------------------------------
(* The widget                                                               *)

\* settle(): the challenge has concluded; the mint in flight resolves, and
\* the next ones of the chain run.
Settle(a, w, token) ==
    \E throws \in BOOLEAN :
      LET rest == [w EXCEPT !.outstanding = FALSE, !.screen = FALSE, !.pending = Nobody]
          s == Of(rest, call)
          after == IF w.pending = Nobody THEN s
                   ELSE RunChain(Resolve(s, w.pending, token), throws)
      IN  /\ slot' = [slot EXCEPT ![a] = after.w]
          /\ call' = after.calls

\* callback: solved.  The widget holds the token until it is reset or expires.
Solved(a) ==
    /\ slot[a].screen
    /\ LET token == IF slot[a].held # NoToken THEN slot[a].held ELSE script.minted + 1
       IN  /\ Settle(a, [slot[a] EXCEPT !.held = token], token)
           /\ script' = [script EXCEPT !.minted = IF token > @ THEN token ELSE @]

\* error-callback, or expired-callback of a challenge that was left alone.
Failed(a) ==
    /\ slot[a].screen
    /\ Settle(a, slot[a], NoToken)
    /\ UNCHANGED script

\* expired-callback: the token the widget holds is too old.
TokenExpires(a) ==
    /\ slot[a].held # NoToken /\ ~slot[a].screen
    /\ Settle(a, [slot[a] EXCEPT !.held = NoToken], NoToken)
    /\ UNCHANGED script

\* The mint gives up; the challenge may still be on screen.
MintDeadline(a) ==
    /\ slot[a].pending # Nobody
    /\ \E throws \in BOOLEAN :
         LET s == RunChain(Resolve(Of(slot[a], call), slot[a].pending, NoToken), throws)
         IN  slot' = [slot EXCEPT ![a] = s.w] /\ call' = s.calls
    /\ UNCHANGED script

BotNext ==
    \/ EagerRender
    \/ \E loaded, late \in BOOLEAN : ScriptEnds(loaded, late)
    \/ ScriptArrivesLate
    \/ \E a \in Actions : Solved(a) \/ Failed(a) \/ TokenExpires(a) \/ MintDeadline(a)

\* Deadlines pass.  Nothing says that the script or the challenge ever come.
BotFairness ==
    /\ WF_bot(\E loaded, late \in BOOLEAN : ScriptEnds(loaded, late))
    /\ \A a \in Actions : WF_bot(MintDeadline(a))

-----------------------------------------------------------------------------
(* Properties                                                               *)

\* A mint is in flight, with its challenge, or waits its turn in the chain.
BotTypeOK ==
    /\ script.tries \in 0 .. MaxScriptTries
    /\ \A c \in Calls : call[c].pc \in {"idle", "script", "minting", "done"}
    /\ \A a \in Actions :
        LET w == slot[a] IN
        /\ w.pending \in Calls \union {Nobody}
        /\ w.pending # Nobody => call[w.pending].pc = "minting" /\ w.outstanding
        /\ w.chain # <<>> => w.pending # Nobody
        /\ {c \in Calls : call[c].pc = "minting" /\ ActionOf(c) = a}
             = Range(w.chain) \union ({w.pending} \ {Nobody})

\* A token pays for one send: no two calls are given the same one, whatever
\* became of the challenges, the deadlines and the expiries between them; and a
\* challenge the visitor is still solving is never reset away.
TokenPaysOnce ==
    /\ BotTypeOK
    /\ \A a \in Actions : (slot[a].screen => slot[a].outstanding) /\ ~slot[a].wasted
    /\ \A c, d \in Calls :
          (c # d /\ ActionOf(c) = ActionOf(d) /\ call[c].token # NoToken)
            => call[c].token # call[d].token

=============================================================================
