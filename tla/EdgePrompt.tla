----------------------------- MODULE EdgePrompt -----------------------------
(***************************************************************************)
(* What the gateway is asked for a turn: the move Moxie is told to make    *)
(* (functions/api/_lib/turnshape.js) and the body that says so (prompt.js).*)
(***************************************************************************)
EXTENDS EdgeChunks

-----------------------------------------------------------------------------
(* The move                                                                 *)

Shapes == <<"tell", "ask", "offer">>

\* The ending of a line, braces after it aside.
LastEnding(text) ==
    LET words == SelectSeq(text, LAMBDA w : w # "}") IN
    IF words = <<>> THEN "none" ELSE EndingOf(Last(words))

\* A question hands the turn back, whatever else it proposes.
ShapeOf(text) ==
    IF LastEnding(text) = "ask" THEN "ask"
    ELSE IF \E k \in DOMAIN text : "propose" \in HintsOf(text[k]) THEN "offer" ELSE "tell"

Hers(history) == SelectSeq(history, LAMBDA m : m.role = "assistant")
ShapesOf(history) == [k \in DOMAIN Hers(history) |-> ShapeOf(Hers(history)[k].text)]

\* The first move that is none of her last two.
NextShape(history) ==
    LET made == ShapesOf(history)
        recent == {made[k] : k \in {j \in DOMAIN made : j > Len(made) - 2}} IN
    Head(SelectSeq(Shapes, LAMBDA s : s \notin recent))

\* The grammar of a leave-taking, over what its words are: lead-ins, then one
\* or two closings, each with a tail, a name and a companion if there are any.
Maybe(class) == {<<>>, <<class>>}
OneClosing ==
    {<<"closing">> \o tail \o name \o more \o again :
        tail \in Maybe("tail"), name \in Maybe("name"),
        more \in Maybe("companion"), again \in Maybe("name")}
Closings == OneClosing \union {one \o two : one \in OneClosing, two \in OneClosing}

\* The whole line is a leave-taking, hearts and smileys after it aside.
IsGoodbye(said) ==
    LET words == SelectSeq(said.words, LAMBDA w : w # "decoration")
        leads == {n \in 0 .. Len(words) : \A k \in 1 .. n : words[k] = "lead"} IN
    \E n \in leads : SubSeq(words, n + 1, Len(words)) \in Closings

MoveFor(history, said) == IF IsGoodbye(said) THEN "close" ELSE NextShape(history)

TurnShape == SwitchOf("DEMO_TURN_SHAPE", TRUE)

Cue(history, said) == IF TurnShape THEN MoveFor(history, said) ELSE "none"

-----------------------------------------------------------------------------
(* The body                                                                 *)

Unless(absent, part) == IF absent THEN <<>> ELSE <<part>>

\* Everything the model reads, in order: ours first and last, or with the
\* layout for templates that take one system message, ours and then the child.
Messages(history, wants, passage, avoid) ==
    LET reference == Unless(passage = "none", "reference")
        drawing == Unless(~wants, "drawing")
        again == Unless(avoid = <<>>, "again")
        spoken == [k \in DOMAIN history |-> history[k].role] IN
    IF PromptLayout = "single"
    THEN <<"persona", "anchor">> \o reference \o drawing \o <<"format">> \o again
            \o spoken \o <<"user">>
    ELSE <<"persona">> \o spoken \o reference \o drawing
            \o <<"user", "anchor", "format">> \o again

\* The request of one turn.  `avoid` is the line it must not repeat.
BuildUpstreamBody(history, said, avoid, passage, penalties) == [
    cue |-> Cue(history, said),
    avoid |-> Norm(avoid),
    passage |-> passage,
    messages |-> Messages(history, said.draws, passage, avoid),
    maxTokens |-> IntOf("DEMO_MAX_TOKENS"),
    penalties |-> penalties /\ Penalties]

=============================================================================
