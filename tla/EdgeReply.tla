----------------------------- MODULE EdgeReply -----------------------------
(***************************************************************************)
(* From what the gateway completed a turn with to the line Moxie says, the *)
(* face she wears and the picture she shows: functions/api/_lib/reply.js   *)
(* and the markup floor of wire.js.                                        *)
(*                                                                         *)
(* A completion is a sequence of pieces: words, thinking tags, a stray     *)
(* closing brace, fenced drawings and JSON objects with the fields         *)
(* somebody could read out of them, broken or not.  A text is a sequence   *)
(* of names: words, and what a voice cannot say ("}", "drawing" for the    *)
(* source of one, "fields" for what is left of an object in the prose).    *)
(***************************************************************************)
EXTENDS EdgeConfig, Sequences, SequencesExt

CONSTANT
    Lexicon     \* word -> its length, how it ends, its stem, what it hints at

Unspeakable == {"}", "drawing", "fields"}

ASSUME LexiconAssumption ==
    \A w \in DOMAIN Lexicon :
        /\ w \notin Unspeakable
        /\ Lexicon[w].len \in Nat \ {0}
        /\ Lexicon[w].ending \in {"none", "stop", "dots", "short", "ask", "shout"}

EndingOf(w) == IF w \in DOMAIN Lexicon THEN Lexicon[w].ending ELSE "none"
HintsOf(w) == IF w \in DOMAIN Lexicon THEN Lexicon[w].hints ELSE {}
StemOf(w) == IF w \in DOMAIN Lexicon THEN Lexicon[w].stem ELSE IF w = "}" THEN "" ELSE w

-----------------------------------------------------------------------------
(* A completion                                                             *)

Said(w) == [is |-> "word", word |-> w]
Tag(which) == [is |-> which]                        \* "think" or "unthink"
Brace == [is |-> "brace"]
Drawing(picture) == [is |-> "drawing", picture |-> picture, closed |-> TRUE]
OpenDrawing == [is |-> "drawing", picture |-> "none", closed |-> FALSE]
Object(fields) == [is |-> "object", fields |-> fields]
Leftover == [is |-> "fields"]                       \* an object without its braces

Only(body, kind) == SelectSeq(body, LAMBDA p : p.is = kind)
Without(body, kind) == SelectSeq(body, LAMBDA p : p.is # kind)

\* What an unclosed drawing swallows is the drawing: it ends the completion.
WellShaped(raw) ==
    \A k \in DOMAIN raw : raw[k].is = "drawing" /\ ~raw[k].closed => k = Len(raw)

\* No thinking is kept: not a block, not one that never ends, not what comes
\* before the end of one the template opened.
WithoutThoughts(raw) ==
    LET Hear(s, p) ==
          CASE p.is = "think" -> [s EXCEPT !.thinking = TRUE]
            [] p.is = "unthink" -> [body |-> IF s.thinking THEN s.body ELSE <<>>,
                                    thinking |-> FALSE]
            [] OTHER -> IF s.thinking THEN s ELSE [s EXCEPT !.body = Append(@, p)] IN
    Fold(Hear, [body |-> <<>>, thinking |-> FALSE], raw).body

\* Later objects win, field by field.
Merged(objects) == Fold(LAMBDA m, o : o.fields @@ m, <<>>, objects)

Braceless(body) ==
    [k \in DOMAIN Without(body, "brace") |->
        LET p == Without(body, "brace")[k] IN IF p.is = "object" THEN Leftover ELSE p]

FieldOr(fields, k, none) == IF k \in DOMAIN fields THEN fields[k] ELSE none

Saying(fields) == FieldOr(fields, "say", <<>>)

\* Mutant: what the line itself quotes is not looked into, and keeps its braces.
MutSaidAsWritten(fields, inner) == [text |-> fields.say, fields |-> fields]

\* An object's `say` is the line, unwrapped once if it is an object itself.
Unwrapped(fields, inner) ==
    IF Saying(inner) # <<>>
    THEN [text |-> Braceless(inner.say), fields |-> fields @@ inner]
    ELSE [text |-> Braceless(fields.say), fields |-> fields]

\* With no object the line is the prose as it stands, with no `say` at all it is
\* the prose around the objects.
LineOf(body, fields) ==
    CASE Only(body, "object") = <<>> -> [text |-> body, fields |-> <<>>]
      [] Only(body, "object") # <<>> /\ Saying(fields) = <<>> ->
            [text |-> Braceless(Without(body, "object")), fields |-> <<>>]
      [] OTHER -> Unwrapped(fields, Merged(Only(fields.say, "object")))

\* The line and the other fields.
ParseBody(body) == LineOf(body, Merged(Only(body, "object")))
ParseExpressive(raw) == ParseBody(WithoutThoughts(raw))

\* A drawing out of the words: the first closed one, wherever it stands.
SplitDiagram(text) ==
    LET at == SelectInSeq(text, LAMBDA p : p.is = "drawing" /\ p.closed) IN
    IF at = 0 THEN [spoken |-> text, picture |-> "none"]
    ELSE [spoken |-> RemoveAt(text, at), picture |-> text[at].picture]

NameOf(p) ==
    CASE p.is = "word" -> p.word
      [] p.is = "brace" -> "}"
      [] OTHER -> p.is

\* What a completion serves: a line, and the face and picture that go with it.
\* No line at all is no answer.  "long" is a drawing over 1200 characters: a
\* field is cut to that, a fence is dropped.
ServeParsed(split, fields) ==
    [text |-> Fold(LAMBDA text, p : Append(text, NameOf(p)), <<>>, split.spoken),
     mood |-> FieldOr(fields, "mood", ""),
     gesture |-> FieldOr(fields, "gesture", ""),
     picture |-> FieldOr(fields, "diagram",
                         IF split.picture = "long" THEN "none" ELSE split.picture)]
ServeSplit(parsed) == ServeParsed(SplitDiagram(parsed.text), parsed.fields)
Serve(raw) == ServeSplit(ParseExpressive(raw))

\* The shapes a line with something unspeakable in it can come from: prose with
\* a stray brace, or drawings that are not one closed fence.
CarelessLine(body, text) ==
    \/ Only(body, "object") = <<>> /\ Only(text, "brace") # <<>>
    \/ Len(Only(text, "drawing")) > 1
    \/ \E k \in DOMAIN text : text[k].is = "drawing" /\ ~text[k].closed
    \/ Only(text, "fields") # <<>>
Careless(raw) == CarelessLine(WithoutThoughts(raw), ParseExpressive(raw).text)

\* The same words, whatever the case and the punctuation.
Norm(text) == SelectSeq([k \in DOMAIN text |-> StemOf(text[k])], LAMBDA s : s # "")

-----------------------------------------------------------------------------
(* The markup floor                                                         *)

Moods == {"neutral", "happy", "sad", "angry", "shy", "surprised", "afraid",
          "concerned", "confused", "curious", "embarrassed"}

GestureByName == [
    none |-> "Gesture_None", talk |-> "Gesture_Talk", think |-> "Gesture_Think",
    question |-> "Gesture_Question", point |-> "Gesture_Point", self |-> "Gesture_Self",
    big |-> "Gesture_Large", large |-> "Gesture_Large", up |-> "Gesture_Higher",
    down |-> "Gesture_Lower", celebrate |-> "Gesture_Celebrate"]

SignOff == "Bht_Sign_off"
TreeByName == [wave |-> SignOff]

\* What a line that ends in "?" or "!" says, and the hints of its words.
SignsOf(text) ==
    UNION {HintsOf(text[k]) : k \in DOMAIN text} \union
        (IF text = <<>> THEN {} ELSE {EndingOf(Last(text))})

Rule(sign, mood, gesture) == [sign |-> sign, mood |-> mood, gesture |-> gesture]

Floor == <<Rule("sad", "sad", "Gesture_Self"),
           Rule("wow", "surprised", "Gesture_Large"),
           Rule("hooray", "happy", "Gesture_Celebrate"),
           Rule("ask", "curious", "Gesture_Question"),
           Rule("maybe", "curious", "Gesture_Think"),
           Rule("shout", "happy", "Gesture_Celebrate")>>

FloorDefault == Rule("none", "happy", "Gesture_Talk")

Icons == <<"birthday", "school", "star", "music">>

\* Field by field the model's own choice, if there is such a mood or gesture;
\* its "happy" yields to a rule the words match; a whole-body tree takes the
\* gesture's place, the route's before the model's.
MarkupFloor(line, tree) ==
    LET signs == SignsOf(line.text)
        matched == SelectSeq(Floor, LAMBDA rule : rule.sign \in signs)
        floor == IF matched = <<>> THEN FloorDefault ELSE matched[1]
        icons == SelectSeq(Icons, LAMBDA i : i \in signs)
        overruled == line.mood = "happy" /\ matched # <<>> IN
    [mood |-> IF line.mood \in Moods /\ ~overruled THEN line.mood ELSE floor.mood,
     body |-> IF tree # "" THEN tree
              ELSE IF line.gesture \in DOMAIN TreeByName THEN TreeByName[line.gesture]
              ELSE IF line.gesture \in DOMAIN GestureByName THEN GestureByName[line.gesture]
              ELSE floor.gesture,
     icon |-> IF icons = <<>> THEN "none" ELSE icons[1]]

=============================================================================
