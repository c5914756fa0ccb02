----------------------------- MODULE EdgeSafety -----------------------------
(***************************************************************************)
(* The floor under every turn: what of a child's line is answered by the   *)
(* deployment itself and never reaches a model (functions/api/_lib:        *)
(* safety.js, with the table of safety.rules.js).                          *)
(*                                                                         *)
(* A line is a sequence of tokens, each the stem of a word and the ways it *)
(* is disguised.  The table keeps its order, its actions and its redirect  *)
(* lines; a list of words or patterns is represented by a few of them.     *)
(***************************************************************************)
EXTENDS Integers, Sequences, SequencesExt, FiniteSets

Token(stem, disguise) == [stem |-> stem, disguise |-> disguise]
Plain(stem) == Token(stem, {})

\* Case, accents, characters that show nothing, a digit or a sign before a
\* letter: undone always.  Letters drawn out (to be one, or two), and marks
\* between letters: undone by a reading of its own each.
Undone == {"accent", "invisible", "leet"}
Disguises == Undone \union {"drawn", "doubled", "marked"}

\* The readings of a line, and what each of them undoes beside.
Reading == [base |-> {}, once |-> {"drawn"}, twice |-> {"doubled"}, folded |-> {"marked"}]

\* Mutant: marks between letters are kept.
MutMarksKept == {"base", "once", "twice"}

Forms == DOMAIN Reading

Normalize(line, form) ==
    [k \in DOMAIN line |->
        IF line[k].disguise \subseteq Undone \union Reading[form] THEN line[k].stem ELSE ""]

Variants(line) == {Normalize(line, form) : form \in Forms}

-----------------------------------------------------------------------------
(* The table                                                                *)

\* A pattern is a sequence of sets: at each place one word of the set.
Category(id, action, phraseSet, words, phrases, allow) ==
    [id |-> id, action |-> action, phraseSet |-> phraseSet, words |-> words,
     phrases |-> phrases, allow |-> allow]

Harms == {"kill", "hurt", "cut"}
Oneself == {"myself", "himself", "herself"}

SelfHarm == Category("self_harm", "block", "self_harm", {"suicide", "selfharm"},
    {<<Harms, Oneself>>, <<{"want", "plan"}, {"to"}, {"die", "disappear"}>>},
    {<<{"kill"}, {"myself"}, {"laughing"}>>, <<{"dying"}, {"of", "to"}>>})

Violence == Category("violence", "block", "generic", {"napalm"},
    {<<{"how"}, {"to"}, {"kill", "hurt"}, {"someone", "him"}>>, <<{"school"}, {"shooter"}>>}, {})

Sexual == Category("sexual", "block", "generic", {"nudes"},
    {<<{"have"}, {"sex"}>>}, {<<{"opposite"}, {"sex"}>>, <<{"sex"}, {"education"}>>})

Hate == Category("hate", "block", "hate", {"slur"},
    {<<{"go"}, {"back"}, {"to"}, {"your"}, {"country"}>>}, {<<{"flag"}, {"football"}>>})

PersonalInfo == Category("personal_info", "flag", "privacy", {},
    {<<{"my"}, {"address"}, {"is"}>>}, {<<{"my"}, {"address"}, {"is"}, {"a"}, {"secret"}>>})

Dangerous == Category("dangerous", "flag", "generic", {"huffing"},
    {<<{"drink", "eat"}, {"bleach"}>>}, {})

ViolenceTalk == Category("violence_talk", "flag", "generic", {},
    {<<{"hate"}, {"you", "him"}>>}, {<<{"hate"}, {"to"}, {"say"}>>})

Profanity == Category("profanity", "flag", "generic", {"swear"}, {}, {})

Table == <<SelfHarm, Violence, Sexual, Hate, PersonalInfo, Dangerous, ViolenceTalk, Profanity>>

Redirect(id, mood, gesture) == [id |-> id, mood |-> mood, gesture |-> gesture]

Phrases == [
    self_harm |-> <<Redirect(101, "sad", "Gesture_Self"), Redirect(102, "sad", "Gesture_Self")>>,
    hate |-> <<Redirect(201, "sad", "Gesture_Self"), Redirect(202, "sad", "Gesture_Self")>>,
    privacy |-> <<Redirect(301, "neutral", "Gesture_Think"),
                  Redirect(302, "neutral", "Gesture_Think")>>,
    generic |-> <<Redirect(401, "sad", "Gesture_Think"), Redirect(402, "sad", "Gesture_Think")>>]

-----------------------------------------------------------------------------
(* The verdict                                                              *)

\* A pattern stands at place k of a reading.
StandsAt(pattern, text, k) ==
    /\ k + Len(pattern) - 1 <= Len(text)
    /\ \A j \in DOMAIN pattern : text[k + j - 1] \in pattern[j]

Stands(pattern, text) == \E k \in DOMAIN text : StandsAt(pattern, text, k)

\* The spans a guard allows are taken out, and their neighbours meet.
WithoutSpans(text, guard) ==
    LET hidden == {k \in DOMAIN text : \E j \in DOMAIN text :
                      StandsAt(guard, text, j) /\ k \in j .. j + Len(guard) - 1} IN
    FoldLeftDomain(LAMBDA kept, k : IF k \in hidden THEN kept ELSE Append(kept, text[k]),
                   <<>>, text)

Unguarded(text, cat) ==
    FoldLeft(LAMBDA t, guard : WithoutSpans(t, guard), text, SetToSeq(cat.allow))

Matches(cat, line) ==
    \E form \in Variants(line) :
        LET text == Unguarded(form, cat) IN
        \/ \E k \in DOMAIN text : text[k] \in cat.words
        \/ \E pattern \in cat.phrases : Stands(pattern, text)

\* The first line of the set for an even length, the second for an odd one.
RedirectFor(phraseSet, size) ==
    LET set == Phrases[phraseSet] IN set[(size % Len(set)) + 1]

NoRedirect == Redirect(0, "neutral", "")

\* What the table says of a line; the first category that blocks picks the set.
Assess(line, size) ==
    LET of(action) == SelectSeq(Table, LAMBDA c : c.action = action /\ Matches(c, line)) IN
    [blocked |-> of("block") # <<>>,
     flagged |-> of("flag") # <<>>,
     redirect |-> IF of("block") = <<>> THEN NoRedirect
                  ELSE RedirectFor(of("block")[1].phraseSet, size)]

-----------------------------------------------------------------------------
(* What the floor promises                                                  *)

\* The words the promise is checked with: a guard, what it guards, a word of a
\* list and an innocent one.
Probed == {"kill", "myself", "laughing", "suicide", "hello"}

PlainLine(stems) == [k \in DOMAIN stems |-> Plain(stems[k])]

\* The mentions of a line as it reads: the names of the blocking categories.
Mentions(stems) ==
    {c \in {Table[k] : k \in DOMAIN Table} :
        /\ c.action = "block"
        /\ \/ \E k \in DOMAIN stems : stems[k] \in c.words
           \/ \E pattern \in c.phrases : Stands(pattern, stems)}

GuardedLine(stems) ==
    \E c \in Mentions(stems) : \E guard \in c.allow : Stands(guard, stems)

\* safety.js: a line that names a blocked thing, in the plain or with one kind
\* of disguise all over it, is blocked and answered with the line of the first
\* category it names; a line that names none is not blocked, however disguised;
\* and a guard hides the mention it is for and no other.
FloorHoldsFor(stems) ==
    /\ \A disguise \in {{}} \union {{d} : d \in Disguises} :
          LET line == [k \in DOMAIN stems |-> Token(stems[k], disguise)] IN
          /\ Mentions(stems) # {} /\ ~GuardedLine(stems) => Assess(line, 0).blocked
          /\ Mentions(stems) = {} /\ ~GuardedLine(stems) => ~Assess(line, 0).blocked
    /\ stems = <<"kill", "myself", "laughing">> => ~Assess(PlainLine(stems), 0).blocked
    /\ "suicide" \in ToSet(stems) =>
          Assess(PlainLine(stems), 0).redirect = Phrases["self_harm"][1]

FloorMeetsItsTable ==
    \A n \in 1 .. 3 : \A stems \in [1 .. n -> Probed] : FloorHoldsFor(stems)

=============================================================================
