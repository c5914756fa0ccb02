----------------------------- MODULE EdgeChunks -----------------------------
(***************************************************************************)
(* A reply cut into the chunks her voice is synthesised in, and what of a  *)
(* conversation the signed context keeps (functions/api/_lib/hmac.js).     *)
(* The words of a text joined with spaces are the text, braces included.   *)
(***************************************************************************)
EXTENDS EdgeReply

MaxSpeechChunks == 3
MinChunkChars == 24

\* Drawings and leftovers are as long as they happen to be; here, a few words.
LenOf(w) == IF w \in DOMAIN Lexicon THEN Lexicon[w].len ELSE IF w = "}" THEN 1 ELSE 12

Size(text) ==
    Fold(LAMBDA n, w : IF n = 0 THEN LenOf(w) ELSE n + 1 + LenOf(w), 0, text)

\* A sentence ends after . ! or ?, not after an ellipsis, an abbreviation or
\* an initial.
EndsSentence(text, k) ==
    k = Len(text) \/ EndingOf(text[k]) \in {"stop", "ask", "shout"}

SplitSentences(text) ==
    LET Take(s, k) ==
          LET cur == Append(s.cur, text[k]) IN
          IF EndsSentence(text, k)
          THEN [out |-> Append(s.out, cur), cur |-> <<>>]
          ELSE [s EXCEPT !.cur = cur] IN
    Fold(Take, [out |-> <<>>, cur |-> <<>>], [k \in DOMAIN text |-> k]).out

\* How many words of a text fit in `room`.
Fitting(text, room) ==
    CHOOSE n \in 0 .. Len(text) :
        /\ n > 0 => Size(SubSeq(text, 1, n)) <= room
        /\ n < Len(text) => Size(SubSeq(text, 1, n + 1)) > room

\* An over-long sentence in pieces that fit; no word is longer than the cap.
CutToFit(sentence, cap) ==
    LET Take(s, k) ==
          LET cur == Append(s.cur, sentence[k]) IN
          IF s.cur = <<>> \/ Size(cur) <= cap
          THEN [s EXCEPT !.cur = cur]
          ELSE [out |-> Append(s.out, s.cur), cur |-> <<sentence[k]>>]
        all == Fold(Take, [out |-> <<>>, cur |-> <<>>], [k \in DOMAIN sentence |-> k]) IN
    Append(all.out, all.cur)

\* One piece more: it joins the chunk before it if one of them is short, and
\* the last chunk takes what still fits.
Pack(s, p, cap) ==
    LET last == Len(s.chunks) = MaxSpeechChunks - 1
        small == Size(s.cur) < MinChunkChars \/ Size(p) < MinChunkChars
        joins == (last \/ small) /\ Size(s.cur \o p) <= cap IN
    CASE s.full -> s
      [] ~s.full /\ s.cur = <<>> -> [s EXCEPT !.cur = p]
      [] ~s.full /\ s.cur # <<>> /\ joins -> [s EXCEPT !.cur = @ \o p]
      [] ~s.full /\ s.cur # <<>> /\ ~joins /\ last ->
            [s EXCEPT !.full = TRUE,
                      !.cur = @ \o SubSeq(p, 1, Fitting(p, cap - Size(@) - 1))]
      [] OTHER -> [s EXCEPT !.chunks = Append(@, s.cur), !.cur = p]

Packed(pieces, cap) ==
    Fold(LAMBDA s, p : Pack(s, p, cap), [chunks |-> <<>>, cur |-> <<>>, full |-> FALSE], pieces)

Pieces(sentences, cap) == Fold(LAMBDA out, s : out \o CutToFit(s, cap), <<>>, sentences)

AllChunks(packed) ==
    IF packed.cur = <<>> THEN packed.chunks ELSE Append(packed.chunks, packed.cur)

SplitForSpeech(text) ==
    LET cap == IntOf("DEMO_MAX_TTS_CHARS") IN
    AllChunks(Packed(Pieces(SplitSentences(text), cap), cap))

-----------------------------------------------------------------------------
(* What the context keeps                                                   *)

\* A message is whose it is and how long it is; of Moxie's, the text too.  Each is
\* cut to the input cap; part of a word may be lost with it.
Cut(m) ==
    LET cap == IntOf("DEMO_MAX_INPUT_CHARS") IN
    IF m.size <= cap THEN m
    ELSE IF m.role = "user" THEN [m EXCEPT !.size = cap]
    ELSE [m EXCEPT !.size = cap, !.text = SubSeq(@, 1, Fitting(@, cap))]

\* clampTurns: the last so many messages (slice(-0) keeps all), and of those the
\* latest that are not too long together.
ClampTurns(history) ==
    LET most == IntOf("DEMO_MAX_HISTORY_TURNS")
        FromEnd(n) == Cut(history[Len(history) - n + 1])
        chars[n \in 0 .. Len(history)] ==
            IF n = 0 THEN 0 ELSE chars[n - 1] + FromEnd(n).size
        kept == Max({n \in DOMAIN chars : (most = 0 \/ n <= most)
                        /\ chars[n] <= IntOf("DEMO_MAX_CONTEXT_CHARS")}) IN
    [k \in 1 .. kept |-> FromEnd(kept - k + 1)]

=============================================================================
