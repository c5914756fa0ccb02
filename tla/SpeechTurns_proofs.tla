------------------------- MODULE SpeechTurns_proofs -------------------------
(***************************************************************************)
(* Proofs about SpeechTurns, for every set of turns and every number of    *)
(* tickets: the older of two replies gives way to the newer one, and a     *)
(* murmur does not begin while a chunk of an answer is on the speakers.    *)
(*                                                                         *)
(* The first rests on what pump() leaves unsaid: a voice that is still     *)
(* open was not overtaken by a newer one (OpenIsNewest), because whatever  *)
(* takes the speakers first closes every older voice that is open; and a   *)
(* reply routes nothing before its turn was answered (Staged), so that a   *)
(* voice begins once.  The second rests on the floor: a chunk takes it     *)
(* when it starts, so a murmur still loads only if none is playing (Quiet).*)
(***************************************************************************)
EXTENDS SpeechTurns, FiniteSetTheorems, TLAPS

-----------------------------------------------------------------------------
(* The player                                                               *)

\* While a murmur is loading, no chunk is playing.
Quiet(v) ==
    /\ {"murmur", "playing"} \subseteq DOMAIN v
    /\ v.murmur => v.playing = NoChunk

LEMMA InitQuiet == Init => Quiet(player)
  BY SMT DEF Init, PlayerInit, Quiet

LEMMA StopQuiet == ASSUME NEW v, Quiet(v) PROVE Quiet(Stop(v)) /\ Stop(v).playing = v.playing
  BY SMT DEF Stop, Quiet

LEMMA SpeakQuiet == ASSUME NEW v, NEW t, Quiet(v) PROVE Quiet(Speak(v, t))
  BY StopQuiet, SMT DEF Speak, Quiet, TakeFloor

\* Every field the argument reads is there.
HasFloor(v) == {"murmur", "playing"} \subseteq DOMAIN v

LEMMA BeginKeeps == ASSUME NEW v, NEW item, HasFloor(v) PROVE HasFloor(Begin(v, item))
  <1> DEFINE q == IF v.utter.reply \in {Nobody, item.reply} THEN v.queue
                  ELSE SelectSeq(v.queue, LAMBDA x : x.reply # v.utter.reply)
             u == [reply |-> item.reply, next |-> item.chunk + 1, idle |-> FALSE]
  <1>1. Begin(v, item) = [v EXCEPT !.queue = q, !.utter = u]
    BY DEF Begin
  <1> HIDE DEF q, u
  <1> QED
    BY <1>1, SMT DEF HasFloor

LEMMA StartQuiet == ASSUME NEW v, NEW k, Quiet(v) PROVE Quiet(Start(v, k))
  <1> DEFINE item == v.queue[k]
             x == [v EXCEPT !.queue = RemoveAt(@, k)]
             b == Begin(x, item)
             w == TakeFloor(b)
  <1>1. HasFloor(x)
    <2> DEFINE rest == RemoveAt(v.queue, k)
    <2>1. x = [v EXCEPT !.queue = rest]
      OBVIOUS
    <2> HIDE DEF rest, x
    <2> QED
      BY <2>1, SMT DEF HasFloor, Quiet
  <1> HIDE DEF x
  <1>2. HasFloor(b)
    BY <1>1, BeginKeeps
  <1> HIDE DEF b
  <1>3. HasFloor(w) /\ w.murmur = FALSE
    BY <1>2, SMT DEF HasFloor, TakeFloor
  <1> HIDE DEF w
  <1> DEFINE s == w.sounding \ {v.current}
             h == Append(w.heard, HersOf(item))
  <1>4. Start(v, k) = [w EXCEPT !.playing = item, !.cut = FALSE, !.current = Cloud,
                                !.gapTimer = FALSE, !.gapFilled = FALSE,
                                !.sounding = s, !.heard = h]
    BY DEF Start, w, b, x
  <1> HIDE DEF item, s, h
  <1> QED
    BY <1>3, <1>4, SMT DEF Quiet, HasFloor

LEMMA PumpQuiet == ASSUME NEW v, Quiet(v) PROVE Quiet(Pump(v))
  <1> DEFINE ready == {k \in DOMAIN v.queue : Startable(v, v.queue[k])}
  <1> HIDE DEF ready
  <1>1. CASE v.playing # NoChunk
    BY <1>1 DEF Pump
  <1>2. ASSUME NEW k PROVE Quiet(Start(v, k))
    BY StartQuiet
  <1>3. /\ Quiet([v EXCEPT !.gapTimer = FALSE, !.gapFilled = FALSE,
                     !.utter.idle = (v.utter.reply # Nobody)])
        /\ Quiet([v EXCEPT !.gapTimer = TRUE])
    BY SMT DEF Quiet
  <1> QED
    BY <1>1, <1>2, <1>3 DEF Pump, ready

LEMMA PlayCloudQuiet == ASSUME NEW v, NEW item, Quiet(v) PROVE Quiet(PlayCloud(v, item))
  <1> DEFINE e == Enqueue(v.queue, item)
  <1>1. Quiet([v EXCEPT !.queue = e])
    <2> HIDE DEF e
    <2> QED
      BY SMT DEF Quiet
  <1> QED
    BY <1>1, PumpQuiet DEF PlayCloud

LEMMA RouteTtsQuiet ==
  ASSUME NEW v, NEW item, Quiet(v) PROVE Quiet(RouteTts(v, item))
  <1> DEFINE x == [v EXCEPT !.voices[item.reply] = "voiced", !.held = @ \ {item.reply}]
  <1>1. Quiet(x)
    BY SMT DEF Quiet
  <1> HIDE DEF x
  <1>2. Quiet(PlayCloud(x, item))
    BY <1>1, PlayCloudQuiet
  <1> QED
    BY <1>2 DEF RouteTts, x

LEMMA RouteWordsQuiet ==
  ASSUME NEW v, NEW t, Quiet(v) PROVE Quiet(RouteWords(v, t))
  <1>1. Quiet([v EXCEPT !.held = @ \union {t}])
    BY SMT DEF Quiet
  <1> QED
    BY <1>1, SpeakQuiet DEF RouteWords

LEMMA ReleaseQuiet == ASSUME NEW v, NEW t, Quiet(v) PROVE Quiet(Release(v, t))
  <1> DEFINE w == [v EXCEPT !.voices[t] = "none", !.held = @ \ {t}]
  <1>1. Quiet(w)
    BY SMT DEF Quiet
  <1> HIDE DEF w
  <1>2. Quiet(Speak(w, t))
    BY <1>1, SpeakQuiet
  <1> QED
    BY <1>1, <1>2 DEF Release, w

LEMMA SpeakMurmurQuiet ==
  ASSUME NEW v, Quiet(v), ~Speaking(v) PROVE Quiet(SpeakMurmur(v))
  <1>1. Quiet(Stop(v)) /\ Stop(v).playing = NoChunk
    BY StopQuiet DEF Speaking
  <1> QED
    BY <1>1, SMT DEF SpeakMurmur, Quiet

LEMMA ManneredQuiet ==
  ASSUME NEW v, NEW t, Quiet(v)
  PROVE  /\ Quiet(Thinks(v)) /\ Quiet(Converses(v)) /\ Quiet(Settles(v))
         /\ Quiet(Expect(v, t))
         /\ Settles(v).playing = v.playing /\ Settles(v).current = v.current
  BY SMT DEF Quiet, Thinks, Converses, Settles, Expect

LEMMA SoundsQuiet ==
  ASSUME NEW v, NEW x, NEW synth, Quiet(v) PROVE Quiet(Sounds(v, x, synth))
  BY SMT DEF Quiet, Sounds

\* What the player does by itself, and what is said in a silence.
LEMMA PlayerStaysQuiet ==
  ASSUME Quiet(player), PlayerNext \/ FillerBeat \/ MutterTicks \/ HoldLapses
  PROVE  Quiet(player')
  <1>1. CASE ChunkEnds
    <2> DEFINE x == [player EXCEPT !.playing = NoChunk, !.cut = FALSE,
                       !.current = IF @ = Cloud THEN Nobody ELSE @]
    <2>1. Quiet(x)
      BY SMT DEF Quiet
    <2> HIDE DEF x
    <2> QED
      BY <1>1, <2>1, PumpQuiet DEF ChunkEnds, x
  <1>2. CASE GapFires
    <2> DEFINE x == [player EXCEPT !.gapTimer = FALSE,
                       !.gapFilled = @ \/ player.playing = NoChunk]
    <2>1. Quiet(x)
      BY SMT DEF Quiet
    <2> HIDE DEF x
    <2> QED
      BY <1>2, <2>1, PumpQuiet DEF GapFires, x
  <1>3. CASE UtteranceGoesStale
    BY <1>3, SMT DEF UtteranceGoesStale, Quiet
  <1>4. CASE MurmurStarts
    <2> DEFINE x == [player EXCEPT !.murmur = FALSE]
    <2>1. Quiet(x)
      BY SMT DEF Quiet
    <2> HIDE DEF x
    <2>2. PICK synth \in BOOLEAN : player' = Sounds(x, Murmur, synth)
      BY <1>4 DEF MurmurStarts, x
    <2> QED
      BY <2>1, <2>2, SoundsQuiet
  <1>5. ASSUME NEW t, ClipEnds(t) \/ SynthEnds(t) PROVE Quiet(player')
    <2> DEFINE c == IF player.current = t THEN Nobody ELSE player.current
               o == player.sounding \ {t}
    <2> HIDE DEF c, o
    <2>1. CASE ClipEnds(t)
      <3>1. player' = [player EXCEPT !.sounding = o, !.current = c]
        BY <2>1 DEF ClipEnds, o, c
      <3> QED
        BY <3>1, SMT DEF Quiet
    <2>2. CASE SynthEnds(t)
      <3>1. player' = [player EXCEPT !.synth = @ \ {t}, !.sounding = o, !.current = Nobody]
        BY <2>2 DEF SynthEnds, o
      <3> QED
        BY <3>1, SMT DEF Quiet
    <2> QED
      BY <1>5, <2>1, <2>2
  <1>6. ASSUME NEW t, LocalStarts(t) PROVE Quiet(player')
    <2> DEFINE h == Append(player.heard, LocalOf(t))
               x == [player EXCEPT !.loading = @ \ {t}, !.heard = h]
    <2>1. PICK synth \in BOOLEAN : player' = Sounds(x, t, synth)
      BY <1>6 DEF LocalStarts
    <2> HIDE DEF h
    <2>2. Quiet(x)
      BY SMT DEF Quiet
    <2> HIDE DEF x
    <2> QED
      BY <2>1, <2>2, SoundsQuiet
  <1>7. CASE FillerBeat
    <2>1. Quiet(Settles(player)) /\ (Speaking(Settles(player)) <=> Speaking(player))
      BY ManneredQuiet DEF Speaking
    <2>2. ~Speaking(player) => Quiet(SpeakMurmur(Settles(player)))
      BY <2>1, SpeakMurmurQuiet
    <2> QED
      BY <1>7, <2>1, <2>2 DEF FillerBeat
  <1>8. CASE MutterTicks
    BY <1>8, SpeakMurmurQuiet DEF MutterTicks
  <1>9. CASE HoldLapses
    BY <1>9, SMT DEF HoldLapses, Quiet
  <1> QED
    BY <1>1, <1>2, <1>3, <1>4, <1>5, <1>6, <1>7, <1>8, <1>9 DEF PlayerNext

-----------------------------------------------------------------------------
(* The page                                                                 *)

Item == [reply : Turns \union {Notice}, chunk : Nat, local : BOOLEAN]

LEMMA NoticeIsNoTurn == Notice \notin Turns
  BY SpeechAssumption DEF NoTurns

\* The voice of a reply stays open until its last chunk was routed, unless
\* the reply gave way or its voice was given up.
TurnOK(q) ==
    /\ {"pc", "seq", "chunks", "landed", "settled", "started", "next", "open",
        "voiced", "over", "superseded", "failed"} \subseteq DOMAIN q
    /\ q.seq \in Nat /\ q.chunks \in Nat /\ q.next \in Nat /\ q.next >= 1
    /\ q.started \in Nat /\ q.started <= q.chunks
    /\ (~q.over /\ q.next < q.chunks) => q.open

Shaped(s) ==
    /\ {"turn", "player", "routed"} \subseteq DOMAIN s
    /\ DOMAIN s.turn = Turns
    /\ \A t \in Turns : TurnOK(s.turn[t])
    /\ s.routed \in Seq(Item)

\* PlaceOf and OlderGivesWay, of a page.
Place(s, x) == IF x = Notice THEN 0 ELSE s.turn[x].seq

GivesWay(s) ==
    \A i, j, k \in DOMAIN s.routed :
      (/\ i < j /\ j < k /\ s.routed[j].chunk = 0
       /\ s.routed[i].reply = s.routed[k].reply /\ s.routed[i].reply # Notice)
        => Place(s, s.routed[j].reply) <= Place(s, s.routed[k].reply)

\* A reply whose voice is open was not overtaken by a newer one since it began.
OpenIsNewest(s) ==
    \A i, j \in DOMAIN s.routed :
      (/\ i < j /\ s.routed[j].chunk = 0
       /\ s.routed[i].reply \in Turns /\ s.turn[s.routed[i].reply].open)
        => Place(s, s.routed[j].reply) <= Place(s, s.routed[i].reply)

Sound(s) == Shaped(s) /\ GivesWay(s) /\ OpenIsNewest(s) /\ Quiet(s.player)

NotBegun(s, t) == \A i \in DOMAIN s.routed : s.routed[i].reply # t

\* Nothing of a reply is routed before its turn was answered, and a turn that
\* does not wait for its voice has no voice or has been told of its first chunk.
Staged(s) ==
    \A t \in Turns :
      /\ s.turn[t].pc # "done" => NotBegun(s, t) /\ ~s.turn[t].voiced
      /\ s.turn[t].pc \notin {"racing", "waiting"} =>
            s.turn[t].chunks = 0 \/ s.turn[t].settled # {}

SpeechInv == Sound(Page) /\ Staged(Page) /\ posted \in Nat

-----------------------------------------------------------------------------
(* What changes one turn, the player, or the order of what is routed        *)

\* w is s with q for the turn t.
Sets(s, w, t, q) ==
    /\ w.turn[t] = q
    /\ \A u \in Turns \ {t} : w.turn[u] = s.turn[u]
    /\ w.routed = s.routed /\ w.player = s.player

LEMMA ItemsAreItems ==
  ASSUME NEW s, Sound(s)
  PROVE  \A i \in DOMAIN s.routed :
           /\ s.routed[i] \in Item
           /\ s.routed[i].reply \in Turns \union {Notice} /\ s.routed[i].chunk \in Nat
  <1>1. s.routed \in Seq(Item)
    BY DEF Sound, Shaped
  <1>2. \A i \in DOMAIN s.routed : s.routed[i] \in Item
    BY <1>1, SMT
  <1>3. \A x \in Item : x.reply \in Turns \union {Notice} /\ x.chunk \in Nat
    BY SMT DEF Item
  <1> QED
    BY <1>2, <1>3

\* The place of what was routed, and whether its voice is open, is read of s as of w.
ReadsAlike(s, w) ==
    \A i \in DOMAIN s.routed :
      /\ Place(w, s.routed[i].reply) = Place(s, s.routed[i].reply)
      /\ (s.routed[i].reply \in Turns /\ w.turn[s.routed[i].reply].open)
            => s.turn[s.routed[i].reply].open

LEMMA SameOrder ==
  ASSUME NEW s, Sound(s), NEW w, w.routed = s.routed, ReadsAlike(s, w)
  PROVE  GivesWay(w) /\ OpenIsNewest(w)
  BY DEF Sound, GivesWay, OpenIsNewest, ReadsAlike

LEMMA TurnSet ==
  ASSUME NEW s, Sound(s), NEW t \in Turns, NEW q, TurnOK(q),
         q.seq = s.turn[t].seq \/ NotBegun(s, t),
         q.open => (s.turn[t].open \/ NotBegun(s, t))
  PROVE  Sound([s EXCEPT !.turn[t] = q]) /\ Sets(s, [s EXCEPT !.turn[t] = q], t, q)
  <1> DEFINE w == [s EXCEPT !.turn[t] = q]
  <1>1. Sets(s, w, t, q) /\ DOMAIN w = DOMAIN s /\ DOMAIN w.turn = Turns
    BY SMT DEF Sets, Sound, Shaped
  <1> HIDE DEF w
  <1>2. Shaped(w)
    BY <1>1, SMT DEF Sets, Sound, Shaped
  <1>3. \A i \in DOMAIN s.routed : s.routed[i].reply \in Turns \union {Notice}
    BY ItemsAreItems
  <1>4. ReadsAlike(s, w)
    BY <1>1, <1>3 DEF Sets, NotBegun, ReadsAlike, Place
  <1>5. GivesWay(w) /\ OpenIsNewest(w)
    BY <1>1, <1>4, SameOrder DEF Sets
  <1>6. Quiet(w.player)
    BY <1>1 DEF Sets, Sound
  <1> QED
    BY <1>1, <1>2, <1>5, <1>6 DEF Sound, w

LEMMA PlayerSet ==
  ASSUME NEW s, Sound(s), NEW v, Quiet(v)
  PROVE  LET w == [s EXCEPT !.player = v]
         IN  Sound(w) /\ w.turn = s.turn /\ w.routed = s.routed /\ w.player = v
  <1> DEFINE w == [s EXCEPT !.player = v]
  <1>1. DOMAIN w = DOMAIN s /\ w.turn = s.turn /\ w.routed = s.routed /\ w.player = v
    BY SMT DEF Sound, Shaped
  <1> HIDE DEF w
  <1> QED
    BY <1>1 DEF Sound, Shaped, GivesWay, OpenIsNewest, Place, w

\* What may be routed: a first item of a reply that every open voice is at
\* least as new as, a further chunk of an open voice, or a notice.
MayRoute(s, x) ==
    /\ x \in Item
    /\ \/ /\ NotBegun(s, x.reply)
          /\ \A u \in Turns : s.turn[u].open => Place(s, x.reply) <= s.turn[u].seq
       \/ x.chunk >= 1 /\ x.reply \in Turns /\ s.turn[x.reply].open
       \/ x.reply = Notice

LEMMA Routing ==
  ASSUME NEW s, Sound(s), NEW x, MayRoute(s, x), NEW w,
         DOMAIN w = DOMAIN s, w.turn = s.turn, w.routed = Append(s.routed, x),
         Quiet(w.player)
  PROVE  Sound(w)
  <1> DEFINE n == Len(s.routed) + 1
  <1>1. /\ s.routed \in Seq(Item) /\ x \in Item /\ Len(s.routed) \in Nat
        /\ DOMAIN s.routed = 1 .. Len(s.routed)
    BY SMT DEF Sound, Shaped, MayRoute
  <1>2. /\ w.routed \in Seq(Item)
        /\ DOMAIN w.routed = DOMAIN s.routed \union {n}
        /\ w.routed[n] = x
        /\ \A i \in DOMAIN s.routed : w.routed[i] = s.routed[i] /\ i < n /\ i \in Nat
    BY <1>1, SMT
  <1>3. n \in Nat /\ \A i \in DOMAIN w.routed : i \in Nat /\ i <= n
    BY <1>1, <1>2, SMT
  <1> HIDE DEF n
  <1>4. \A i \in DOMAIN w.routed : i < n => i \in DOMAIN s.routed
    BY <1>2, <1>3, SMT
  <1>5. \A u \in Turns : s.turn[u].seq \in Nat
    BY DEF Sound, Shaped, TurnOK
  <1>6. \A y : Place(w, y) = Place(s, y)
    BY DEF Place
  <1>7. \A u \in Turns : Place(s, u) = s.turn[u].seq /\ Place(s, Notice) <= s.turn[u].seq
    <2>1. Place(s, Notice) = 0 /\ \A u \in Turns : Place(s, u) = s.turn[u].seq
      BY NoticeIsNoTurn DEF Place
    <2> QED
      BY <1>5, <2>1, SMT
  <1>8. Shaped(w)
    BY <1>2 DEF Sound, Shaped
  <1>9. GivesWay(w)
    <2> SUFFICES ASSUME NEW i \in DOMAIN w.routed, NEW j \in DOMAIN w.routed,
                        NEW k \in DOMAIN w.routed, i < j, j < k,
                        w.routed[i].reply = w.routed[k].reply, w.routed[j].chunk = 0,
                        w.routed[i].reply # Notice
                 PROVE  Place(s, w.routed[j].reply) <= Place(s, w.routed[k].reply)
      BY <1>6 DEF GivesWay
    <2>1. i \in DOMAIN s.routed /\ j \in DOMAIN s.routed /\ i < n /\ j < n
      BY <1>3, <1>4, SMT
    <2>2. CASE k = n
      <3>1. s.routed[i].reply = x.reply /\ s.routed[j].chunk = 0 /\ x.reply # Notice
        BY <1>2, <2>1, <2>2
      <3>2. x.reply \in Turns /\ s.turn[x.reply].open
        BY <2>1, <3>1 DEF MayRoute, NotBegun
      <3>3. Place(s, s.routed[j].reply) <= Place(s, s.routed[i].reply)
        BY <2>1, <3>1, <3>2 DEF Sound, OpenIsNewest
      <3> QED
        BY <1>2, <2>1, <2>2, <3>1, <3>3
    <2>3. CASE k # n
      <3>1. k \in DOMAIN s.routed
        BY <1>2, <2>3
      <3> QED
        BY <1>2, <2>1, <3>1 DEF Sound, GivesWay
    <2> QED
      BY <2>2, <2>3
  <1>10. OpenIsNewest(w)
    <2> SUFFICES ASSUME NEW i \in DOMAIN w.routed, NEW j \in DOMAIN w.routed, i < j,
                        w.routed[j].chunk = 0, w.routed[i].reply \in Turns,
                        s.turn[w.routed[i].reply].open
                 PROVE  Place(s, w.routed[j].reply) <= Place(s, w.routed[i].reply)
      BY <1>6 DEF OpenIsNewest
    <2>1. i \in DOMAIN s.routed
      BY <1>3, <1>4, SMT
    <2>2. CASE j = n
      <3>1. x.chunk = 0
        BY <1>2, <2>2
      <3>2. ~(x.chunk >= 1)
        BY <3>1, SMT
      <3> QED
        BY <1>2, <1>7, <2>1, <2>2, <3>2 DEF MayRoute
    <2>3. CASE j # n
      <3>1. j \in DOMAIN s.routed
        BY <1>2, <2>3
      <3> QED
        BY <1>2, <2>1, <3>1 DEF Sound, OpenIsNewest
    <2> QED
      BY <2>2, <2>3
  <1> QED
    BY <1>8, <1>9, <1>10 DEF Sound

LEMMA AppendsOther ==
  ASSUME NEW s, Sound(s), NEW x \in Item, NEW w, w.routed = Append(s.routed, x),
         NEW u, u # x.reply, NotBegun(s, u)
  PROVE  NotBegun(w, u)
  <1>1. s.routed \in Seq(Item)
    BY DEF Sound, Shaped
  <1>2. \A i \in DOMAIN w.routed : w.routed[i] = x \/ (i \in DOMAIN s.routed /\ w.routed[i] = s.routed[i])
    BY <1>1, SMT
  <1> QED
    BY <1>2 DEF NotBegun

-----------------------------------------------------------------------------
(* The steps of a pipeline                                                  *)

\* What only an action of the turn changes, or the start of its voice.
Alike(q, r) ==
    /\ r.pc = q.pc /\ r.seq = q.seq /\ r.voiced = q.voiced
    /\ r.chunks = q.chunks /\ r.settled = q.settled

\* From s to w nothing but what belongs to t was voiced, begun or answered.
Spares(s, w, t) ==
    \A u \in Turns \ {t} :
      Alike(s.turn[u], w.turn[u]) /\ (NotBegun(s, u) => NotBegun(w, u))

\* What a step for t keeps of the page.
Serves(s, w, t) ==
    /\ Sound(w) /\ Spares(s, w, t)
    /\ w.turn[t].pc = s.turn[t].pc /\ w.turn[t].settled = s.turn[t].settled

LEMMA GiveUpOK ==
  ASSUME NEW q, TurnOK(q)
  PROVE  TurnOK(GiveUp(q)) /\ Alike(q, GiveUp(q)) /\ GiveUp(q).open = FALSE
  BY SMT DEF GiveUp, TurnOK, Alike

LEMMA Superseding ==
  ASSUME NEW s, Sound(s), NEW n \in Nat
  PROVE  LET w == Supersede(s, n) IN
         /\ Sound(w) /\ DOMAIN w = DOMAIN s
         /\ w.routed = s.routed /\ w.player = s.player
         /\ \A u \in Turns : Alike(s.turn[u], w.turn[u])
         /\ \A u \in Turns : w.turn[u].open => n <= w.turn[u].seq
  <1> DEFINE w == Supersede(s, n)
             gone(q) == [GiveUp(q) EXCEPT !.superseded = TRUE]
             f == [t \in Turns |-> IF s.turn[t].open /\ s.turn[t].seq < n
                                   THEN gone(s.turn[t]) ELSE s.turn[t]]
  <1>1. ASSUME NEW t \in Turns
        PROVE  /\ TurnOK(s.turn[t])
               /\ TurnOK(gone(s.turn[t])) /\ Alike(s.turn[t], gone(s.turn[t]))
               /\ gone(s.turn[t]).open = FALSE
    <2> DEFINE q == s.turn[t]
               g == GiveUp(q)
    <2>1. TurnOK(q) /\ TurnOK(g) /\ Alike(q, g) /\ g.open = FALSE
      BY GiveUpOK DEF Sound, Shaped
    <2> HIDE DEF q, g
    <2>2. TurnOK([g EXCEPT !.superseded = TRUE]) /\ Alike(q, [g EXCEPT !.superseded = TRUE])
          /\ [g EXCEPT !.superseded = TRUE].open = FALSE
      BY <2>1, SMT DEF TurnOK, Alike
    <2> QED
      BY <2>1, <2>2 DEF q, g
  <1> HIDE DEF gone
  <1>2. ASSUME NEW t \in Turns
        PROVE  /\ TurnOK(f[t]) /\ Alike(s.turn[t], f[t])
               /\ f[t].open => (s.turn[t].open /\ n <= s.turn[t].seq)
    <2>1. s.turn[t].seq \in Nat
      BY <1>1 DEF TurnOK
    <2>2. CASE s.turn[t].open /\ s.turn[t].seq < n
      <3>1. f[t] = gone(s.turn[t])
        BY <2>2
      <3> QED
        BY <1>1, <3>1
    <2>3. CASE ~(s.turn[t].open /\ s.turn[t].seq < n)
      <3>1. f[t] = s.turn[t]
        BY <2>3
      <3>2. s.turn[t].open => n <= s.turn[t].seq
        BY <2>1, <2>3, SMT
      <3> QED
        BY <1>1, <3>1, <3>2 DEF Alike
    <2> QED
      BY <2>2, <2>3
  <1>3. w = [s EXCEPT !.turn = f]
    BY DEF Supersede, gone
  <1>4. DOMAIN f = Turns
    OBVIOUS
  <1> HIDE DEF f, w
  <1>5. DOMAIN w = DOMAIN s /\ w.turn = f /\ w.routed = s.routed /\ w.player = s.player
    BY <1>3, SMT DEF Sound, Shaped
  <1>6. Shaped(w)
    BY <1>2, <1>4, <1>5 DEF Sound, Shaped
  <1>7. ReadsAlike(s, w)
    BY <1>2, <1>5, ItemsAreItems DEF Alike, ReadsAlike, Place
  <1>8. GivesWay(w) /\ OpenIsNewest(w) /\ Quiet(w.player)
    BY <1>5, <1>7, SameOrder DEF Sound
  <1> QED
    BY <1>2, <1>5, <1>6, <1>8 DEF Sound, Alike, w

LEMMA SayingLocally ==
  ASSUME NEW s, Sound(s), NEW t \in Turns, NotBegun(s, t)
  PROVE  LET w == SayLocally(s, t)
         IN  Serves(s, w, t) /\ Alike(s.turn[t], w.turn[t]) /\ w.player = s.player
  <1> DEFINE n == s.turn[t].seq
             g == Supersede(s, n)
             x == LocalOf(t)
             r == Append(g.routed, x)
             w == SayLocally(s, t)
  <1>1. w = [g EXCEPT !.routed = r]
    BY DEF SayLocally
  <1>2. n \in Nat
    BY DEF Sound, Shaped, TurnOK
  <1>3. /\ Sound(g) /\ g.routed = s.routed /\ g.player = s.player
        /\ \A u \in Turns : Alike(s.turn[u], g.turn[u])
        /\ \A u \in Turns : g.turn[u].open => n <= g.turn[u].seq
    BY <1>2, Superseding
  <1> HIDE DEF g, w
  <1>4. x \in Item /\ x.reply = t
    BY SMT DEF LocalOf, Item
  <1>5. DOMAIN w = DOMAIN g /\ w.turn = g.turn /\ w.routed = Append(g.routed, x)
        /\ w.player = g.player
    <2> HIDE DEF r
    <2>1. DOMAIN w = DOMAIN g /\ w.turn = g.turn /\ w.routed = r /\ w.player = g.player
      BY <1>1, <1>3, SMT DEF Sound, Shaped
    <2> QED
      BY <2>1 DEF r
  <1> HIDE DEF x
  <1>6. MayRoute(g, x)
    BY <1>3, <1>4, NoticeIsNoTurn DEF MayRoute, NotBegun, Alike, Place
  <1>7. Sound(w)
    BY <1>3, <1>5, <1>6, Routing DEF Sound
  <1>8. \A u \in Turns \ {t} : NotBegun(s, u) => NotBegun(w, u)
    BY <1>3, <1>4, <1>5, AppendsOther
  <1> QED
    BY <1>3, <1>5, <1>7, <1>8 DEF Serves, Spares, Alike, w

\* A chunk that may be routed is handed to the speakers.
LEMMA Handing ==
  ASSUME NEW s, Sound(s), NEW t \in Turns, NEW k \in Nat, MayRoute(s, HersOf(Chunk(t, k)))
  PROVE  /\ Sound(Hand(s, t, k)) /\ Hand(s, t, k).turn = s.turn
         /\ \A u \in Turns \ {t} : NotBegun(s, u) => NotBegun(Hand(s, t, k), u)
  <1> DEFINE x == HersOf(Chunk(t, k))
             v == RouteTts(s.player, Chunk(t, k))
             r == Append(s.routed, x)
             w == Hand(s, t, k)
  <1>1. w = [s EXCEPT !.player = v, !.routed = r]
    BY DEF Hand
  <1>2. Quiet(v)
    BY RouteTtsQuiet DEF Sound
  <1> HIDE DEF v, w
  <1>3. x \in Item /\ x.reply = t
    BY SMT DEF HersOf, Chunk, Item
  <1>4. DOMAIN w = DOMAIN s /\ w.turn = s.turn /\ w.routed = r /\ w.player = v
    <2> HIDE DEF r
    <2> QED
      BY <1>1, SMT DEF Sound, Shaped
  <1>5. MayRoute(s, x)
    OBVIOUS
  <1> HIDE DEF x
  <1>6. Sound(w)
    BY <1>2, <1>4, <1>5, Routing
  <1>7. \A u \in Turns \ {t} : NotBegun(s, u) => NotBegun(w, u)
    BY <1>3, <1>4, AppendsOther
  <1> QED
    BY <1>4, <1>6, <1>7 DEF w

LEMMA VoiceStarting ==
  ASSUME NEW s, Sound(s), NEW t \in Turns, NotBegun(s, t)
  PROVE  Serves(s, VoiceStarts(s, t), t)
  <1> DEFINE n == s.turn[t].seq
             g == Supersede(s, n)
             f == Hand(g, t, 0)
             q == [f.turn[t] EXCEPT !.voiced = TRUE]
             w == VoiceStarts(s, t)
  <1>1. w = [f EXCEPT !.turn[t] = q]
    BY DEF VoiceStarts
  <1>2. n \in Nat
    BY DEF Sound, Shaped, TurnOK
  <1>3. /\ Sound(g) /\ g.routed = s.routed
        /\ \A u \in Turns : Alike(s.turn[u], g.turn[u])
        /\ \A u \in Turns : g.turn[u].open => n <= g.turn[u].seq
    BY <1>2, Superseding
  <1> HIDE DEF g
  <1>4. HersOf(Chunk(t, 0)) \in Item /\ HersOf(Chunk(t, 0)).reply = t
    BY SMT DEF HersOf, Chunk, Item
  <1>5. MayRoute(g, HersOf(Chunk(t, 0)))
    BY <1>3, <1>4, NoticeIsNoTurn DEF MayRoute, NotBegun, Alike, Place
  <1>6. /\ Sound(f) /\ f.turn = g.turn
        /\ \A u \in Turns \ {t} : NotBegun(s, u) => NotBegun(f, u)
    <2>1. 0 \in Nat
      OBVIOUS
    <2> QED
      BY <1>3, <1>5, <2>1, Handing DEF NotBegun
  <1> HIDE DEF f
  <1>7. TurnOK(q) /\ q.seq = f.turn[t].seq /\ q.open = f.turn[t].open
        /\ q.pc = f.turn[t].pc /\ q.settled = f.turn[t].settled
    <2> DEFINE p == f.turn[t]
    <2>1. TurnOK(p)
      BY <1>6 DEF Sound, Shaped
    <2> HIDE DEF p
    <2>2. LET z == [p EXCEPT !.voiced = TRUE]
          IN  TurnOK(z) /\ z.seq = p.seq /\ z.open = p.open /\ z.pc = p.pc
              /\ z.settled = p.settled
      BY <2>1, SMT DEF TurnOK
    <2> QED
      BY <2>2 DEF p
  <1> HIDE DEF q, w
  <1>8. Sound(w) /\ Sets(f, w, t, q)
    BY <1>1, <1>6, <1>7, TurnSet
  <1> QED
    BY <1>3, <1>6, <1>7, <1>8 DEF Serves, Spares, Sets, Alike, NotBegun, w

LEMMA FallingBack ==
  ASSUME NEW s, Sound(s), NEW t \in Turns, NotBegun(s, t)
  PROVE  Serves(s, FallBack(s, t), t)
  <1> DEFINE q == GiveUp(s.turn[t])
             g == [s EXCEPT !.turn[t] = q]
             l == SayLocally(g, t)
             v == Release(l.player, t)
             w == FallBack(s, t)
  <1>1. w = [l EXCEPT !.player = v]
    BY DEF FallBack
  <1>2. TurnOK(q) /\ Alike(s.turn[t], q) /\ q.open = FALSE
    BY GiveUpOK DEF Sound, Shaped
  <1> HIDE DEF q
  <1>3. Sound(g) /\ Sets(s, g, t, q)
    BY <1>2, TurnSet DEF Alike
  <1> HIDE DEF g
  <1>4. NotBegun(g, t)
    BY <1>3 DEF Sets, NotBegun
  <1>5. Serves(g, l, t)
    BY <1>3, <1>4, SayingLocally
  <1> HIDE DEF l
  <1>6. Quiet(v)
    BY <1>5, ReleaseQuiet DEF Serves, Sound
  <1> HIDE DEF v, w
  <1>7. Sound(w) /\ w.turn = l.turn /\ w.routed = l.routed
    BY <1>1, <1>5, <1>6, PlayerSet DEF Serves
  <1> QED
    BY <1>2, <1>3, <1>5, <1>7 DEF Serves, Spares, Sets, Alike, NotBegun, w

LEMMA WordsGo ==
  ASSUME NEW s, Sound(s), NEW t
  PROVE  LET w == Words(s, t)
         IN  Sound(w) /\ w.turn = s.turn /\ w.routed = s.routed
  <1> DEFINE v == RouteWords(s.player, t)
  <1>1. Quiet(v)
    BY RouteWordsQuiet DEF Sound
  <1>2. Words(s, t) = [s EXCEPT !.player = v]
    BY DEF Words
  <1> HIDE DEF v
  <1> QED
    BY <1>1, <1>2, PlayerSet

\* fill() asks for the next chunk and nothing else.
LEMMA Filling ==
  ASSUME NEW q, TurnOK(q)
  PROVE  TurnOK(Fill(q)) /\ Alike(q, Fill(q)) /\ Fill(q).open = q.open
  BY SMT DEF Fill, TurnOK, Alike

\* The end of pump(): closed when all was routed, and the next one asked for.
LEMMA PumpEnding ==
  ASSUME NEW x, TurnOK(x)
  PROVE  LET d == IF x.voiced /\ ~x.over /\ x.next >= x.chunks
                  THEN [x EXCEPT !.open = FALSE] ELSE x
         IN  TurnOK(Fill(d)) /\ Alike(x, Fill(d)) /\ (Fill(d).open => x.open)
  <1> DEFINE c == x.voiced /\ ~x.over /\ x.next >= x.chunks
             k == [x EXCEPT !.open = FALSE]
  <1>1. c => (TurnOK(k) /\ Alike(x, k) /\ k.open = FALSE)
    <2>1. /\ DOMAIN k = DOMAIN x /\ Alike(x, k) /\ k.open = FALSE
          /\ k.chunks = x.chunks /\ k.next = x.next /\ k.started = x.started
      BY SMT DEF TurnOK, Alike
    <2> HIDE DEF k
    <2>2. c => ~(x.next < x.chunks)
      BY SMT DEF TurnOK
    <2> QED
      BY <2>1, <2>2 DEF TurnOK, Alike
  <1> HIDE DEF k
  <1>2. CASE c
    <2>1. TurnOK(Fill(k)) /\ Alike(k, Fill(k)) /\ Fill(k).open = k.open
      BY <1>1, <1>2, Filling
    <2> QED
      BY <1>1, <1>2, <2>1 DEF Alike, k
  <1>3. CASE ~c
    <2>1. TurnOK(Fill(x)) /\ Alike(x, Fill(x)) /\ Fill(x).open = x.open
      BY Filling
    <2> QED
      BY <1>3, <2>1
  <1> QED
    BY <1>2, <1>3

\* pump() routes at most the next chunk of a voice that is still open, and
\* nothing of a voice that has not begun.
LEMMA Pumping ==
  ASSUME NEW s, Sound(s), NEW t \in Turns
  PROVE  LET w == PumpTurn(s, t) IN
         /\ Serves(s, w, t) /\ Alike(s.turn[t], w.turn[t])
         /\ ~s.turn[t].voiced => w.routed = s.routed
  <1> DEFINE q == s.turn[t]
             ready == q.voiced /\ ~q.over /\ q.next < q.chunks /\ q.next \in q.settled
             p == [q EXCEPT !.next = @ + 1]
             n == [s EXCEPT !.turn[t] = p]
             h == Hand(n, t, q.next)
             g == [s EXCEPT !.turn[t] = GiveUp(q)]
             after == IF ~ready THEN s ELSE IF q.next \in q.landed THEN h ELSE g
             x == after.turn[t]
             d == IF x.voiced /\ ~x.over /\ x.next >= x.chunks THEN [x EXCEPT !.open = FALSE] ELSE x
             e == Fill(d)
             w == PumpTurn(s, t)
  <1>1. w = [after EXCEPT !.turn[t] = e]
    BY DEF PumpTurn
  <1>2. TurnOK(q)
    BY DEF Sound, Shaped
  <1>3. /\ Serves(s, after, t) /\ Alike(q, x)
        /\ ~q.voiced => after.routed = s.routed
    <2>1. CASE ~ready
      <3>1. after = s
        BY <2>1
      <3> QED
        BY <3>1 DEF Serves, Spares, Alike
    <2>2. CASE ready /\ q.next \in q.landed
      <3>1. after = h
        BY <2>2
      <3>2. TurnOK(p) /\ Alike(q, p) /\ p.open = q.open /\ q.open /\ q.next \in Nat /\ q.next >= 1
        <4>1. q.open /\ q.next \in Nat /\ q.next >= 1 /\ q.next + 1 \in Nat /\ q.next + 1 >= 1
              /\ (q.next + 1 < q.chunks => q.next < q.chunks)
          <5>1. q.next \in Nat /\ q.next >= 1 /\ q.chunks \in Nat /\ q.open
            BY <1>2, <2>2 DEF TurnOK
          <5> HIDE DEF q
          <5> QED
            BY <5>1, SMT
        <4>2. /\ DOMAIN p = DOMAIN q /\ Alike(q, p) /\ p.open = q.open
              /\ p.chunks = q.chunks /\ p.next = q.next + 1 /\ p.over = q.over
              /\ p.started = q.started
          <5> HIDE DEF q
          <5> QED
            BY <1>2, SMT DEF TurnOK, Alike
        <4> HIDE DEF p, q
        <4> QED
          BY <1>2, <4>1, <4>2 DEF TurnOK, Alike
      <3> HIDE DEF p
      <3>3. Sound(n) /\ Sets(s, n, t, p)
        BY <3>2, TurnSet DEF Alike
      <3> HIDE DEF n
      <3>4. HersOf(Chunk(t, q.next)) \in Item /\ HersOf(Chunk(t, q.next)).reply = t
            /\ HersOf(Chunk(t, q.next)).chunk = q.next
        BY <3>2, SMT DEF HersOf, Chunk, Item
      <3>5. MayRoute(n, HersOf(Chunk(t, q.next)))
        BY <3>2, <3>3, <3>4 DEF MayRoute, Sets
      <3>6. /\ Sound(h) /\ h.turn = n.turn
            /\ \A u \in Turns \ {t} : NotBegun(n, u) => NotBegun(h, u)
        BY <3>2, <3>3, <3>5, Handing
      <3> HIDE DEF h
      <3> QED
        BY <2>2, <3>1, <3>2, <3>3, <3>6 DEF Serves, Spares, Sets, Alike, NotBegun
    <2>3. CASE ready /\ q.next \notin q.landed
      <3>1. after = g
        BY <2>3
      <3>2. TurnOK(GiveUp(q)) /\ Alike(q, GiveUp(q)) /\ GiveUp(q).open = FALSE
        BY <1>2, GiveUpOK
      <3>3. Sound(g) /\ Sets(s, g, t, GiveUp(q))
        BY <3>2, TurnSet DEF Alike
      <3> HIDE DEF g
      <3> QED
        BY <2>3, <3>1, <3>2, <3>3 DEF Serves, Spares, Sets, Alike, NotBegun
    <2> QED
      BY <2>1, <2>2, <2>3
  <1> HIDE DEF after
  <1>4. TurnOK(x)
    BY <1>3 DEF Serves, Sound, Shaped
  <1>5. TurnOK(e) /\ Alike(x, e) /\ (e.open => x.open)
    BY <1>4, PumpEnding
  <1> HIDE DEF e, w
  <1>6. Sound(w) /\ Sets(after, w, t, e)
    BY <1>1, <1>3, <1>5, TurnSet DEF Serves, Alike
  <1> QED
    BY <1>3, <1>5, <1>6 DEF Serves, Spares, Sets, Alike, NotBegun, w

-----------------------------------------------------------------------------
(* Every step keeps the invariant                                           *)

LEMMA PageFields ==
  Page.turn = turn /\ Page.player = player /\ Page.routed = routed
  BY SMT DEF Page

\* The page is w, field by field.
LEMMA PageBecomes ==
  ASSUME NEW w, Sound(w), Staged(w), turn' = w.turn, player' = w.player, routed' = w.routed, posted' \in Nat
  PROVE  SpeechInv'
  <1>1. Page' = [turn |-> w.turn, player |-> w.player, routed |-> w.routed]
    BY DEF Page
  <1> DEFINE p == [turn |-> w.turn, player |-> w.player, routed |-> w.routed]
  <1>2. /\ p.turn = w.turn /\ p.player = w.player /\ p.routed = w.routed
        /\ {"turn", "player", "routed"} \subseteq DOMAIN p
    BY SMT
  <1> HIDE DEF p
  <1>3. Sound(p) /\ Staged(p)
    BY <1>2 DEF Sound, Shaped, GivesWay, OpenIsNewest, Place, Staged, NotBegun
  <1>4. Page' = p
    BY <1>1 DEF p
  <1>5. Sound(Page') /\ Staged(Page')
    BY <1>3, <1>4
  <1> QED
    BY <1>5 DEF SpeechInv, Sound, Shaped, GivesWay, OpenIsNewest, Place, Staged, NotBegun, Page

\* A step that becomes a page w which serves t, answers it or leaves its stage.
LEMMA StepKeepsInv ==
  ASSUME SpeechInv, NEW t \in Turns, NEW w, Sound(w), Spares(Page, w, t),
         \/ w.turn[t].pc = "done"
         \/ NotBegun(w, t) /\ ~w.turn[t].voiced,
         \/ w.turn[t].pc \in {"racing", "waiting"}
         \/ w.turn[t].chunks = 0 \/ w.turn[t].settled # {},
         turn' = w.turn, player' = w.player, routed' = w.routed, posted' \in Nat
  PROVE  SpeechInv'
  <1>1. Staged(w)
    BY DEF SpeechInv, Staged, Spares, Alike
  <1> QED
    BY <1>1, PageBecomes

\* A step that changes the turn's record and the player, and routes nothing.
LEMMA PlainStep ==
  ASSUME SpeechInv, NEW t \in Turns, NEW q, TurnOK(q),
         turn[t].pc # "done", q.pc # "done", q.voiced = turn[t].voiced,
         q.pc \in {"racing", "waiting"} \/ q.chunks = 0 \/ q.settled # {},
         turn' = [turn EXCEPT ![t] = q], Quiet(player'), routed' = routed, posted' \in Nat
  PROVE  SpeechInv'
  <1> DEFINE w == [Page EXCEPT !.turn[t] = q]
             v == [w EXCEPT !.player = player']
  <1>1. NotBegun(Page, t) /\ ~turn[t].voiced
    BY PageFields DEF SpeechInv, Staged
  <1>2. Sound(w) /\ Sets(Page, w, t, q)
    BY <1>1, TurnSet DEF SpeechInv
  <1>3. w.turn = turn'
    BY PageFields, SMT DEF Page
  <1> HIDE DEF w
  <1>4. Sound(v) /\ v.turn = w.turn /\ v.routed = w.routed /\ v.player = player'
    BY <1>2, PlayerSet
  <1> HIDE DEF v
  <1>5. Spares(Page, v, t) /\ NotBegun(v, t) /\ v.turn[t] = q
    BY <1>1, <1>2, <1>4 DEF Sets, Spares, Alike, NotBegun
  <1> QED
    BY <1>1, <1>2, <1>3, <1>4, <1>5, PageFields, StepKeepsInv DEF Sets

LEMMA TurnsKnown ==
  ASSUME SpeechInv, NEW t \in Turns
  PROVE  /\ TurnOK(turn[t]) /\ DOMAIN turn = Turns /\ Quiet(player)
         /\ turn[t].pc # "done" => NotBegun(Page, t) /\ ~turn[t].voiced
         /\ turn[t].pc \notin {"racing", "waiting"} =>
               turn[t].chunks = 0 \/ turn[t].settled # {}
  BY PageFields DEF SpeechInv, Sound, Shaped, Staged

LEMMA PcSet ==
  ASSUME NEW q, TurnOK(q), NEW c
  PROVE  LET p == [q EXCEPT !.pc = c]
         IN  /\ TurnOK(p) /\ p.pc = c /\ p.seq = q.seq /\ p.voiced = q.voiced
             /\ p.chunks = q.chunks /\ p.settled = q.settled /\ p.open = q.open
  BY SMT DEF TurnOK

\* A step that only takes the turn to another stage.
LEMMA StageStep ==
  ASSUME SpeechInv, NEW t \in Turns, NEW c, c # "done",
         turn[t].pc \in {"idle", "checking", "posted"},
         turn' = [turn EXCEPT ![t].pc = c], Quiet(player'), routed' = routed, posted' = posted
  PROVE  SpeechInv'
  <1> DEFINE p == [turn[t] EXCEPT !.pc = c]
  <1>1. /\ TurnOK(p) /\ p.pc = c /\ p.voiced = turn[t].voiced
        /\ p.chunks = turn[t].chunks /\ p.settled = turn[t].settled
    BY TurnsKnown, PcSet
  <1>2. turn' = [turn EXCEPT ![t] = p]
    OBVIOUS
  <1> HIDE DEF p
  <1>3. posted' \in Nat
    BY DEF SpeechInv
  <1> QED
    BY <1>1, <1>2, <1>3, TurnsKnown, PlainStep

\* The same of a turn whose answer has come.
LEMMA Finishing ==
  ASSUME NEW s, Sound(s), NEW t \in Turns
  PROVE  LET w == [s EXCEPT !.turn[t].pc = "done"]
         IN  /\ Sound(w) /\ w.turn[t].pc = "done" /\ w.routed = s.routed /\ w.player = s.player
             /\ w.turn[t].chunks = s.turn[t].chunks /\ w.turn[t].settled = s.turn[t].settled
             /\ \A u \in Turns \ {t} : w.turn[u] = s.turn[u]
  <1> DEFINE p == [s.turn[t] EXCEPT !.pc = "done"]
             w == [s EXCEPT !.turn[t] = p]
  <1>1. /\ TurnOK(p) /\ p.pc = "done" /\ p.seq = s.turn[t].seq /\ p.open = s.turn[t].open
        /\ p.chunks = s.turn[t].chunks /\ p.settled = s.turn[t].settled
    BY PcSet DEF Sound, Shaped
  <1> HIDE DEF p
  <1>2. Sound(w) /\ Sets(s, w, t, p)
    BY <1>1, TurnSet
  <1> QED
    BY <1>1, <1>2 DEF Sets, p

\* A turn that ends in a local line.
LEMMA LocalStep ==
  ASSUME SpeechInv, NEW t \in Turns, turn[t].pc \in {"checking", "stub"}, posted' = posted,
         Becomes([SayLocally(Page, t) EXCEPT !.turn[t].pc = "done", !.player = Speak(@, t)])
  PROVE  SpeechInv'
  <1> DEFINE l == SayLocally(Page, t)
             d == [l EXCEPT !.turn[t].pc = "done"]
             v == Speak(l.player, t)
             w == [d EXCEPT !.player = v]
  <1>1. Serves(Page, l, t) /\ Alike(turn[t], l.turn[t])
    BY TurnsKnown, SayingLocally, PageFields DEF SpeechInv
  <1>2. [l EXCEPT !.turn[t].pc = "done", !.player = Speak(@, t)] = w
    BY <1>1, SMT DEF Serves, Sound, Shaped
  <1> HIDE DEF l
  <1>3. /\ Sound(d) /\ d.turn[t].pc = "done" /\ d.routed = l.routed
        /\ d.turn[t].chunks = l.turn[t].chunks /\ d.turn[t].settled = l.turn[t].settled
        /\ \A u \in Turns \ {t} : d.turn[u] = l.turn[u]
    BY <1>1, Finishing DEF Serves
  <1>4. Quiet(v)
    BY <1>1, SpeakQuiet DEF Serves, Sound
  <1> HIDE DEF d, v
  <1>5. Sound(w) /\ w.turn = d.turn /\ w.routed = d.routed
    BY <1>3, <1>4, PlayerSet
  <1>6. turn' = w.turn /\ player' = w.player /\ routed' = w.routed
    BY <1>2 DEF Becomes, l
  <1> HIDE DEF w
  <1>7. Spares(Page, w, t)
    BY <1>1, <1>3, <1>5 DEF Serves, Spares, Alike, NotBegun
  <1>8. w.turn[t].chunks = 0 \/ w.turn[t].settled # {}
    BY <1>1, <1>3, <1>5, TurnsKnown DEF Alike
  <1>9. posted' \in Nat
    BY DEF SpeechInv
  <1> QED
    BY <1>3, <1>5, <1>6, <1>7, <1>8, <1>9, StepKeepsInv

LEMMA PostKeepsInv == ASSUME SpeechInv, NEW t \in Turns, PostTurn(t) PROVE SpeechInv'
  <1> DEFINE q == turn[t]
             p == [q EXCEPT !.pc = "posted", !.seq = posted + 1]
  <1>1. posted + 1 \in Nat
    BY SMT DEF SpeechInv
  <1>2. TurnOK(q)
    BY TurnsKnown
  <1>3. TurnOK(p) /\ p.pc = "posted" /\ p.voiced = q.voiced /\ p.chunks = q.chunks
        /\ p.settled = q.settled
    <2> HIDE DEF q
    <2> QED
      BY <1>1, <1>2, SMT DEF TurnOK
  <1>4. turn' = [turn EXCEPT ![t] = p]
    BY DEF PostTurn
  <1> HIDE DEF p
  <1> QED
    BY <1>1, <1>3, <1>4, TurnsKnown, PlainStep DEF PostTurn

LEMMA VoicedKeepsInv ==
  ASSUME SpeechInv, NEW t \in Turns, NEW n \in 1 .. MaxTickets, VoicedReply(t, n)
  PROVE  SpeechInv'
  <1> DEFINE q == turn[t]
             p == [q EXCEPT !.pc = "racing", !.chunks = n, !.open = TRUE, !.started = 1]
             v == Expect(Settles(player), t)
  <1>1. n \in Nat /\ 1 <= n
    BY SpeechAssumption, SMT
  <1>2. TurnOK(q)
    BY TurnsKnown
  <1>3. TurnOK(p) /\ p.pc = "racing" /\ p.voiced = q.voiced
    <2> HIDE DEF q
    <2> QED
      BY <1>1, <1>2, SMT DEF TurnOK
  <1>4. turn' = [turn EXCEPT ![t] = p] /\ player' = v
    BY DEF VoicedReply
  <1>5. Quiet(v)
    BY TurnsKnown, ManneredQuiet
  <1> HIDE DEF p, v
  <1>6. posted' \in Nat
    BY DEF VoicedReply, SpeechInv
  <1> QED
    BY <1>3, <1>4, <1>5, <1>6, TurnsKnown, PlainStep DEF VoicedReply

LEMMA WaitKeepsInv == ASSUME SpeechInv, NEW t \in Turns, WaitElapses(t) PROVE SpeechInv'
  <1> DEFINE k == Words(Page, t)
             q == turn[t]
             p == [q EXCEPT !.pc = "waiting"]
  <1>1. Sound(k) /\ k.turn = turn /\ k.routed = routed
    BY WordsGo, PageFields DEF SpeechInv
  <1>2. Becomes([k EXCEPT !.turn[t] = p])
    BY <1>1 DEF WaitElapses
  <1> HIDE DEF k
  <1>3. TurnOK(p) /\ p.pc = "waiting" /\ p.seq = q.seq /\ p.voiced = q.voiced /\ p.open = q.open
    BY TurnsKnown, PcSet
  <1> HIDE DEF p
  <1> DEFINE w == [k EXCEPT !.turn[t] = p]
  <1>4. Sound(w) /\ Sets(k, w, t, p)
    BY <1>1, <1>3, TurnSet
  <1> HIDE DEF w
  <1>5. turn' = w.turn /\ player' = w.player /\ routed' = w.routed
    BY <1>2 DEF Becomes, w
  <1>6. Spares(Page, w, t) /\ NotBegun(w, t)
    BY <1>1, <1>4, PageFields, TurnsKnown DEF WaitElapses, Sets, Spares, Alike, NotBegun
  <1>7. ~w.turn[t].voiced
    BY <1>3, <1>4, TurnsKnown DEF WaitElapses, Sets
  <1>8. posted' \in Nat
    BY DEF WaitElapses, SpeechInv
  <1> QED
    BY <1>3, <1>4, <1>5, <1>6, <1>7, <1>8, StepKeepsInv DEF Sets

LEMMA VoicelessKeepsInv ==
  ASSUME SpeechInv, NEW t \in Turns, VoicelessReply(t) PROVE SpeechInv'
  <1> DEFINE v == Settles(player)
             p == [Page EXCEPT !.player = v]
             l == SayLocally(p, t)
             k == Words(l, t)
             w == [k EXCEPT !.turn[t].pc = "done"]
  <1>1. Becomes(w)
    BY PageFields DEF VoicelessReply
  <1>2. Quiet(v)
    BY TurnsKnown, ManneredQuiet
  <1> HIDE DEF v
  <1>3. Sound(p) /\ p.turn = turn /\ p.routed = routed
    BY <1>2, PlayerSet, PageFields DEF SpeechInv
  <1> HIDE DEF p
  <1>4. NotBegun(p, t)
    BY <1>3, TurnsKnown, PageFields DEF NotBegun, VoicelessReply
  <1>5. Serves(p, l, t) /\ Alike(turn[t], l.turn[t])
    BY <1>3, <1>4, SayingLocally
  <1> HIDE DEF l
  <1>6. Sound(k) /\ k.turn = l.turn /\ k.routed = l.routed
    BY <1>5, WordsGo DEF Serves
  <1> HIDE DEF k
  <1>7. /\ Sound(w) /\ w.turn[t].pc = "done" /\ w.routed = k.routed
        /\ w.turn[t].chunks = k.turn[t].chunks /\ w.turn[t].settled = k.turn[t].settled
        /\ \A u \in Turns \ {t} : w.turn[u] = k.turn[u]
    BY <1>6, Finishing
  <1> HIDE DEF w
  <1>8. Spares(Page, w, t)
    BY <1>3, <1>5, <1>6, <1>7, PageFields DEF Serves, Spares, Alike, NotBegun
  <1>9. w.turn[t].chunks = 0 \/ w.turn[t].settled # {}
    BY <1>5, <1>6, <1>7, TurnsKnown DEF Alike, VoicelessReply
  <1>10. posted' \in Nat
    BY DEF VoicelessReply, SpeechInv
  <1> QED
    BY <1>1, <1>7, <1>8, <1>9, <1>10, StepKeepsInv DEF Becomes

\* A settled redemption: recorded, and the pipeline pumped.
LEMMA Settling ==
  ASSUME NEW s, Sound(s), NEW t \in Turns, NEW ok
  PROVE  LET w == Settled(s, t, ok) IN
         /\ Sound(w) /\ Spares(s, w, t)
         /\ w.turn[t].pc = s.turn[t].pc /\ w.turn[t].voiced = s.turn[t].voiced
         /\ w.turn[t].settled # {}
         /\ ~s.turn[t].voiced => w.routed = s.routed
  <1> DEFINE o == s.turn[t]
             i == o.started - 1
             set == o.settled \union {i}
             land == IF ok /\ ~o.over THEN o.landed \union {i} ELSE o.landed
             q == [o EXCEPT !.settled = set, !.landed = land]
             f == q.failed \/ (i > 0 /\ i \notin q.landed)
             r == [q EXCEPT !.failed = f]
             lost == i = 0 /\ 0 \notin r.landed
             z == IF lost THEN GiveUp(r) ELSE r
             g == [s EXCEPT !.turn[t] = z]
             w == Settled(s, t, ok)
  <1>1. w = PumpTurn(g, t)
    BY DEF Settled
  <1>2. TurnOK(o)
    BY DEF Sound, Shaped
  <1>3. TurnOK(q) /\ q.pc = o.pc /\ q.seq = o.seq /\ q.voiced = o.voiced /\ q.open = o.open
        /\ q.settled = set
    <2> HIDE DEF o, set, land
    <2> QED
      BY <1>2, SMT DEF TurnOK
  <1>4. set # {}
    OBVIOUS
  <1> HIDE DEF set
  <1>5. TurnOK(r) /\ Alike(q, r) /\ r.open = q.open
    <2> HIDE DEF q, f
    <2> QED
      BY <1>3, SMT DEF TurnOK, Alike
  <1> HIDE DEF r, q
  <1>6. TurnOK(z) /\ Alike(q, z) /\ (z.open => q.open)
    BY <1>5, GiveUpOK DEF Alike
  <1> HIDE DEF z
  <1>7. Sound(g) /\ Sets(s, g, t, z)
    BY <1>3, <1>6, TurnSet DEF Alike
  <1> HIDE DEF g, w
  <1>8. /\ Serves(g, w, t) /\ Alike(g.turn[t], w.turn[t])
        /\ ~g.turn[t].voiced => w.routed = g.routed
    BY <1>1, <1>7, Pumping
  <1> QED
    BY <1>3, <1>4, <1>6, <1>7, <1>8 DEF Serves, Spares, Sets, Alike, NotBegun, w

LEMMA AnswerKeepsInv ==
  ASSUME SpeechInv, NEW t \in Turns, NEW ok \in BOOLEAN, SpeechAnswers(t, ok)
  PROVE  SpeechInv'
  <1> DEFINE s == Settled(Page, t, ok)
             first == turn[t].settled = {}
             voice == IF 0 \in s.turn[t].landed THEN VoiceStarts(s, t)
                      ELSE IF s.turn[t].superseded THEN s ELSE FallBack(s, t)
             words == IF turn[t].pc = "racing" THEN Words(voice, t) ELSE voice
             done == [words EXCEPT !.turn[t].pc = "done"]
             w == IF first THEN PumpTurn(done, t) ELSE s
  <1>1. Becomes(w)
    BY DEF SpeechAnswers
  <1>2. ASSUME first PROVE turn[t].pc \in {"racing", "waiting"}
    <2>1. turn[t].started \in Nat /\ turn[t].started <= turn[t].chunks /\ turn[t].chunks \in Nat
      BY TurnsKnown DEF TurnOK
    <2>2. Cardinality(turn[t].settled) = 0
      BY <1>2, FS_EmptySet
    <2>3. turn[t].started - 0 = 1
      BY <2>2 DEF SpeechAnswers, InFlight
    <2>4. turn[t].chunks # 0
      BY <2>1, <2>3, SMT
    <2> QED
      BY <1>2, <2>4, TurnsKnown
  <1>3. /\ Sound(s) /\ Spares(Page, s, t) /\ s.turn[t].settled # {}
        /\ s.turn[t].pc = turn[t].pc /\ s.turn[t].voiced = turn[t].voiced
        /\ ~turn[t].voiced => s.routed = routed
    BY Settling, PageFields DEF SpeechInv
  <1> HIDE DEF s
  <1>4. posted' \in Nat
    BY DEF SpeechAnswers, SpeechInv
  <1>5. CASE ~first
    <2>1. turn[t].pc \in {"racing", "waiting", "done"}
      BY DEF SpeechAnswers
    <2>2. w = s
      BY <1>5
    <2>3. s.turn[t].pc = "done" \/ (NotBegun(s, t) /\ ~s.turn[t].voiced)
      BY <1>3, TurnsKnown, PageFields DEF NotBegun
    <2> QED
      BY <1>1, <1>3, <1>4, <2>2, <2>3, StepKeepsInv DEF Becomes
  <1>6. CASE first
    <2>1. NotBegun(s, t) /\ turn[t].pc \in {"racing", "waiting"}
      BY <1>2, <1>3, <1>6, TurnsKnown, PageFields DEF NotBegun
    <2>2. Serves(s, VoiceStarts(s, t), t) /\ Serves(s, FallBack(s, t), t) /\ Serves(s, s, t)
      BY <1>3, <2>1, VoiceStarting, FallingBack DEF Serves, Spares, Alike
    <2>3. Serves(s, voice, t)
      BY <2>2
    <2> HIDE DEF voice
    <2>4. Sound(words) /\ words.turn = voice.turn /\ words.routed = voice.routed
      BY <2>3, WordsGo DEF Serves
    <2> HIDE DEF words
    <2>5. /\ Sound(done) /\ done.turn[t].pc = "done" /\ done.routed = words.routed
          /\ done.turn[t].settled = words.turn[t].settled
          /\ \A u \in Turns \ {t} : done.turn[u] = words.turn[u]
      BY <2>4, Finishing
    <2> HIDE DEF done
    <2> DEFINE p == PumpTurn(done, t)
    <2>6. Serves(done, p, t) /\ Alike(done.turn[t], p.turn[t])
      BY <2>5, Pumping
    <2>7. w = p
      BY <1>6
    <2> HIDE DEF p, w
    <2>8. Spares(Page, p, t)
      BY <1>3, <2>3, <2>4, <2>5, <2>6 DEF Serves, Spares, Alike, NotBegun
    <2>9. Sound(p) /\ p.turn[t].pc = "done" /\ p.turn[t].settled # {}
      BY <1>3, <2>3, <2>4, <2>5, <2>6 DEF Serves, Alike
    <2> QED
      BY <1>1, <1>4, <2>7, <2>8, <2>9, StepKeepsInv DEF Becomes
  <1> QED
    BY <1>5, <1>6

\* A line that comes from beside the transport: nothing is superseded by it, and
\* it is older than every voice.
LEMMA DelegatedKeepsInv ==
  ASSUME SpeechInv, NEW t \in Turns, DelegateAnswers(t) PROVE SpeechInv'
  <1> DEFINE q == turn[t]
             p == [q EXCEPT !.pc = "done", !.seq = 0]
             d == [Page EXCEPT !.turn[t] = p]
             x == LocalOf(t)
             v == Speak(player, t)
             r == Append(routed, x)
             w == [d EXCEPT !.player = v, !.routed = r]
  <1>1. TurnOK(p) /\ p.pc = "done" /\ p.seq = 0 /\ p.open = q.open
        /\ p.chunks = q.chunks /\ p.settled = q.settled
    <2>1. TurnOK(q)
      BY TurnsKnown
    <2> HIDE DEF q
    <2> QED
      BY <2>1, SMT DEF TurnOK
  <1>2. turn' = [turn EXCEPT ![t] = p] /\ player' = v /\ routed' = r
    BY DEF DelegateAnswers, Nowhere
  <1> HIDE DEF p
  <1>3. NotBegun(Page, t)
    BY TurnsKnown DEF DelegateAnswers
  <1>4. Sound(d) /\ Sets(Page, d, t, p)
    BY <1>1, <1>3, TurnSet DEF SpeechInv
  <1>5. d.turn = turn'
    BY <1>2, PageFields, SMT DEF Page
  <1>6. Quiet(v)
    BY TurnsKnown, SpeakQuiet
  <1> HIDE DEF d, v
  <1>7. DOMAIN w = DOMAIN d /\ w.turn = d.turn /\ w.routed = Append(d.routed, x) /\ w.player = v
    <2>1. d.routed = routed
      BY <1>4, PageFields DEF Sets
    <2> HIDE DEF r
    <2>2. DOMAIN w = DOMAIN d /\ w.turn = d.turn /\ w.routed = r /\ w.player = v
      BY <1>4, SMT DEF Sound, Shaped
    <2> QED
      BY <2>1, <2>2 DEF r
  <1> HIDE DEF w
  <1>8. x \in Item /\ x.reply = t
    BY SMT DEF LocalOf, Item
  <1> HIDE DEF x
  <1>9. NotBegun(d, t) /\ Place(d, t) = 0
    BY <1>1, <1>3, <1>4, NoticeIsNoTurn DEF Sets, NotBegun, Place
  <1>10. \A u \in Turns : 0 <= d.turn[u].seq
    <2>1. \A u \in Turns : d.turn[u].seq \in Nat
      BY <1>4 DEF Sound, Shaped, TurnOK
    <2> QED
      BY <2>1, SMT
  <1>11. MayRoute(d, x)
    BY <1>8, <1>9, <1>10 DEF MayRoute
  <1>12. Sound(w)
    BY <1>4, <1>6, <1>7, <1>11, Routing
  <1>13. \A u \in Turns \ {t} : NotBegun(d, u) => NotBegun(w, u)
    BY <1>4, <1>7, <1>8, AppendsOther
  <1>14. Spares(Page, w, t)
    BY <1>4, <1>7, <1>13 DEF Sets, Spares, Alike, NotBegun
  <1>15. w.turn[t] = p
    BY <1>4, <1>7 DEF Sets
  <1>16. p.chunks = 0 \/ p.settled # {}
    BY <1>1, TurnsKnown DEF DelegateAnswers
  <1>17. posted' \in Nat
    BY DEF DelegateAnswers, SpeechInv
  <1>18. turn' = w.turn /\ player' = w.player /\ routed' = w.routed
    BY <1>2, <1>4, <1>5, <1>7, PageFields DEF Sets
  <1> QED
    BY <1>1, <1>12, <1>14, <1>15, <1>16, <1>17, <1>18, StepKeepsInv

LEMMA AnnounceKeepsInv == ASSUME SpeechInv, Announce PROVE SpeechInv'
  <1> DEFINE x == LocalOf(Notice)
             v == Speak(player, Notice)
             r == Append(routed, x)
             w == [Page EXCEPT !.player = v, !.routed = r]
  <1>1. player' = v /\ routed' = r /\ turn' = turn /\ posted' = posted
    BY DEF Announce, GiveNotice
  <1>2. Quiet(v)
    BY TurnsKnown, SpeakQuiet, PageFields DEF SpeechInv, Sound
  <1> HIDE DEF v
  <1>3. DOMAIN w = DOMAIN Page /\ w.turn = Page.turn /\ w.routed = Append(Page.routed, x)
        /\ w.player = v
    <2> HIDE DEF r
    <2>1. DOMAIN w = DOMAIN Page /\ w.turn = Page.turn /\ w.routed = r /\ w.player = v
      BY SMT DEF Page
    <2> QED
      BY <2>1, PageFields DEF r
  <1> HIDE DEF w
  <1>4. x \in Item /\ x.reply = Notice
    BY SMT DEF LocalOf, Item
  <1>5. Sound(w)
    BY <1>2, <1>3, <1>4, Routing DEF SpeechInv, MayRoute
  <1>6. \A u \in Turns : NotBegun(Page, u) => NotBegun(w, u)
    BY <1>3, <1>4, NoticeIsNoTurn, AppendsOther DEF SpeechInv
  <1>7. Staged(w) /\ posted' \in Nat
    BY <1>1, <1>3, <1>6 DEF SpeechInv, Staged
  <1>8. turn' = w.turn /\ player' = w.player /\ routed' = w.routed
    BY <1>1, <1>3, PageFields
  <1> QED
    BY <1>5, <1>7, <1>8, PageBecomes

LEMMA NextKeepsInv == ASSUME SpeechInv, [Next]_vars PROVE SpeechInv'
  <1>1. Quiet(player)
    BY TurnsKnown, PageFields DEF SpeechInv, Sound
  <1>2. ASSUME NEW t \in Turns, SendTurn(t) PROVE SpeechInv'
    BY <1>1, <1>2, ManneredQuiet, StageStep DEF SendTurn
  <1>3. ASSUME NEW t \in Turns, SendScripted(t) PROVE SpeechInv'
    BY <1>1, <1>3, ManneredQuiet, StageStep DEF SendScripted
  <1>4. ASSUME NEW t \in Turns, NoToken(t) PROVE SpeechInv'
    <2>1. CASE turn' = [turn EXCEPT ![t].pc = "stub"] /\ UNCHANGED <<player, routed, notices>>
      BY <1>1, <1>4, <2>1, StageStep DEF NoToken
    <2>2. CASE Becomes([SayLocally(Page, t) EXCEPT
                          !.turn[t].pc = "done", !.player = Speak(@, t)])
      BY <1>4, <2>2, LocalStep DEF NoToken
    <2> QED
      BY <1>4, <2>1, <2>2 DEF NoToken
  <1>5. ASSUME NEW t \in Turns, ChatRefused(t) PROVE SpeechInv'
    BY <1>1, <1>5, ManneredQuiet, StageStep DEF ChatRefused
  <1>6. ASSUME NEW t \in Turns, StubAnswers(t) PROVE SpeechInv'
    BY <1>6, LocalStep DEF StubAnswers
  <1>7. ASSUME PlayerNext \/ FillerBeat \/ MutterTicks \/ HoldLapses,
               UNCHANGED <<turn, posted, routed, notices>>
        PROVE  SpeechInv'
    <2>1. Quiet(player')
      BY <1>1, <1>7, PlayerStaysQuiet
    <2> DEFINE w == [Page EXCEPT !.player = player']
    <2>2. Sound(w) /\ w.turn = turn /\ w.routed = routed /\ w.player = player'
      BY <2>1, PlayerSet, PageFields DEF SpeechInv
    <2> HIDE DEF w
    <2>3. Staged(w) /\ posted' \in Nat
      BY <1>7, <2>2, PageFields DEF SpeechInv, Staged, NotBegun
    <2> QED
      BY <1>7, <2>2, <2>3, PageBecomes
  <1>8. CASE UNCHANGED vars
    BY <1>8 DEF vars, SpeechInv, Sound, Shaped, GivesWay, OpenIsNewest, Place, Staged, NotBegun, Page
  <1>9. ASSUME NEW t \in Turns, Delegate(t) PROVE SpeechInv'
    BY <1>1, <1>9, ManneredQuiet, StageStep DEF Delegate
  <1> QED
    BY <1>2, <1>3, <1>4, <1>5, <1>6, <1>7, <1>8, <1>9, PostKeepsInv, VoicelessKeepsInv,
       VoicedKeepsInv, WaitKeepsInv, AnswerKeepsInv, DelegatedKeepsInv, AnnounceKeepsInv
    DEF Next, TurnStep, Ambient

LEMMA InitEstablishesInv == Init => SpeechInv
  <1> SUFFICES ASSUME Init PROVE SpeechInv
    OBVIOUS
  <1>1. Newest \in Nat
    BY SpeechAssumption, FS_CardinalityType, SMT DEF Newest
  <1>2. TurnOK(Fresh) /\ Fresh.pc = "idle" /\ Fresh.voiced = FALSE /\ Fresh.chunks = 0
    <2> HIDE DEF Newest
    <2> QED
      BY <1>1, SMT DEF Fresh, TurnOK
  <1>3. Quiet(player)
    BY InitQuiet
  <1>4. DOMAIN turn = Turns /\ routed = << >> /\ \A t \in Turns : turn[t] = Fresh
    BY DEF Init
  <1>5. routed \in Seq(Item) /\ DOMAIN routed = {}
    BY <1>4, SMT
  <1>6. {"turn", "player", "routed"} \subseteq DOMAIN Page
    BY SMT DEF Page
  <1>7. Sound(Page)
    BY <1>2, <1>3, <1>4, <1>5, <1>6, PageFields DEF Sound, Shaped, GivesWay, OpenIsNewest
  <1>8. Staged(Page)
    BY <1>2, <1>4, <1>5, PageFields DEF Staged, NotBegun
  <1> QED
    BY <1>7, <1>8 DEF Init, SpeechInv

\* The newest voice takes the speakers (the turn's place in the conversation,
\* cloud-transport.js): after a newer reply has begun, nothing more is routed
\* of an older one that had begun before it.
THEOREM OldRepliesGiveWay == Spec => []OlderGivesWay
  <1>1. SpeechInv => OlderGivesWay
    BY PageFields DEF SpeechInv, Sound, GivesWay, OlderGivesWay, Place, PlaceOf, Nowhere
  <1> QED
    BY <1>1, InitEstablishesInv, NextKeepsInv, PTL DEF Spec

\* The third seam (voice/cloud.js takeFloor, ambient.js): a murmur that was
\* asked for in a silence never begins on top of a chunk of her answer.
THEOREM MurmursNeverOverlap == Spec => MurmursYield
  <1>1. SpeechInv => (player.murmur => player.playing = NoChunk)
    BY PageFields DEF SpeechInv, Sound, Quiet
  <1>2. SpeechInv /\ [Next]_vars
          => [(player.murmur /\ Murmur \in player'.sounding)
                => (player.playing = NoChunk \/ player.cut)]_vars
    BY <1>1
  <1> QED
    BY <1>2, InitEstablishesInv, NextKeepsInv, PTL DEF Spec, MurmursYield
=============================================================================
