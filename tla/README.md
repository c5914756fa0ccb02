# A TLA+ model of Moxie's supervisor, its hosted demo and the page that talks to it

Moxie is a child's robot whose cloud was switched off. This repository gives it a new one: an
MQTT supervisor that configures the robots and answers what the child says, a durable store,
a parent console, a hosted demo (edge functions in front of a language model's gateway) and a
browser simulator. This directory holds TLA+ modules translated from that code, the TLC
configurations that check them on small instances, and TLAPS proofs that most of the safety
results hold for every instance.

Paths are relative to the repository root (`src/` in `PROJECT.json`); `moxie_runtime/` is
`mqtt/supervisor/moxie_runtime/`, `moxie_sdk/` is `mqtt/moxie_sdk/`, `_lib/` is
`functions/api/_lib/`.

| section | |
|---|---|
| 1 | the system: its parts, their state, how they interact, what is hard about them |
| 2 | the modules, and how their state and actions correspond to the code |
| 3 | the runs: what each shows, on which instance, under which fairness |
| 4 | the proofs: what holds for all constants, from which assumptions, by which argument |
| 5 | what the code does that a reader of its documents would not expect |
| 6 | what is not modelled, and what is left to do |

## 1. Inventory

The concurrency is in three places, each with a discipline of its own.

**The supervisor** is one process, written as a class of mixins, whose methods run on

- the paho **network thread** (the *MQTT loop*): `_on_connect`, `_on_disconnect`,
  `_on_subscribe`, `_on_message`, and everything those call. One callback at a time;
- a **pool of eight turn workers** (`ThreadPoolExecutor`), one job per child utterance;
- **`threading.Timer` threads**: fillers of a turn, the settle delay of a new robot, the roster
  resume of a new connection;
- the **status server's HTTP thread** (`HTTPServer`, one request at a time): the parent's
  permits, settings, the Listening picker, telehealth;
- worker threads of the Try-it panel.

They share plain attributes (dicts and sets) with few locks. A turn has a lock of its own; the
store has one per process and one per record. Between any two accesses to shared state another
thread may run, and the model's steps end there.

**The edge functions** run in V8 isolates: several requests interleave in one isolate, but only
at an `await`; isolates share nothing except a cache per data centre, without transactions. A
step of the model is the stretch between two awaits that leave the process.

**The browser page** is one event loop: a task runs to its end with the promise continuations it
queues. What interleaves are the answers of the server, timers, the visitor, and the browser's
own recorders and voices. A step of the model is a task.

| component | state it keeps | operations | hard behaviours |
|---|---|---|---|
| **Turn engine** `turns.py`, with `presence.py`, `safety.py` | `_turn_seq`, `_busy`, `_pending_opener`, the pool's queue, per turn `state` (chunk counter, fillers, `gen`, `done`, timer) and its lock | a prompt; the safety gate; plain answer with one filler; streamed answer with up to two; closing, fallback, hellos | staleness is checked and the line published in separate steps; timers expire while the brain answers; overlapping turns of one robot; the socket dies in the middle of a stream |
| **Durable store** `moxie_sdk/store.py` | files, temporary files, RLock, `_depths`, sidecar flock | `read`, `write`, `append`, `delete`, `transaction` | two processes on one directory, nested transactions, lock timeout, a kill in the middle of a write |
| **Connection and onboarding** `connection.py`, `moxie_sdk/roster.py` | `robots`, `_seen_since_connect`, `_connect_generation`, the roster record | CONNACK, SUBACK, disconnect, broker log lines, settle, resume | the broker's log is live-only and lossy; robots that stay connected through our outage or restart say nothing; timers of an older connection |
| **Fleet and permits** `fleet.py` | permits record and its cache, config overrides in RAM and on disk | permit, revoke, push config, edit settings, wake | a decision read before an edit and used after it; RAM and disk disagree when the store refuses |
| **Voice and ears** `voice.py`, `stt.py`, `tts.py` | the transcriber, VAD sessions, the ask's latch `stt_subscribed_at` | microphone ask, install an engine | the ask's check and its record are separate steps on three kinds of thread |
| **Telehealth** `telehealth.py` | session id and lines per robot | mode, session, speak, interrupt | opens on the HTTP thread while a turn is in flight |
| **Edge: admission** `_lib/limits.js`, `counters.js`, `sharedtier.js`, `clientip.js`, `env.js`, `health.js` | per isolate: slots, queue seats, sliding windows, budgets, a ledger; per data centre: cache entries | admit, queue, hand over, refund, release, publish, probe | the decision awaits a cache that may refuse, fail, answer late or lose a write; a seat's timer against a hand-over; a refund in a later bucket |
| **Edge: routes** `chat.js`, `speech.js`, `transcribe.js`, `_lib/turnstile.js`, `upstream.js`, `reply.js`, `hmac.js`, `prompt.js`, `turnshape.js`, `safety.js`, `wav.js`, `body.js`, `envelope.js` | spent tickets and rejected penalty fields of an isolate, signed contexts and tickets, the audio cache | one turn (one line, at most one re-roll), one voice, one utterance | what was charged against what was called; two lines bought and one shown; two requests for one ticket |
| **Page: mode** `sim/web/mode.js` | what the deployment is believed to be, strikes, timers, trial | probes, turns' answers, timers, hide and show | answers of an earlier state of the deployment arrive in a later one |
| **Page: microphone and bot check** `sim/web/mic.js`, `turnstile.js` | recorder, timers, `busy`; one widget per action and its calls | tap, silence, hard stop, upload; mint a token | a challenge solved after its call gave up; a recorder's late stop event; a valve that frees the button |
| **Page: speech** `sim/web/cloud-transport.js`, `bridge/index.js`, `voice/*.js`, `bridge/alive.js`, `ambient.js` | turns, their tickets in flight, the queue of server audio, held words, the floor | send, redeem, play, supersede, fall back to a local voice, murmur | replies of two turns land in any order; voices load before they sound |
| **Safety journal** `safety.py` | counts and review rows in the store | record a verdict, acknowledge | read-modify-write without a transaction, by workers and HTTP |
| **Memory and transcript** `memory.py` | `history`, memory files | remember, save, forget, purge | saving races the parent's switch to NO_DATA |
| **Settings and data sharing** `fleet.py`, `cloud_config.py` | `config_overrides`, `_settings_unreadable` | `update_config`, load, save | an unreadable record must fail closed |
| **Brains, Try it** `brain.py`, `tryit.py` | rolling spends, tries in flight | try, refund | overlapping tries, late workers |
| **Telemetry**, **schedule**, **content packs** | rings and counters; none; packs and undo copies | count; build a day; evaluate, import, undo | the store's transactions; dates; undo after a second import |
| **Status server, lifecycle** `status_http.py`, `lifecycle.py` | none of its own | routes, start, stop | its single thread serializes the parent |
| **SDK wire and markup** `wire.py`, `markup.py`, ... | none (pure) | encode, decode, stage directions | formats |
| **Broker configuration** `mqtt/broker`, `broker_acl.py` | ACLs | generated files | none modelled |
| **Parent console, pairing** `server/moxie_server/` | accounts, sessions, claims in a database | log in, pair, proxy to the supervisor | a claim used twice or expired |
| **Virtual robot, harness, tools, hardware, docs** | test doubles, drawings | - | read as evidence only |

How they interact: the robot's prompt reaches `_on_message`, which first lets *onboarding* see
the robot (`_device_connect`), then refuses an unpermitted one (*fleet*), then hands the prompt
to the *turn engine*, which asks the *safety* gate, *presence* for a queued hello, the *brain*,
and publishes through *connection*. All of them write through the *store*. The console talks to
the supervisor by HTTP; the robot by MQTT. The hosted page uses the edge functions and no
supervisor: its *mode* decides whether a turn is tried, its *microphone* and *speech* spend
tokens and tickets on `/api/transcribe`, `/api/chat` and `/api/speech`, every one of which goes
through *admission* first; and it tells *mode* what came back.

What makes each correct, in a sentence: the turn engine never talks past the child (ordered
lines, silence after the closing one, superseded turns fall silent, every prompt is answered);
the store never loses or tears an update, and never locks anybody out; onboarding leaves no
permitted robot without its config or deaf; admission leaks and doubles no slot, serves in order
and gives back what it charged; a route makes no call that was not paid for, and shows, says and
remembers one and the same line; the page believes its deployment dead or alive only on
evidence, lets go of the microphone, and never lets an old reply talk over a new one. Of the
parts not modelled yet: the journal loses no verdict; the family's switch to NO_DATA leaves no
transcript behind; the Try-it panel never exceeds its budget; a pairing code is good for one
robot.

## 2. Modules

| module | what it is |
|---|---|
| `TurnEngine` | the turn engine: MQTT loop, workers, filler timers, socket, operator |
| `TurnContract` | what the turn engine promises the robot, in two actions |
| `JsonStore` | transactions, locks, writes and crashes |
| `AtomicStore` | what the store promises: one atomic step per call |
| `Onboarding` | robots, broker, MQTT loop, timers and the parent around config and microphone |
| `EdgeConfig`, `EdgeVisitor`, `EdgeEnvelope` | the `DEMO_*` variables with their clamps; who is asking; the one reply shape |
| `FairSlots` | what the concurrency ceiling promises: a bounded, first come first served line |
| `EdgeAdmission` | admission: slots, queue, windows, budgets, the shared tier, the probe |
| `EdgeReply`, `EdgeChunks`, `EdgePrompt` | from a completion to a line; a line cut into voice chunks and a history into a context; the move and the body of a prompt |
| `EdgeSafety`, `EdgeAudio`, `EdgeGateway` | the floor's table and its readings of a line; RIFF and the checks of a clip; what a route makes of a gateway's answer |
| `EdgeRoutes` | the three spending routes, composed with `EdgeAdmission` |
| `PageMode` | what the page believes of its deployment |
| `BotCheck`, `MicTurns` | the browser's half of the bot control; the microphone, composed with it |
| `VoicePlayer`, `SpeechTurns` | the floor, the queue and the voices of a page; the turns that feed them |
| `MCTurnEngine`, `MCJsonStore`, `MCOnboarding`, `MCEdgeAdmission`, `MCEdgeRoutes`, `MCPageMode`, `MCMicTurns`, `MCSpeechTurns` | for TLC: the constants of the `.cfg` files |
| `TurnEngine_proofs`, `JsonStore_proofs`, `Onboarding_proofs`, `EdgeAdmission_proofs`, `EdgeRoutes_proofs`, `PageMode_proofs`, `MicTurns_proofs`, `SpeechTurns_proofs` | the theorems of section 4 |

`PROJECT.json` maps every definition to its lines. A definition whose name starts with `Mut` is
another definition of its module with a plausible fault put in; it is used nowhere, except to
confirm that the property listed with it in `PROJECT.json` notices the fault.

### TurnEngine

A turn is `<<robot, seq>>`, where `seq` is the number `_on_remote_chat` gives the prompt; it is
*stale* once `_turn_seq` of its robot has moved on. `pc[t]` is where the worker of `t` stands,
and every place lies between two accesses to shared state:

| code | actions |
|---|---|
| `_on_remote_chat` | `Prompt` (number and submit are one step: only the MQTT loop numbers) |
| `_turn_worker` | `StartTurn` (pool thread free, `_busy.add`), `Finish` (`finally`: `_busy.discard`) |
| `_safety_gate_input`, `_safety_redirect` | `InputGate`, then `SayClosing` |
| `_handle_turn`, `_speak_filler` | `Route`, `ArmBudget`, `Respond`, `CloseDoor`, `SayClosing`; `EnterFiller`, `SayFiller` |
| `_handle_stream_turn`, `_arm_filler`, `_speak_stream_filler`, `_say_filler` | `ArmStream`, `StreamChunk`, `SayChunk`, `StreamStops`, `CloseStream`, `Fallback`; `EnterStreamFiller`, `SayStreamFiller`, `RearmStream` |
| `_speak_opener` | `TakeOpener`, `SayOpener` |
| `_ingest_vision`, `_greeting_for`, `_on_vision_turn` | `FaceLost`, `FaceFound`, `SayHello` |
| `threading.Timer` | `TimerExpires`: an expired timer can no longer be cancelled, it waits for the lock |
| `_on_disconnect`, `_on_connect`, `_publish` | `SocketLost` (the socket dies), `OnDisconnect` (the callback notices), `OnConnect`; `Publish` drops a line without a socket |
| `telehealth_session` | `StartSession`, `EndSession` |

`heard[t]` is what reached the robot. Abstracted: the text, markup and the face of a line; the
brain is a choice (it answers, streams, stops, raises, is blocked by the classifier or not); the
length of the absence clock is the `long` of `FaceFound`. Data queries (`notify`, content
packs woken by perception) are left out.

### JsonStore

A record is the set of items stored in it; `Torn` stands in a file that `json.dump` has not
finished. A call of kind `edit` is the pattern of the supervisor's settings and telemetry code: a
`transaction()` around a read and a nested `write`. `TakeRLock`, `TakeFlock`, `OpenFails`,
`LockTimeout`, `Leave` and `Release` are `_transaction_path`; `Read`, `ReadFails` (a record that
cannot be read counts as empty), `Dump`, `Fill`, `WriteFails`, `Replace`, `Unlink` and
`UnlinkFails` the bodies. `result` is what a call reports: it succeeded, it failed, its lock was
refused. `Crash` kills a process: the kernel drops its flocks, and its temporary files stay. The
list cap of `append`, `fsync`, and reads outside a transaction are abstracted.

`AtomicStore` has the same calls without any lock. A call takes effect in the one step that
reports it (`Succeed`), or reports that it did not (`Fail`), or dies; one that found the record
unreadable (`Misread`) stores its own item alone. The refinement maps the record's file to
`value` and everything else, the results too, to itself.

### Onboarding

`on`, `mic` and `config` are the truth at the robots; `robots`, `seen`, `latch` and `life` are
what the supervisor believes (`self.robots`, `_seen_since_connect`, the record of the ask on the
`RobotContext`, and which `RobotContext` that is). A task is a settle timer, a resume timer or
a request of the parent's; all of them walk through the same code in steps: choose a document
(`DecideConfig`), publish it (`PushConfig`), look whether to ask (`AskForMic`), ask (`SendAsk`),
look whether to record (`CheckSeen`), record (`RecordAsk`). Log lines can be lost (no socket, or
words `DISCONNECT_RE` does not know), and everything in RAM is lost by `Restart`.

The SUBACK may come before or after the resume timer has run out: the code has no guard, and the
model has none either. `MaxClicks` bounds permits, revokes and picks together.

`over`, `late`, `outdated` and `sat` are history: they record what a step overtook and no step
reads them to decide. A config is *outdated* when its permit was changed between the decision and
the publication; a record of an ask is *late* when the beliefs it was about had been reset
in between (by a disconnect, a reconnect or a new session). The properties tell these two races
of the code apart, and nothing else; a robot *sat* if it has been connected, with its permit and
the picker untouched, since our CONNACK.

### EdgeAdmission and FairSlots

`req[r].pc` is the await a request stands at. `Admit`, `JoinQueue` and the refusals are the
synchronous half of `admit()`; `Expire` is a seat's timer; `HandOffOrRelease` is what `release()`
does with a slot; `ReadMinute`, `ReadWide`, `ReadBudget` and `PutOver` are the answers of the
cache, each with everything decided on it (an answer may be what is stored, nothing, or a
failure); `LateLanding` is a write that outlived its deadline and is applied after later ones.
`RefundBudget`, `ChargeExtra` and `Release` are what a route does with its slot: in
`EdgeAdmission` any route may do them, in `EdgeRoutes` the real ones do. A counter is a bag of
keys, each with the bucket of the clock it was charged in. `Probe` is `health.js`. Abstracted: the
wiping of a map at 5000 keys (`_lib/counters.js:33`) and the statistics.

### EdgeRoutes and the modules under it

`turn[r].leg` is the await a route stands at: the body, siteverify, the lookup of a page, the
gateway's first and second line, the audio cache, its store.

| code | actions |
|---|---|
| body and refusals of the three routes | `RefuseBody`, `RefuseText`, `BlockText`, `ReadChat`; `RefuseClip`, `ReadAudio`; `RefuseTicket`, `Redeem` |
| `_lib/turnstile.js` | `Verify` (a verdict, an error of ours or of theirs, silence) |
| `callGateway`, the retry without penalties | `CallChat`, `CallEars`, `RetryPlain`, `GatewayFails` |
| the line, the echo guard, the re-roll | `FirstReply`, `SecondReply`, then `Reply` mints tickets and context |
| `speech.js`, `_lib/cache` | `CacheAnswers`, `Synthesised`, `StoreOver` |
| `transcribe.js` | `Transcribed` |

A word is a member of a lexicon with a length and an ending; a completion is a sequence of
pieces (words, thinking tags, a brace, fences, objects with the fields one could read out of
them). The pure parts (`Serve`, `SplitSentences`, `NextShape`, the floor's readings, the RIFF
walk) are functions by prefixes, so that the module stays open to proofs. Signatures are what
they promise: a ticket or a context an isolate accepts is one some isolate signed (`tickets`,
`contexts`), under perhaps other settings (`Posted`, `Elsewhere`), and expires. The contents of
the docs lookup are abstracted to whether there is a page.

### PageMode

`page` is the module state of `mode.js`; `SetState`, `Schedule`, `Note`, `ApplyEnvelope` and
the rest take the state and return the next, as the functions there do. An answer is decided when
the deployment serves it (`ServeProbe`, `ServeTurn`) and read later (`ReadProbe`, `ReadTurn`), so
answers overtake each other and `ChangeMood`. Waits are abstracted: an armed timer may fire at any
moment, and what is left of a `Retry-After` window is counted in ticks.

### BotCheck and MicTurns

`slot[a]` is the widget of action `a`, `call[c]` what a `getToken` call came to. `RunChain` is
the chain of promises that `mint` serializes: it runs until a mint waits for its challenge, and
`BotTypeOK` says that none is left in it otherwise. Cloudflare's script may arrive, fail, arrive late
or never; a challenge may be solved, fail, expire or be left. In `MicTurns` the recorder
(`mic`), each clip, and the work counted by `busy` (`holds`) move with `Tap`, `Level`,
`SilenceFires`, `CapFires`, `StopEvent`, `Upload`, `TurnSent`, `Valve`. `Kinds` are the two
captures: the hosted one encodes its own WAV and stops at once; `MediaRecorder` stops later, or by
itself when its device is unplugged or the permission withdrawn. A microphone that was granted to
a capture that could then not be made is an `orphan`. A turn that is delegated (a linked broker,
or a page that may not spend) has settled its promise when it is sent, so `busy` does not count
it. `execute()` may throw; `reset()` is taken not to.

### VoicePlayer and SpeechTurns

`VoicePlayer` is the floor of the page: what is expected, queued, loading, playing and heard.
`SpeechTurns` has `PostTurn` to the `VoicedReply` or `ChatRefused` of a turn, `SpeechAnswers`
for each redeemed ticket, `WaitElapses` for the deadline of the first one, and `PumpTurn`, which
every one of them runs. `Delegate` and `DelegateAnswers` are the turn on a page that may not
spend, which the bridge answers after its own beat. `routed` and `player.heard` are what the
properties read: what was given to the speakers and what was heard, in order. Fillers and mutters
(`FillerBeat`, `MutterTicks`) compete for the same floor; a notice (`Announce`: `ambient.js`'s
degraded line, the voice panel of `hud.js`) takes it as a reply does. Texts are abstracted to whose
reply and which chunk. Left out: the recorded clips of the child's own lines (`speakClipOnly`),
which refuse to start while she speaks, and whose `stop()` can only flush a chunk that waits for
the one before it.

## 3. Runs

All twelve runs pass, with every property named. Distinct states are those TLC reports.

| run | instance | states | what it shows |
|---|---|---|---|
| `TurnsContract` | 1 robot, 2 workers, 2 turns, 1 filler, 1 chunk, 1 absence, 1 session | 2 124 267 | `KeepsTheContract`: the engine implements `TurnContract` while two workers of one robot overlap. `AtMostOneLateLine`: a superseded turn says at most the one line already past its check. `OneHelloPerAbsence`: whichever way a hello takes, it is said once, and the in-flight marker it is kept by never outlives the turns. |
| `TurnsOutage` | 1 turn, 2 fillers, 2 chunks, 1 hello, 1 session, 1 outage | 440 478 | `StreamIsGapFree`: numbers 0, 1, 2, ... without a hole, because `_on_disconnect` makes every turn stale before paho reconnects. `NothingAfterTheEnd`: no late filler, no second closing. `EveryTurnEnds`: every turn is answered or goes stale, and gives its thread back. |
| `StoreLocks` | 2 processes, 3 threads, `append` and `edit`, 1 crash | 394 402 | Sidecars may not open, records may not be readable. `MutualExclusion`, `LocksHaveOwners`, and `IsAtomic`: the store implements `AtomicStore`. A call reports success in the step that puts it on disk, a failure or a refusal only if it never was, and no update is lost but to a call that could not read the record. |
| `StoreLive` | the same threads, `edit` (with the nested `write`) and `delete`, sidecar may not open, 1 crash | 82 203 | `RecordIsWhole` whatever dies; `EveryCallReturns` through both locks. |
| `FleetServed` | 1 robot, 2 sessions, 1 outage, 1 restart, 2 timers, nobody clicks | 930 308 | `SilentRobotIsServed`: once all is quiet, a permitted robot of the roster that sat connected since our CONNACK has its config and was asked for its microphone though it never said a word, after a restart and over a flapping link. `NoRobotLeftDeaf`: and it does happen. |
| `FleetEdited` | 1 robot, 2 sessions, 2 clicks (permits, revokes, picks in any order), 2 timers | 3 120 453 | `HeardRobotIsServed`: a robot heard of on this connection ends up with the config of its permit, unless the one it holds is outdated. `HeardRobotIsAsked`: a permit, a settle and the Listening picker never each leave the ask to the other, unless a late record misled the picker. |
| `EdgeAdmit` | 3 requests of one household, 2 isolates, 1 slot and 1 seat, 6 units an hour, 2 ticks, 1 late write | 493 204 | `SlotsConserved`, `ChargesAddUp`, `LedgerIsRealSpend`: slots, refunds and the published ledger balance while the clock ticks over. `WindowsUndercount`: whatever the cache loses, nobody is refused by a count that is too high. `ProbeIsHonest`. |
| `EdgeTurns` | 2 turns and 1 utterance of one isolate, bot control on, 12 units | 179 464 | `CallsArePaid` through echoes, re-rolls, retries and failures; `VoiceAndMemoryAgree`: what is heard, remembered and shown is one line; `TokenBuysOneCall`; `NothingUnspeakable`; `FloorHolds`. |
| `EdgeVoices` | 1 turn, 3 requests for its voice, a stranger, an utterance without ears; 1 slot, 2 seats, 7 units | 11 528 | `OneVoicePerTicket`: two requests at once, a failed synthesis and an old ticket buy nothing twice. `FairOrder`: each lane is a `FairSlots`. `Answered`: everybody is, though a request before them may hold its slot for ever over a body that never ends or a docs lookup that never answers. |
| `PageBack` | 2 probes, 2 turns, 6 moods of the deployment, which changes once, degraded at 2 strikes | 1 003 447 | `NeverAbandoned`: a page that may still change its mind has a timer, a probe or a hidden tab that will make it. `OutageEndsByATurn`. `BackWhenWell`. |
| `PageVoices` | 2 lines: turns (live, scripted or delegated) or a turn and notices, up to 3 chunks each | 248 957 | `HeardAsWritten`: one voice per reply, in order, and without gaps unless a line that ends nothing cut in (`Overtaken`). `OlderGivesWay`: once a newer reply has begun, nothing more of the older one is routed. `MurmursYield`. `EveryReplyIsHeard`: in some voice, unless another line took its place or its recording never loads. |
| `PageMic` | 2 clips in either capture, 1 try for the script | 414 912 | `TokenPaysOnce` (and no challenge on screen is reset away), `MicReleased`, `NothingSaidNothingSent`, `OneTurnAtATime`; `RecordingEnds`: a recording ends, unless its recorder stopped first; every call for a token is answered, the button comes back. |

A few properties carry the type invariant of their module as their first conjunct
(`HeardRobotIsServed`, `SlotsConserved`, `CallsArePaid`, `NeverAbandoned`, `MicReleased`,
`TokenPaysOnce`, `HeardAsWritten`); those of `TurnEngine` and `JsonStore` are proved instead.

**Why these bounds are enough to be interesting.** Two turns are what it takes to supersede one, and
a third adds only a second stale turn, which the first two never read. Two fillers are the code's
own budget; one chunk lets the stream end, fail or be blocked after a word, two put a filler in
between. Of the locks, two threads in one process contend for the RLock, a third in another process
for the flock; a plain `write` takes the steps an `edit` takes inside, and the proofs cover all four
kinds. A robot needs a second session for a stale belief about the first, and the resume and a
settle are the two timers that can be alive for it; two clicks are what it takes to change a permit
that a first one gave, or to pick after it. The two fleet runs split what one run of five minutes
cannot hold; one with an outage, a restart and a click together (34 million states) found nothing
against any of the three invariants, and the proofs have no such bounds. Three requests on one slot
and one seat make one that runs, one that waits and one that is turned away; the third is in another
isolate in `EdgeAdmit`, so that the cache is shared by two. Six units are room for two calls, so
that a call more may find nothing left. The clock stands still in the two runs of the routes
(`MaxNow` = 0): what time does to counters is `EdgeAdmit`'s question, and an expired ticket or
context is one of `Posted` and `Elsewhere`. The gateway of `EdgeTurns` answers with an earlier line
again (and a stray brace), with an object whose line is longer than three chunks and holds a
drawing, with a 400, or not at all; its children say goodbye, ask what a page answers in words a
guard allows, name what the floor blocks, say nothing or too much; a clip fits or does not; the
token is of either widget and siteverify may fail. Two probes and two turns are what answers need to
overtake each other; two strikes are the least at which the first one does not decide.

Symmetry: `EdgeAdmit` swaps the two requests of the first isolate (`Alike`), `EdgeTurns` the two
turns (`Twins`), `FleetEdited` its timers; all three check invariants only.

`CHECK_DEADLOCK` is off everywhere: the bounds let every instance run out of prompts, calls,
requests, crashes or edits, and the system does stop when nobody talks to it. That nothing is
stuck is what the liveness properties say.

**Fairness**, and why the code justifies it:

- *Turns*: a runnable thread runs (weak fairness of a worker and of a filler that holds the lock);
  a brain call returns or raises (`_safe_respond` catches it; the clients' HTTP timeouts, 15 s in
  `moxie_sdk/apps/webhook_app.py:61`, are outside the supervisor: a brain that never returns
  keeps its worker); a lost socket is noticed (the keepalive of `moxie_runtime/constants.py:28`).
  Nothing is asked of the child, the parent, or a timer that has not expired.
- *Store*: a thread has strong fairness. The RLock can be taken and released many times while
  it waits, and Python hands a released lock to some waiter in the end. `StoreLive` has a record
  that is always readable and a tree that takes no write where the sidecar does not open.
- *Fleet*: paho reconnects (`moxie_runtime/lifecycle.py:97`), its loop runs, started timers and
  requests go on. Robots and the network owe nothing.
- *Edge*: a seat's timer fires; the shared tier, Cloudflare, the gateway and the audio cache are
  each awaited with a deadline, and `release()` stands in a `finally`. Two awaits have no deadline,
  and nothing is asked of them: the rest of the request's body (`_lib/body.js:25`, `65`), and the
  site's own files for a line that asks something a page answers (`docsearch.js:204-212`). Both hold
  the slot (`Unbounded`). `EdgeVoices` has the shared counter off: that its awaits end is by the same
  deadlines, and is not run with them.
- *Page*: an armed timer fires, a fetch that has a deadline ends, a chunk that plays ends, and
  continuations run. Recorded lines are fetched without a deadline (`voice/local.js:46`, `58`), so
  in `PageVoices` nothing says that a local line ever starts, or that it ends. In `PageMic` neither
  the browser, nor Cloudflare, nor the ears ever need to answer. In `PageBack` the visitor who can
  spend a turn spends one sooner or later: an outage reported by a turn ends by a turn only, by
  design.

## 4. Proofs

TLAPS proves the following for every value of the constants that satisfies the named
assumptions of the modules (`ASSUME`; TLC evaluates each of them on every run): any number of
robots, turns, workers, threads, processes, requests, isolates, clips and chunks, any limits, any
texts.

| theorem | statement | beyond the assumptions |
|---|---|---|
| `TurnEngine_proofs!TypeCorrect` | `Spec => []TypeOK` | |
| `TurnEngine_proofs!SupersededTurnsFallSilent` | `Spec => []AtMostOneLateLine` | |
| `TurnEngine_proofs!ClosingLineIsLast` | `Spec => []NothingAfterTheEnd` | |
| `TurnEngine_proofs!StreamsAreGapFree` | `Spec => []StreamIsGapFree` | |
| `TurnEngine_proofs!ContractIsKept` | `Spec => KeepsTheContract` | |
| `TurnEngine_proofs!AbsencesAreGreetedOnce` | `Spec => []OneHelloPerAbsence` | |
| `JsonStore_proofs!TypeCorrect` | `Spec => []TypeOK` | |
| `JsonStore_proofs!OneWriterPerRecord` | `Spec => []MutualExclusion` | |
| `JsonStore_proofs!NoOrphanedLocks` | `Spec => []LocksHaveOwners` | |
| `JsonStore_proofs!RecordsAreWhole` | `Spec => []RecordIsWhole` | |
| `JsonStore_proofs!CallsAreAtomic` | `Guarded /\ Spec => IsAtomic` | `Guarded`: there is a flock and a sidecar that does not open means a tree that takes no write, or there is one process |
| `Onboarding_proofs!TypeCorrect` | `Spec => []TypeOK` | |
| `Onboarding_proofs!HeardRobotsAreAsked` | `Spec => []HeardRobotIsAsked` | |
| `Onboarding_proofs!HeardRobotsAreServed` | `Spec => []HeardRobotIsServed` | |
| `Onboarding_proofs!SilentRobotsAreServed` | `Spec => []SilentRobotIsServed` | |
| `EdgeAdmission_proofs!TypeCorrect` | `Spec => []TypeOK` | |
| `EdgeAdmission_proofs!SlotsAreConserved` | `Spec => []SlotsConserved` | |
| `EdgeAdmission_proofs!SlotsAreFair` | `Spec => FairOrder` | |
| `EdgeAdmission_proofs!WindowsAreUndercounted` | `Spec => []WindowsUndercount` | |
| `EdgeAdmission_proofs!ProbesTellTheTruth` | `Spec => []ProbeIsHonest` | |
| `EdgeRoutes_proofs!CallsArePaidFor` | `RoutesSpec => []CallsArePaid` | |
| `EdgeRoutes_proofs!TokensBuyOneCall` | `RoutesSpec => []TokenBuysOneCall` | |
| `EdgeRoutes_proofs!TicketsBuyOneVoice` | `RoutesSpec => []OneVoicePerTicket` | |
| `EdgeRoutes_proofs!RoutesKeepTheSlots` | `RoutesSpec => []SlotsConserved` | |
| `EdgeRoutes_proofs!RoutesAreFair` | `RoutesSpec => FairOrder` | |
| `PageMode_proofs!NobodyIsAbandoned` | `Spec => []NeverAbandoned` | |
| `PageMode_proofs!OutagesEndByATurn` | `Spec => OutageEndsByATurn` | |
| `MicTurns_proofs!MicrophonesAreReleased` | `Spec => []MicReleased` | |
| `MicTurns_proofs!SilenceIsNotSent` | `Spec => []NothingSaidNothingSent` | |
| `MicTurns_proofs!TurnsDoNotOverlap` | `Spec => []OneTurnAtATime` | |
| `MicTurns_proofs!OneSendPerToken` | `Spec => []TokenPaysOnce` | |
| `SpeechTurns_proofs!OldRepliesGiveWay` | `Spec => []OlderGivesWay` | |
| `SpeechTurns_proofs!MurmursNeverOverlap` | `Spec => MurmursYield` | |

One theorem has a hypothesis. `Guarded` holds on every platform with `fcntl` if `store.py:300` is
right that where the sidecar cannot be opened the write fails too, and within one process anyway.
The code does not see to the first part: a sidecar that belongs to somebody else, in a directory one
may write to, lets two processes overwrite each other (section 5).

**Turns.** None of the properties is inductive: that a late line is the only one depends on
nobody else being past a check. The base is `IInv == TypeOK /\ QueueOK /\ \A t : TurnOK(t)`.
`QueueOK` says the pool's queue holds the turns at place "queued", each once, so that a started turn
is a fresh one. `TurnOK` has four parts: `HeldOK` (a worker about to speak has something to say),
`PlaceOK` (which places exclude which timers, and that the worker is at "chunk" exactly while it
has the lock), `LateOK` (once a line came late the turn is stale, nobody is past a check, and
it was the only late one) and `EndOK` (once the closing line is out the worker is past speaking,
and either `done` is set or there are no timers). Numbers only grow, so a stale turn stays
stale; that is what makes `LateOK` survive the MQTT loop's steps. `WorkerElsewhere` and
`FillerElsewhere` say that the steps of one turn leave the others alone, `SilentSteps` and
`SpeakingSteps` treat the actions that do not and do publish.

`LinesInv` adds `LinesOK(t)` for the numbers. `Numbers`: nothing heard in an unfinished turn is
numbered past the counter, and a turn past its closing line is shut. `Spent`: every number was
used up by a hello, a chunk or a filler, so the counter is at most `1 + MaxChunks + MaxFillers`,
the `MaxChunk` of the contract. `Gapless`: a turn that is current and whose socket is up heard
exactly as many lines as were numbered. The third needs the disconnect callback: a turn is stale
whenever the socket is known to be down. From it follow `StreamsAreGapFree` and, with every line
heard mapped to the contract's and all other steps to a new prompt or a stutter, `ContractIsKept`.

`GreetInv` counts hellos, robot by robot: those said by vision, the turns that say or are about to
say one, and those still to come (kept, about to be said, or earned by an absence that lasts) are
at most the absences. Each step moves at most one hello from one of these places to the next, so
the proof is about sets with one element more or less. `BusyHasAWorker` is the other half: a hello
is kept for a turn only while a worker of that robot runs.

**Store.** `LockInv` relates `_depths` and the place of a thread to the owner and count of the
RLock (`Level`) and, unless its sidecar did not open (`bare`), to the owner of the flock. From it:
whoever is between its read and its rename, and may still store something (`CanStore`), is alone among those on the record (`Alone`),
so the file is what it was when it was read and what it stores is that plus its item, or its item
alone if it could not read (`BufInv`). The rename is then a `Succeed` of `AtomicStore`, a failed
write or unlink and a refused lock are a `Fail`, `ResultInv` says that nothing was reported before,
and every other step but a call, a return and a crash is a stutter. `RecordsAreWhole`
needs only the RLock: two threads of one process never share a temporary file, and those of two
processes have different ones.

**Onboarding.** A quiet state is the end of a chase, so the invariants say who is still on the way.
`ServeInv` is one invariant for all three theorems, robot by robot. `AskOnItsWay(d)`: a robot that is
due an ask was asked, or its connect line is in the inbox, or a settle, a permit or a pick is before
its ask. A pick passes over a robot whose ask is recorded, so a record that is not late must stand
for an ask that arrived in this session (`LatchIsTrue`, over the tasks that are about to record,
`Backed`), and a robot we have not heard of can only have a late one (`UnseenIsLate`).
`ConfigOnItsWay` is the same chase for the config: it fits the permit, or is outdated, or somebody is
before the publication of another one. `RevokeStands` says that nobody permits a robot while its
revoke is at work, so that the ask a revoke forgets is not one a permit has just made: the console's
requests come one at a time. For robots that say nothing, `SilentIsResumed`: while one that sat is
unheard, the resume of *this* connection has it ahead (before its SUBACK, too: `Reaches` is all a
publication needs), or has served it; `SatStays` says that nothing on its way strikes it off, and
`FreshLink` that what we believe of a connection starts with its SUBACK.

**Admission.** `SlotInv` follows lane by lane. A step is first told as what it does to the requests
(it rests, or moves one request on its lane) and then as what that makes of each lane: the count
of the isolate, the holders, the line. A lane's move is a step of `FairSlots`, which gives
`SlotsAreFair`. `WindowInv` is for the shared tier: a number is read from
the cache before the request is counted and written after it, so whatever is stored, in flight
or about to be written is at most the number of requests let through.
The probe needs no invariant of its own: `ProbesAreHonest` reads it off `SlotInv`, with what
`envelope.js` makes of its fields (`EnvelopeKeeps`) and the arithmetic of a window's end
(`WindowsEnd`).

**Routes.** `Acts` names the nine ways a route may move its turn, so that each of the twenty actions is
looked at once; where an action touches requests it is a move of `EdgeAdmission_proofs`, whose
lane lemmas are reused (`RoutesKeepTheSlots`, `RoutesAreFair`). `RoutesInv` holds the ledger of a
route: `ReqPaid` (what a request was charged, by where admission has it) and `TurnPaid` (a table:
for each leg, how many calls it has made, and how many of them it has paid for). `SpentOK` says
that the tickets an isolate remembers were redeemed in it, and are all of them, each redeemed
once, while they fit in `SPENT_MAX`: the set is cleared whole when it is full, and that is why
`OneVoicePerTicket` is about isolates that redeemed no more than that. `BotInv` is separate:
who is verified used a token of the right widget, and no two of them the same one.

**Page.** `Sound(page)` is what the flags of `mode.js` say together, `MailInv` which answers can be
on their way, `WaitInv` that somebody will look again. `SetState` and `Schedule` preserve the first
two as functions of the state, so each entry point of the file is a composition of lemmas. `MicInv`
says one clip at a time has the recorder (`OneRecorder`), the last stream is the one that is kept
unless it is an orphan's (`Released`), the levels measured are of the clip that records (`Spoken`),
and `busy` counts each clip's work once per stage (`Counted`, `OneAtATime`). The bot control has an
invariant of its own, per widget (`SlotOK`): the calls that mint are the one in flight and those of
the chain, and a token that a widget still holds was given to nobody unless it is the one it knows
as spent (`TokensOK`). A mint is followed as a function of the slot and the calls (`RunOK`,
`RunChainOK`, `MintOK`, `SettleOK`), with the challenge that cannot be drawn as a case of its own:
after it the chain's next mint waits for a challenge nobody will solve (`Pending`), so three runs of
the chain are all there can be. The other widget looks on (`Bystander`). `SpeechInv` says a voice
that is open was not overtaken by a newer one (`OpenIsNewest`), because whatever takes the speakers
first closes every older voice (a delegated turn's line and a notice have a place below every
turn's, since they close none), and that a murmur is loading only while nothing plays (`Quiet`);
`Staged` says that a reply routes nothing before its turn was answered, so a voice begins once.

**Only model-checked**, and why:

- Liveness: `EveryTurnEnds`, `EveryCallReturns`, `NoRobotLeftDeaf`, `Answered`, `BackWhenWell`,
  `RecordingEnds`, `EveryReplyIsHeard`. The prover does neither ENABLED nor fairness.
- `ChargesAddUp`, `LedgerIsRealSpend`: sums over a set, by a fold; what a fold computes is an
  induction over data, which the prover cannot instantiate. The counts of
  slots, hellos and windows need cardinalities only and are proved.
- `VoiceAndMemoryAgree`, `NothingUnspeakable`, `FloorHolds`: the pure functions over texts and
  bytes they compare are recursive over their input, for the same reason.
- `HeardAsWritten`: what a reply was heard as, and what the next reply leaves of the queue, are
  selections from a sequence (`SelectSeq`), which the prover knows nothing about and has no
  theorem for; the player keeps its queue that way too, so there is no honest way round it.
  Besides the run, random behaviours of three turns found nothing against it.

## 5. What the code does and its documents do not say

No run is expected to fail: what follows was seen while modelling and proving. The properties are
stated so as to be true of the code, and several of them are shaped by these points.

*Supervisor*

- A stale answer can still go out: the check (`turns.py:172`, `252`, `292`) and the publish are
  two steps, and the loop numbers prompts without the turn's lock.
  `docs/architecture/mqtt-and-conversation.md:634` says *never*; `AtMostOneLateLine` is the bound
  that does hold.
- When a stream raises before its first chunk, the reply of `_safe_respond` is published
  unassessed (`turns.py:301-304`); the plain path assesses it (`turns.py:176`), and
  `mqtt-and-conversation.md:682` says every chunk is.
- On the plain path a queued hello is chunk 0, and so is the filler after it (`turns.py:212`);
  the same document (632) says `chunk_num` orders the responses of an event. `StreamIsGapFree` is
  about streams.
- The first of two overlapping workers of a robot clears `_busy` (`turns.py:27`), so a hello can be
  spoken over the second one's turn, against the comment at `presence.py:157`.
- A turn submitted before a telehealth session opens speaks its answer inside the session
  (`turns.py:103` says no brain while one is open).
- `_push_config` decides, the parent revokes, and the full document decided on before goes out after
  the minimal one (`fleet.py:241-249`); `docs/guides/permitting-a-robot.md:60` says the next config
  has the child's details stripped out. The other way round a settle that decided on the minimal
  document can publish it after a permit. `outdated` in `HeardRobotIsServed` is either; nothing
  decides again until the robot reconnects or its permit changes.
- `set_transcriber` asks the robots in `self.robots` (`voice.py:228`); after a restart without a
  transcriber the roster's robots are not in it, and `mqtt-and-conversation.md:337` says every
  permitted robot the supervisor knows of. A permit of such a robot pushes nothing until it is
  heard.
- `_subscribe_stt` checks the permit and `_seen_since_connect`, and records the ask, in separate
  steps: a revoke or a disconnect in between leaves a pending robot, or a ghost, with a record,
  against `connection.py:470-472` (a ghost never carries one, and its re-onboarding always asks). A
  pick then passes over a robot that was not asked in its session, though `voice.py:217` says every
  permitted robot not yet asked is asked, and so does the resume. `late` in `HeardRobotIsAsked` and
  `SilentRobotIsServed` is this case: it takes a record that a task makes after the beliefs were
  reset under it.
- A robot that connects between our CONNACK and our SUBACK is in nobody's sight: the resume may
  have passed, and the broker's log line was not sent to us. Nor do a permit and a pick reach a
  robot that sits silent after a restart. Both wait for its next report; `sat` leaves them out.
- `store.py:203-207`: a record that cannot be read (no permission, no descriptor left, damaged)
  counts as empty, and the next `append` or edit overwrites it with its own item alone and reports
  success (398). The comment there, that one damaged record must not take a session down, is about
  reading. `blind` in `AtomicStore` is this case.
- `store.py:300` expects that the write fails when the sidecar cannot be opened; a sidecar of
  another user in a writable directory lets it succeed without the cross-process lock.

*Edge functions*

- Two awaits of a route that holds its slot have no deadline: the rest of the body
  (`_lib/body.js:25`, `65`) and the site's own files during the docs lookup
  (`docsearch.js:204-212`). A stalled upload keeps its slot for as long as the platform lets it;
  `Answered` is about everybody else.
- `chat.js:18` says one upstream call, or two, never more: a 400 that is retried without
  penalties, and an echo that is re-rolled, make three. The retry is not charged (the
  `retries` of `CallsArePaid`) and gets the whole deadline again (`chat.js:257`).
- Of two turns whose 400s cross, the second finds the isolate's flag already cleared
  (`chat.js:253`) and is answered `upstream_down` instead of retried.
- A voice from the audio cache makes no call and is still charged (`speech.js:118-134`): the last
  conjunct of `CallsArePaid` names that case.
- The set of redeemed tickets is cleared when it is full (`speech.js:111`), and an old ticket can
  then be redeemed again until it expires; `OneVoicePerTicket` is about isolates within `SPENT_MAX`.
- `DEMO_MAX_HISTORY_TURNS=0` keeps the whole history (`slice(-0)`, `_lib/hmac.js:408`), and the number
  counts messages, not pairs. A reply longer than `maxInputChars` is remembered cut
  (`_lib/hmac.js:406`), so its echo is not recognised.
- A turn costs more than one unit, and the budget is over at `used >= ceiling`
  (`_lib/limits.js:227`): the probe says live while less than one call is left, and while the
  shared tier would refuse. `ProbeIsHonest` says exactly what it may say.
- `_lib/sharedtier.js` reads what the isolate owes before its await (line 359) and adds it to what
  it read after it (385): two requests of one isolate can publish the same units, and the shared
  budget then counts too much, which line 15 rules out. `WindowsUndercount` is about the windows,
  where it is true.
- `verifyContext` clamps a history again when it reads it (`_lib/hmac.js:422`); it was clamped when it
  was signed, and the model has one configuration, under which the second clamp changes nothing
  (`HistoryOf`). Between two deployments with different limits it may shorten it.
- `_lib/env.js` clamps timeouts against each other, not at the extremes: cache and queue waits at
  their upper bounds exceed an upstream timeout of 1000 ms. Line 274 calls `""` a falsy switch; it
  reads as unset.
- `_lib/safety.js`: a word disguised in two ways that take two readings evades the variants, and
  removing an allowed span joins its neighbours. `FloorHolds` is about one disguise.
- `_lib/reply.js`: prose with a stray `}` is returned as it is (line 135), and only the first closed
  drawing is removed; `NothingUnspeakable` names these shapes (`Careless`).
- `_lib/wav.js`: the duration of a clip is measured by its first `fmt ` chunk (line 263), and played
  by its last (148).

*Browser*

- "Nothing starts on top of Moxie answering" (`sim/web/voice/core.js:76`) and "never heard after the
  newer one" (`cloud-transport.js:25`) are not kept when an older reply lands after a newer one
  began: it takes the speakers, and chunks of both interleave. `Overtaken` in `HeardAsWritten` is
  this case. A local line of another reply also flushes a chunk that waits in the queue, and
  held words of a superseded reply stay held.
- Three voices take the speakers and end no older reply, so that its later chunks are routed, and
  heard, after them, against the same sentence: the answer to a turn the page may not spend on, which
  the bridge gives 450 ms later (`cloud-transport.js:558-561`, `bridge/index.js:313-324`); the one
  degraded line of `ambient.js:281-292`; and what is typed into `hud.js`'s voice panel. They also
  flush the chunks that wait, so of a reply that plays the first and the third may be heard.
  `Nowhere` is their place in `Overtaken` and `OlderGivesWay`.
- A recorded line is fetched without a deadline (`voice/local.js:46`, `58`): if it never loads, the
  words are never heard, and nothing falls back (`player.loading` in `EveryReplyIsHeard`).
- `speakBrowser`'s `onend` clears `V.current` whatever it has come to be (`voice/local.js:201`):
  while a chunk plays on, `moxieIsSpeaking()` still sees it, but a later `stop()` has nothing to
  stop.
- The late reply of an older turn overwrites `contextBlob` (`cloud-transport.js:537`).
- `botUnavailable` never calls `moxieAlive.settled()`, and an older reply's `settled()` silences the
  filler of the newer turn.
- `mode.js:374`: an `at_capacity` on a resting page overwrites a longer `Retry-After` with 15 s. An
  answer in flight can bring an offline page back, which is then never polled.
- `mic.js`: a `MediaRecorder`'s stop event can come after the next tap (`raced` in `MicReleased`).
  If the capture cannot be made once the microphone was granted (lines 383 and 439), the stream was
  never handed over, and stays live until the page goes (`orphan`).
- A `MediaRecorder` that stops by itself (its device is gone, the permission withdrawn) runs `onstop`,
  which clears the hard stop and sends the clip, and leaves `recording` true: the page shows that it
  listens until somebody taps (`mic.js:529-544`; `Stranded` in `RecordingEnds`).
- The valve of 30 s is shorter than the three waits of a clip together (8, 8 and 20 s), so the button
  can come back while one is in flight (`overdue` in `OneTurnAtATime`). A delegated turn's promise has
  settled when it is sent (`cloud-transport.js:558-561`, `576-578`), so the button comes back before
  its answer; `OneTurnAtATime` is about live turns.
- `turnstile.js:349-355`: if `execute()` throws, `outstanding` stays set without a challenge, and later
  mints of that action wait out their deadlines for it.

## 6. Not modelled, and what is left

Not modelled for good: formats and pure conversions of the SDK (wire, markup, segmenting),
rendering of routes, the console's REST glue, drawing, behaviour trees, hardware and docs.
`PROJECT.json` gives the reason with each component, and with each hazard no property covers.

Left to do, the most important first:

1. `FamilyPrivacy`: `_save_memory` of a turn worker against `update_config` to NO_DATA and the
   purge, with `config_overrides` in RAM and on disk and a store that may refuse. Abstract
   specification: once the parent chose NO_DATA and the call returned, no transcript appears.
2. `SafetyJournal`: counts and rows of up to eight workers against `acknowledge_safety`, over
   the store's atomic calls (`AtomicStore`). What is lost, and what is not.
3. `TryItBudget`: spends, refunds and late workers of overlapping tries.
4. `PairingServer`: claims that expire, are used, or are used twice.
5. `Onboarding`, more of it: wake, the serve-any-robot toggle, un-pairing and the roster's cap;
   and two supervisors that edit one permits record.
6. `TurnEngine`, more of it: the operator's lines inside a telehealth session, data queries.
7. Proof: `HeardAsWritten`, should the prover learn what `SelectSeq` returns. It needs what
   `SpeechInv` says of `routed` carried on through the queue, chunk by chunk, into `player.heard`.
