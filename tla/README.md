# Formal models of frontdesk-ai

TLA+ models of the parts of frontdesk-ai (an AI receptionist that answers a
business's overflow calls) whose behaviour is hard to test: the turn-taking
state machine of a call, the degradation layer in front of the language-model and
speech providers, the notification consumer, the gateway's call sessions, the media
server and call control on Asterisk, the agent runtime with its event stream, and the
core API over its stores. TLC checks each on small instances; TLAPS proves theorems
about all of them for every value of their constants.

Check a module with `tlc -config <run>.cfg <module>.tla`, its proofs with
`tlapm <module>Proofs.tla`. `PROJECT.json` maps every definition to the lines it
models and lists the runs, the variants that break each property, the hazards and
the findings.

## 1. Inventory

A call comes in through a carrier (Telnyx or Asterisk). The gateway answers it
and owns its session; audio frames reach the turn machine, which feeds the
speech recognizer, asks the agent runtime (Python, over NATS) for a reply and
plays the synthesis. Events of the call go to the bus; the notifier consumes them
and tells owner and caller what happened; the core API keeps tenants, calls and
appointments for the dashboards.

| Component | State | Operations | Talks to | Hard behaviour | What makes it correct |
|---|---|---|---|---|---|
| **Turn machine** `go/internal/turn` | state, clocks, draft of the caller's words, reply pipeline (context, TTS channel, filler timer), playout tracker, ducking | the `select` loop of `Run`: frame, STT result, TTS chunk, filler, close, cancel | recognizer, agent, TTS, line (channels, callbacks) | barge-in, rethink, failed turns and closes interleave with audio already queued on the line | a turn's pipeline is cancelled exactly once; no caller words lost; history holds what was heard; a silent caller is answered |
| **Endpointer, energy meter** `turn/endpoint.go`, `media/energy.go` | onset and hangover counters | classify text, process a frame | turn machine | thresholds | used inside the turn machine's properties |
| **Breakers and hedge** `degrade/breaker.go`, `hedge.go` | per provider: state, failures, opening time; per completion: attempts, results channel | Allow/Success/Failure; launch, timer, receive, cancel | two LLM providers; all calls share the breakers | races of attempts, a timer, cancellation and late results across calls | no storm on a dead provider; a completion returns, gives up last, leaks no goroutine |
| **STT ring** `degrade/sttring.go` | connection, ring of undelivered frames | Send (dial, flush, retry), Close | recognizers that fail at any point | failure in the middle of a replay | newest frames kept, delivered once and in order; Send returns |
| **Degradation ladder** `degrade/level.go` | level | step down and up | hedge, ring | concurrent steps | one step at a time, never past voicemail |
| **Event consumer** `event/natsbus.go`, `bus.go` | seen (call, seq) pairs | deliver, Nak, Ack | JetStream, notifier | any order, redelivery, lost acks, restarts | an acknowledged event was handled |
| **Notifier** `notify/` , `cmd/notifier` | buffered events, dedup keys, weekly counters | HandleEvent, weekly report goroutine | SMS, e-mail, directory | crash between two steps, `call.ended` ahead of its call's events, retry of a half-done handler, report racing a call | owner told; nothing twice; every call in one report |
| **Telephony gateway** `cmd/telephony-gw` | session registry, WaitGroup, contexts | webhooks, startCall, end, drain | carrier, bus | reposted and reordered webhooks, deadlines, shutdown at any point | hangups end sessions; drain waits for calls and ends |
| **Jitter buffer** `media/jitter.go` | next number, frames held beyond a gap | Push | turn machine | reorder, loss, late and repeated frames | waits for a frame overtaken by a window of later ones, never stalls behind one it holds |
| **External media** `asterisk/externalmedia.go`, `rtp.go` | sessions per SSRC, each with its number state and outbound queue | read loop, accept, write, flush, pacing, close of a session or the server | Asterisk RTP, the call's goroutine | close racing the read loop; 16-bit wrap; flush racing the pacer | no send on a closed channel; a frame keeps its place; a flush cuts |
| **Call control, drainer, rehydration** `asterisk/` | tracked playbacks, active channels, recovery report | play, flush, hang up, drain, boot recovery | ARI commands and events | playback finishing before it is tracked; refused commands; restart with channels alive | what plays can be stopped; a drain waits for its calls; nobody in silence after a restart |
| **Event folding** `event/fold.go` | none (pure) | fold a stream into a snapshot | notifier, API, rehydration | duplicates, reordering, two emitters | the snapshot is the emitter's state |
| **Agent runtime** `python/agent-runtime` | agent state, emitted and published events | turn through the graph, tool call, emit, flush, reply | calendar, message store, LLM, NATS, gateway socket | a turn that fails half-way keeps its events and bookings and loses its state; a reply replaced or lost | books what it says, once; the stream explains the state |
| **Core API, stores, domain, billing** `api/`, `store/`, `domain/`, `billing/` | tenants, keys, numbers, calls, appointments, messages, subscriptions | twelve routes; two stores with the same methods | PostgreSQL, payment gateway | concurrent transactions, lost commits, restarts, onboarding in two systems | each method is atomic; tenants are isolated; what was acknowledged stays |
| Carrier adapters, ARI client, audio bank, observability, dashboards, deployment | none of their own | requests, lookups, rendering | external | | not modelled |

## 2. Modules

| Module | Models | How it corresponds |
|---|---|---|
| `Endpoint` | `turn/endpoint.go` | pure operators over texts (sequences of token values): `waitForMs`, `isBackchannel`, `realTextLen` |
| `Meter` | `media/energy.go` | `Process` on a frame that is loud or quiet |
| `TurnMachine` | `turn/machine.go`, `playout.go` | one action per arm of the `select`; a handler and every call it makes is one step |
| `MCTurnMachine` | | three utterances, two locales, two chunk shapes |
| `TurnMachineProofs`, `DegradeProofs` (`Hedge` and `STTRing`), `NotifierProofs`, `GatewayProofs`, `ExternalMediaProofs` (with `Jitter`), `AsteriskProofs`, `AgentProofs`, `CoreAPIProofs` | | the theorems, section 6 |
| `Breaker` | `degrade/breaker.go` | pure operators on a breaker record |
| `Hedge`, `MCHedge` | `degrade/hedge.go` over shared breakers | `Complete` goroutines and the attempts they spawn, a step per breaker question and per result |
| `STTRing` | `degrade/sttring.go` | `Send` unfolded into one step per dial and per frame; implements `FrameLine` |
| `FrameLine` | `degrade/sttring.go` | abstract: frames spoken and delivered, no ring, dials or providers |
| `Notifier`, `MCNotifier` | `event/natsbus.go`, `bus.go`, `notify/*`, `cmd/notifier` | a step per effect of the consume callback, so that it can crash, fail or race the weekly goroutine between any two |
| `Gateway`, `MCGateway` | `cmd/telephony-gw/gateway.go`, the shutdown in `main.go` | a handler per webhook, a goroutine per session, a step per carrier request |
| `Jitter` | `media/jitter.go` | `Push` as an operator on the buffer's record |
| `ExternalMedia`, `MCExternalMedia` | `asterisk/externalmedia.go`, `rtp.go` over `Jitter` | a step per critical section and per channel operation of the read loop, the closers, the writer and the pacer |
| `Asterisk`, `MCAsterisk` | `asterisk/callcontrol.go`, `drain.go`, `rehydrate.go` | a step per ARI command or event and per lock; Asterisk itself keeps its channels and playbacks when the process restarts |
| `Fold` | `event/fold.go` | `Fold` and `apply` as a recursive function over the numbers |
| `Agent`, `MCAgent` | `graph.py`, `tools.py`, `events.py`, `bridge.py` over `Fold` | a step per node of the graph; a node's outcome includes each call in it that may fail |
| `Domain` | `domain/`, keys of `0001_init.sql`, `billing/billing.go` | the rows and the rules both stores share |
| `MemStore` | `store/memstore.go` | what a store promises: each method one atomic step between call and return |
| `PGStore` | `store/pgstore.go` | each method a transaction that stages rows, then commits, rolls back, or commits unheard |
| `CoreAPI`, `MCCoreAPI` | `api/`, `billing/gateway.go` over `PGStore` | a step between any two store calls of a handler |

`Endpoint` and `Meter` are extended by `TurnMachine`; `Breaker` by `Hedge`; `Jitter` by
`ExternalMedia`; `Fold` by `Agent`; `Domain` by both stores and `PGStore` by `CoreAPI`. `PGStore`
declares `Mem == INSTANCE MemStore WITH req <- ...`: a call is under way in `MemStore` until its
transaction has ended, so a write takes effect at its commit and a read when its statement runs;
`StoreIsMem` (the specification of `MemStore` under this mapping) is checked and proved on the
composition with the API's handlers. The other modules stand alone because the code's components share only channels and webhooks, which
each module closes with an external part: the line and the reply pipeline for
`TurnMachine`, providers for `Hedge` and `STTRing`, the stream and the carrier for
`Notifier`, the carrier for `Gateway`, the network and Asterisk for `ExternalMedia` and
`Asterisk`, Postgres for `PGStore`. External definitions are marked so in the map.

Abstractions worth knowing:

* **Time** in `TurnMachine` is the media clock, one tick per frame. The code keeps
  absolute stamps and only subtracts them; the model keeps the differences
  (`silence`, `elapsed`, `duckAge`), counted up to the largest value they are compared with.
* **Text** is a sequence of tokens; only membership in the dictionaries and rune
  counts are read from a token.
* **The line** plays one queued frame per tick and may starve between chunks.
* **The breaker's clock** is one event, `IntervalElapses`.
* **Telling the breaker and sending the result** (`Hedge`) is one step: nobody else
  can see the point in between unless the send blocks, and `ResultsFit` says it does not.
* **Events** of a call are `started`, `message`, `ended`; a record stands for its
  (callId, seq) and its event id. They are published in that order, and the bus hands out
  what is published in any (`bus.go:18-20`). One tenant, with an owner phone and an e-mail.
* **Session ids** (`Gateway`) are the webhooks that started them. A webhook is taken
  while the server listens; the order in which its handlers run is free. Adding the
  session and starting its goroutine are one step (a hangup or deadline in between
  has the effect it would have just after).
* **RTP numbers** (`ExternalMedia`) are true positions; the wire carries them modulo `Wrap`, 8
  for 2^16. A packet comes at most `Reorder` numbers late and at most `Half - Reorder` ahead of
  some packet seen: the code's unwrapping needs half the range between a packet and the last one
  taken, and a session may have been opened by a late one. (That reordering stays below half the
  range is too weak an assumption: after a session opened by a packet that came late, the next one
  may then be more than half the range ahead. No run had packets enough to show it; the proof did.)
* **A row** (`Domain`) is one shape for all tables; a tenant's id stands for its key
  and the hash of its key. A request body that does not decode or validate is `bad`.
* **Postgres** (`PGStore`) at READ COMMITTED: statements see committed rows, a write
  waits for another under the same unique key, row-level security filters by the setting.
* **An utterance** (`Agent`) is the language it is clearly in and what the dictionaries
  find in it; a postal code is whether it is covered. A reply is the booking it confirms, or
  none; the LLM's wording is taken to say what the graph's draft says.
* **What is stored of a call** (`Asterisk`) is nothing, a call to resume, or a finished one,
  any of the three for any channel: the projections lag behind the calls.
* Histories (marked *history* in the declarations) are read by properties only.

## 3. Runs

| Run | Question | States | Bounds |
|---|---|---|---|
| `turn` | every interleaving of frames, results, chunks, filler and failures in one call | 273,794 | three STT results, utterances of two frames, silence to 2, backlog 2, onset and hangover 2, window 2 |
| `hedge` | two concurrent completions over two providers and shared breakers | 153,534 | breaker opens at two failures (a parameter, three by default in the code), each call may complete again |
| `sttring` | five frames through a ring of two over two providers failing anywhere | 8,567 | three attempts per dial, as in the code |
| `notifier` | one call in any order of delivery, failures, lost acks, one restart, two weekly reports | 135,080 | |
| `notifier_two` | two interleaved calls in any order of delivery | 189,477 | no restart, calls symmetric |
| `notifier_nak` | *violation* `AckedMeansHandled` | | |
| `gateway` | a call whose `call.initiated` is posted twice, an unknown number, hangups, shutdown | 83,364 | two posts of one call, one of the other |
| `coreapi` | two concurrent requests over all routes, faults anywhere | 765,769 | two tenants, two requests or projections, one fault, requests symmetric |
| `media` | a leg's packets against writes, flushes and closes | 3,054,221 | five packets of which one repeats, at most two late, numbers modulo 8 from 6 on, two sessions, two packets written, window 1 |
| `media_crash` | *violation* `NeverPanics` | | one session, two packets |
| `asterisk` | two channels, playbacks, drain, crash, recovery | 4,075,457 | two playbacks, one refusal, one crash, one drain, channels symmetric |
| `agent` | a call's turns with a failure anywhere | 431,414 | five turns from six utterances, one failing call or blocked reply |

Why the bounds are enough. `turn`: three results allow a rethink, a failed turn and a
late final in one call, the longest chain on which `carryText`, `finals` and
`lastPart` depend; utterances of two frames have a middle to barge into; counters saturate
at the largest value the code compares. `hedge`: `Breaker.Failure` needs two failures to
open so that attempts of both calls can straddle the opening; a third completion adds no
new kind of interference, since a call meets others only in the breakers. `sttring`: five
frames overfill a ring of two twice. `notifier`: a second restart repeats the
first from a smaller state; the second week shows a report after a reset. `gateway`: the
second post is the smallest way to have two sessions under one registry key; sessions of different
calls meet only in the drain. `coreapi`: requests meet only in the database, where conflicts are
between two; two tenants are needed to leak one's rows to the other, and the one fault may fall
into any step. `media`: five packets from 6 wrap at the third and leave room for a gap, a late and a
repeated packet; legs meet in nothing but the shutdown, so one is enough, and its second session
is the one opened by packets after a close. `asterisk`: a crash between two playbacks makes their ids
repeat; the recovery needs two channels for one to fail before the other. `agent`: the six
utterances reach every node and both branches of each; five turns are a booking or a message
and a wrap-up with one turn to repeat or to go wrong.

`CHECK_DEADLOCK FALSE` is set because each system may stop: a call ends, all
completions have returned, the frames are used up, the stream is drained, the
gateway has shut down, the requests of a bound are answered.

### What the passing runs show

* `PipelineOwned`: whatever sequence of rethinks, barge-ins, failures and hangups, the
  one live turn context is the one the machine holds, and it holds one exactly
  while thinking or speaking.
* `CallerWordsKept`: the draft still starts with every final and every text already
  reported and not yet answered; a reply under way was asked with exactly that.
* `CompletedTurnIsWhole`, `HeardWhenFed`: a turn that closes by itself is recorded whole (against
  a comment, see below), and a turn holds no unheard word if the line was never starved.
* `DraftAnswered`, `SynthesizedTurnEnds`: a caller who goes quiet is answered; a turn whose
  synthesis is done ends.
* `OneProbePerInterval`: while a breaker is not closed, all calls together send the
  provider at most one attempt per interval, however late older results arrive.
* `ProbeLostOnlyToCancel`: a half-open breaker has its probe in flight, or that probe was cancelled.
* `ResultsFit`, `GivesUpLast`, `Returns`, `AttemptsReaped`: two slots are enough for the results, giving up means both
  attempts are over, every completion returns and its loser ends.
* `RingHoldsNewest`, `OnlyLongOutagesEvict`, `SendReturns`: the ring's
  contents are a gapless suffix of the call; a
  frame is evicted only by an outage longer than the ring; at most two dials per Send.
* `IsFrameLine`: step by step the ring is a lossy line: a frame is handed over only if newer than
  all before it, and passes over another only when that one is `Capacity` frames old. In the run it
  stands for `InOrderOnce` (reconnection repeats and reorders nothing), which section 6 also proves.
* `OncePerRun`, `ReportsNotInflated`, `ClientConfirmed`: one process sends no SMS twice, counts no call twice and confirms
  every message left, although `forget` reopens the door to a redelivered `call.ended`; a call of
  which an event was still to be delivered at its `call.ended` is excepted (see below).
* `AckedUnlessFailed`, `OwnerNotified`: through lost acks and a restart, only an event
  whose own handler failed can leave the stream unhandled.
* `DrainedMeansQuiet`, `DrainEnds`: the drain answers *drained* only when answered calls are over
  (except one whose Answer timed out though the carrier took it), and ends at its deadline,
  unless a second `call.initiated` displaced a running session or a handler outlived the
  HTTP server's own deadline.
* `HangupEndsSession`: a hangup ends the session the registry has for it, at whatever step.
* `RingingOnlyLate`: a call is left ringing only if the carrier refused the transfer too
  or the shared context was done.
* `StoreIsMem`: what handlers see of the transactional store, whose transactions interleave, fail
  half-way and may commit unheard, is the atomic store: each method happens at once or not at all.
* `Isolation`: a response holds only rows of the tenant whose key asked for it.
* `AckedStays`: rows a client was told are stored stay, and a key it was handed opens its tenant,
  through faults and restarts.
* `FrameSeqIsOffset`: a frame's number is its packet's distance from the session's first packet.
* `FlushCuts`: nothing from before a flush leaves after it but the packet the pacer had taken;
  packets leave in the order written.
* `OneSessionPerLeg`: packets that arrive after a session's close open another one only when the
  first has closed its channels.
* `JitterWaits`: a missing frame is conceded only once more than a window of later ones has come.
* `Stoppable`: whatever this process plays is tracked, being started, or being stopped, unless
  Asterisk refused a command or the id repeats one of the process before.
* `DrainIsHonest`: a drain that reports success saw each call end that was active when it began.
* `NobodyInSilence`: after a recovery that could list the channels, each one that was alive is resumed,
  with a human, or gone, unless Asterisk refused that; and at any time only a call with a state to resume
  is resumed, never a finished one, and only a finished call is hung up.
* `FoldAgrees`: once a turn's events are out, their fold has the agent's node, slots, turns and,
  where no turn failed, locale (but for the number 1 the gateway's `call.started` takes as well).
* `StreamHasNoGaps`: what a session published is numbered from 1 without a gap.
* `ToldIsTrue`: what went out to the caller as booked is booked, in that slot but for retried attempts;
  between turns every booking was told, but for those of failed turns and those whose "booked" the
  guardrail replaced or the publisher or socket lost; a message the stream says was passed on is kept.

### Findings

Two runs end in a counterexample of a statement of the repository.

* `notifier_nak`: the duplicate check records an event before its handler accepts it; after a
  handler error the redelivery is acknowledged as a duplicate and the notification is lost
  (`natsbus.go:54`: errors leave the message unacknowledged).
* `media_crash`: the read loop sends on a session's frame channel after it released the lock, and
  announces sessions on the accept channel without looking at the closed flag; a close in between
  makes either send panic (`externalmedia.go:83`: never crash the media path).

Other disagreements met while modelling. The model has each of these behaviours, and the checked
properties are stated so as to except them, or say what the code does:

* `completeAgentTurn` adds to the position the playout offset that `Spoken` subtracts, so a turn that
  closes by itself is recorded to its last word, which by that offset is still on the way. The comment
  above it says that Spoken may still truncate the very tail and the history records only what was
  heard (`machine.go:439-441`, `:445`); `CompletedTurnIsWhole` says what the code does.
* `HandleEvent` closes a call with what is buffered when `call.ended` arrives, on a bus whose delivery
  is unordered (`bus.go:18-20`, `ADR-003`, `contracts/events/README.md:43`). If the message of the call
  comes later, the confirmation the caller is due (`notifier.go:218-219`) is skipped (`:221-226`) and the
  message stays in a buffer that nothing closes any more. The model delivers in any order;
  `ClientConfirmed` excepts these calls (`overtaken`).
* The media clock runs whether or not the line plays, so history may hold words that were flushed
  unheard (`playout.go:5`; excepted in `HeardWhenFed`).
* A half-open probe that ends in `context.Canceled` reports nothing, and the breaker refuses
  everybody from then on (`hedge.go:119` against `breaker.go:18`; `ProbeLostOnlyToCancel`).
* Frames a dead recognizer connection accepted and had not processed are not replayed
  (`sttring.go:138` against `:38`).
* The weekly reset deletes calls counted after the counters were read (`weekly.go:85` against
  `notifier.go:68`).
* The failover transfer shares the context Answer has just used up (`gateway.go:97` against `:94`;
  `RingingOnlyLate`).
* The gateway's `call.started` and the runtime's first event both have number 1, so the fold keeps
  only one of them (`FoldAgrees`).
* A turn of the agent that raises has emitted its events and lost its state: the stream's locale
  and slots may run ahead of the agent's (`events.py:3`; `FoldAgrees`).
* A booking whose turn fails later is asked for again under the same key. The calendar answers with the
  slot it has already booked, `graph.py:458` does not look at it, and the caller is told the slot chosen
  the second time (`ToldIsTrue`).
* A booking is made before its reply is: when the outbound guardrail replaces the reply by *clarify*
  (`graph.py:549-556`), or publishing or sending it fails (`bridge.py:136-138`), the slot is taken and the
  caller is never told, since no later turn repeats it (`ToldIsTrue`).
* Nothing bounds a reply: `Hedge.Complete` sets no deadline and none wraps `Agent.Reply` or `TTS.Speak`, so
  a provider that hangs leaves the caller with the filler and then silence until he speaks or hangs up
  (`machine.go:335`, `machine_test.go:220-231`; `SynthesizedTurnEnds`).
* A recovery that cannot list the live channels returns and recovers nobody, once and for all
  (`rehydrate.go:132-135` against `:162`: the call must never sit in silence; `NobodyInSilence`).
* All messages of a call have one key, so the second is dropped though the caller is told it was
  passed on (`graph.py:485`; `ToldIsTrue`).
* A turn after the wrap-up finds no edge for the node `done` and raises, unless it is an emergency.
* `deliver` drops a packet that comes late, and leaves the repair to a jitter buffer downstream that
  therefore never sees it (`externalmedia.go:273`). No caller of the jitter buffer is in the
  repository; `JitterWaits` checks it on what reaches the socket.
* Playback ids are counted per process: after a restart an id may repeat one still playing, and the
  playback is refused, or the older one's end removes the newer one from the list (`callcontrol.go:76`;
  `Stoppable`).
* Once onboarding has created a tenant and the subscription fails, the tenant stays, without
  anybody holding its key (`handlers.go:98`).
* A restart between an SMS and its acknowledgement sends the SMS again, since `cmd/notifier` keeps the
  dedup keys in memory; a duck begun in the last frames of an utterance stays on until the next one;
  `srv.Shutdown` closes the listeners before the drain, so no `call.hangup` reaches a draining gateway
  and a held call ends only at the deadline.

## 4. Fairness

* `TurnMachine`: quiet frames keep coming and frames come while the agent speaks (RTP
  arrives every 20 ms while the call is up). Nothing obliges the caller, the recognizer,
  the filler, or the reply pipeline: no deadline in the code makes it yield or close.
  `DraftAnswered` therefore assumes that the caller eventually keeps quiet, and
  `SynthesizedTurnEnds` starts where the synthesis is done.
* `Hedge`: goroutines that can step do, and provider calls end (an assumption on providers:
  `Complete` itself sets no deadline). Nothing makes the hedge timer fire, a breaker's interval
  elapse or a parent cancel.
* `STTRing`: the step of `Send` in progress is taken, with any outcome. Close, Process
  and the next Send are free.
* `Notifier`: a running callback goes on (weak); the server offers each new and each
  unacknowledged message again and again, in no order, which running callbacks keep
  switching off (strong: JetStream redelivers until acknowledged).
* `Gateway`: handlers and session goroutines go on, timers fire once a shutdown has begun.
  The carrier, the caller and the operator owe nothing.
* `CoreAPI`, `ExternalMedia`, `Asterisk` and `Agent` state safety only and assume no fairness.

## 5. Variants

Each checked property has a variant of a mapped definition (commented *Variant* where it
is defined, before the definition itself) that makes the kind of slip the code could have made, for instance a
rethink without `cancelTurn`, a results channel with one slot, an ack before the
handler, a drain that looks at the registry instead of the WaitGroup, a table without its
isolation policy, a session dropped from the map before its channels are closed, a
booking key that does not count attempts. Under its run's own
configuration the property fails.

## 6. Theorems

Each theorem holds for every value of the constants that satisfies the assumptions of its
modules: any number of tenants, requests, calls, sessions, channels, completions, providers
and frames, any dictionary and any set of chunks.

| Module | Theorems | Assumptions |
|---|---|---|
| `TurnMachineProofs` | `TypeOK`, `PipelineOwned`, `CallerWordsKept`, `HeardWhenFed`; `CompletedTurnIsWhole` for providers that keep `WordsInChunks` | `EndpointAssumption`, `MeterAssumption`, `TurnAssumption` |
| `DegradeProofs` | `OneProbePerInterval`, `ResultsFit`, `GivesUpLast`, `ProbeLostOnlyToCancel` (an action property) of `Hedge` | `BreakerAssumption` |
| | `RingHoldsNewest`, `InOrderOnce`, `OnlyLongOutagesEvict` of `STTRing`, and the refinement `IsFrameLine` | `RingAssumption` |
| `NotifierProofs` | `OncePerRun`, `ReportsNotInflated`, `AckedUnlessFailed`, `ClientConfirmed` | `NotifierAssumption` |
| `GatewayProofs` | `TypeOK`, `DrainedMeansQuiet`, `RingingOnlyLate` | `GatewayAssumption` |
| `ExternalMediaProofs` | `FrameSeqIsOffset`, `FlushCuts`, `OneSessionPerLeg`, `JitterWaits` | `ExternalMediaAssumption`, `JitterAssumption` |
| `AsteriskProofs` | `DrainIsHonest`, `NobodyInSilence`, `Stoppable` | `AsteriskAssumption` |
| `AgentProofs` | `StreamHasNoGaps`, `ToldIsTrue` | `AgentAssumption` |
| `CoreAPIProofs` | `Isolation`, `AckedStays`, and the refinement `StoreIsMem` | `CoreAPIAssumption`, `DomainAssumption` |

A property `P` of the table is `THEOREM PTheorem == Spec => []P`; the temporal ones,
`ProbeLostOnlyToCancel`, `StoreIsMem` and `IsFrameLine`, are `Spec => P`; `STTRing`'s specification is `RingSpec`.
`DegradeProofs` extends both halves of the package `degrade`, whose names therefore differ. The assumptions only say that
bounds are numbers, flags Boolean and a queue's capacity positive; that a route is one of
`Server.Router`'s; and that sessions are (call, post) pairs over a finite set of calls.

The one theorem with a hypothesis is `CompletedTurnIsWholeTheorem`: `WordsInChunks` says that a
chunk gives each word an end inside its own audio. `turn.TTS` asks this of a provider
(`turn.go:79-81`) and `AddChunk` does not check it; a word said to end later than the audio
would be missing from the history of a turn that nobody interrupted. The chunks of the run
`turn` satisfy it.

### The arguments

Proofs first show that every step of `Next` has one of a few *shapes* as seen from the
variables of an invariant (kept, cancelled, started; pushed, handed over), then that each
shape preserves it. So the deep handlers are opened once, not once per invariant.

**Turn machine.** `PipelineOwned` is inductive as it stands: each way of leaving a turn goes
through `cancelTurn`, each way of entering starts a pipeline.
* `CallerWordsKept` needs the fact that `finals` and `lastPart` are empty while the agent
  thinks or speaks: `WordsInv`, with the typing of the texts for the algebra of concatenation.
* `TypeOK` needs that no more is heard than was queued, since `EndUtterance` keeps
  `queued - heard` frames: `TypeInv`, by its part `GoodLine`.
* `CompletedTurnIsWhole` needs every word to end within what was written, and a reply that has
  produced nothing to have an empty tracker: `WholeInv`. Then `Spoken(written)` is every word.
* `HeardWhenFed` needs the line to be no later than the machine's clock: `FedInv` says that in
  an utterance that never starved, the ticks elapsed are at most the frames heard, or everything
  written was heard and synthesis is over.

**STT ring.** `RingInv`: the buffer is the last `Len(buf)` frames given to `Send`; what
connections accepted is older than that and increasing; every older frame was accepted or is
at least `Capacity` behind. The three properties are read off it. For `IsFrameLine` (`Line ==
INSTANCE FrameLine WITH spoken <- sent, delivered <- accepted`) the frame at the head of the buffer
is newer than the last accepted one, and the frame before it was accepted last or evicted.
A frame is *delivered* here when `conn.Send` took it, not when the provider processed it (section 3).

**Hedge.** `HedgeInv` counts. A breaker's failures and state fit the probes granted in the interval
(`ProbesCounted`), and for each completion what is in the channel, still owed by its goroutines
and already received is exactly what was launched, at most two (`RaceInv`). `ProbeLostOnlyToCancel`
is proved for each way a half-open breaker's last prober can end.

**Notifier.** `TypeInv` has the callback's position. `SentInv`: an SMS is out in this run exactly when
its dedup key is marked or the callback stands before the mark. `ReportInv`: what a report has read is
still in the counters. `AckInv`: a recorded event was handled, failed or is in hand.
`ClientConfirmed` is the long one: it ties the stream (nothing of a call is still to come once its
`call.ended` was delivered and overtook nothing, `StreamInv`) to the buffers (what was delivered of an
open call is pending, `BufferInv`) to the texts (`ConfirmInv`).

**Gateway.** `DrainedMeansQuiet` needs to know what keeps an answered call from being forgotten:
a session that holds it, an Answer that timed out, or a drain past its deadline (`CallsInv`). The
registry's `TypeOK` needs the phases of the sessions it lists, `RingingOnlyLate` the reason
of each session that gave up (`RingInv`).

**Asterisk.** `DrainIsHonest`: a start still in the event queue belongs to a channel nobody has counted
(`StartsAreNew`), so no ended call comes back among the active ones, and a waiting drain has an
active call (`Waits`). `NobodyInSilence`: a listed channel is to do, at hand or answered
(`SilenceInv`), and a channel at hand or answered is so by what was found stored of its call
(`JudgeInv`: each is judged once, and one to do has no answer yet). `Stoppable`: a playback of this process is tracked, being stopped, or about to be
tracked by its call's goroutine; the hard part is that a finished report never untracks one that still
plays, which needs that ids are given out once per process (`PlayInv`, `FinishedOnce`).

**External media.** `MediaInv` ties what the session structs hold to what happened on the wire.
* Numbers: a started session's `lastSeq` is the wire number of its last packet, and its counter is
  `last - first` (`NumberInv`). That `deliver`'s modular difference is the true one takes both halves
  of `Horizon`, a lemma on remainders for any modulus (`WrapSafe`), and that what was seen of the leg is
  never far ahead of the session (`LagInv`).
* Queues: a session's outbound queue is the last `Len(out)` packets written (`QueueInv`), above
  what was flushed and popped; `FlushCuts` is read off it.
* Sessions: while the server is open, a session that is not closed is the one mapped for its leg
  (`SessionsInv`), which makes `OneSessionPerLeg` inductive.
* Jitter: the buffer holds exactly what was seen beyond `next`, and whoever is missing before `next` was
  overtaken by more than a window (`Released`). `Push` concedes up to the end of the run at the smallest
  number held; both exist because `<` on the numbers is well-founded (`MinIsLeast`).

**Agent.** `StreamInv`: event `i` has number `i`, and the session's part of the stream is its first
`n` events for some `n` no smaller than what counts as flushed, so a flush that begins again
overlaps and leaves no gap. `AttemptsInv`: within a turn, the copy is at most one attempt ahead of the
state, and attempts never outnumber turns, so an attempt booked now has not been told before.
`BookedInv` follows a booking from the calendar to the caller: until it is told it is confirmed by the
reply about to go out (`Draft`, while `Sending`), and what ends that without telling puts it among those of
failed turns or those not heard of. `MessageInv` says that only the tool's success emits
`tool.completed` at the node `message`, which the dialogue's own tool calls must be shown not to do.

**Core API.** `StoreInv` says of each open transaction what its handler asked (`InUse`), under
whose setting it runs (`RunsAs`), what it has staged (`StagedInv`), what it will answer
(`AnswerInv`), and how that fits the committed rows (`HoldsInv`); `LockInv` that two transactions
never stage one key; `AckedInv` that what was acknowledged is stored. It has a lemma per route and per
store method, for its arrival, its statement and its commit. `Isolation` and `AckedStays` follow from it and the reply of the
last step (`ReplyInv`). `StoreIsMem` is then proved step by step: opening a transaction invokes
the method, the statement of a read or the commit of a write is the method's step of `MemStore`,
a rollback its failure, and everything else a stutter. `LockInv` and `HoldsInv` carry the one hard
case: an insert found its key free when it ran, and `MemStore` asks again at the commit.

### Only model-checked

* Liveness (`DraftAnswered`, `SynthesizedTurnEnds`, `Returns`, `AttemptsReaped`, `SendReturns`, `OwnerNotified`,
  `HangupEndsSession`, `DrainEnds`): fairness and `ENABLED` are outside the prover's reach.
* `FoldAgrees` (`Agent`): `Fold` recurs over the stream, and what a recursion computes for every
  input needs induction over data. It is the one safety property of a run without a theorem.

## 7. Not modelled

* Templates, summaries' wording, logging, metrics and spans; malformed payloads; several
  tenants in the notifier (tenants share no state there but the maps, keyed by call or
  tenant); the write-only `probing` flag of the breaker; configuration and health endpoints.
* The degradation ladder (`degrade/level.go`): four one-line transitions under a mutex.
* Of the event package: redaction (`redact.go`, regular expressions over text), the transcript, usage
  and budget of a snapshot, the in-memory bus; of the domain: business hours, coverage areas and
  the onboarding checklist, pure functions of one argument that unit tests cover.
* Of the agent runtime: the dictionaries behind `language.detect` and the guardrails (an utterance is what
  they find in it), the LLM providers, prompts and telemetry, and a second `call.start` of a
  running call, which would replace its session, number its events from 1 again and repeat its
  keys. Its sender is not in the repository.
* Of the core API: JSON and HTTP framing, and the start of the process. The caller of `PutCall` is
  not in the repository; `Project` stands for it.
* Of the media server: audio, transcoding, addresses and RTP timestamps; a session's reader of
  frames (its channel drops what does not fit).
* Carrier adapters, the ARI client, the audio bank and the dashboards keep no state of their own.

## 8. Plan

1. Done: `TurnMachine` with its proofs; `Breaker` and `Hedge`; `STTRing`; `Notifier`; `Gateway`; `Jitter`
   and `ExternalMedia`; `Asterisk`; `Fold` and `Agent`; `Domain`, `MemStore`, `PGStore` and `CoreAPI` with the
   refinement.
2. Done: the theorems of section 6, every safety property of the runs but `FoldAgrees`, and the
   refinements of the stores and of the STT ring.
3. Left: an abstract at-least-once consumer that `Notifier`'s subscriber implements while handlers
   succeed.
