----------------------------- MODULE TurnMachine ----------------------------
(***************************************************************************)
(* The turn state machine of one call (go/internal/turn/machine.go and     *)
(* playout.go): one goroutine selecting over inbound frames, STT results,  *)
(* TTS chunks and the filler timer.  Every action below is one iteration   *)
(* of that select loop, with everything the handler does.                  *)
(*                                                                         *)
(* Time is the media clock, one tick per 20 ms frame.  The code keeps      *)
(* absolute stamps and only ever subtracts them from the clock, so the     *)
(* model keeps the differences: silence is mediaMs - lastSpeechMs, elapsed *)
(* is mediaMs - speakStartMs, duckAge is mediaMs - duckStartMs.  Each is   *)
(* counted up to the largest value it is compared with.                    *)
(*                                                                         *)
(* The line itself (Playback and the carrier behind it) is modelled from   *)
(* how the machine uses it: it plays one frame of queued audio per tick.   *)
(***************************************************************************)
EXTENDS Endpoint, Meter, FiniteSets, Integers

CONSTANTS
  InitLocale,     \* Config.Locale
  NoLocale,       \* a Result with an empty Locale
  Utterances,     \* texts the recognizer may return, a subset of Text
  Chunks,         \* TTS chunks: [dur : frames, ends : word ends in frames]
  MinBargeChars,  \* Config.MinBargeChars
  ConfirmWindow,  \* Config.ConfirmWindowMs in frames
  PlayoutOffset,  \* Config.PlayoutOffsetMs in frames
  LineErrors,     \* whether Playback and clip lookups may fail
  ClipFrames,     \* length of an audio-bank clip
  MaxSilence,     \* bound: silence is counted up to here
  MaxWritten,     \* bound: frames of one utterance
  MaxBacklog,     \* bound: frames of older audio queued on the line
  MaxResults      \* bound: STT results in the call

ASSUME TurnAssumption ==
  /\ InitLocale \in Locale
  /\ NoLocale \notin Locale
  /\ Utterances \subseteq Text
  /\ Chunks \subseteq [dur : Nat \ {0}, ends : Seq(Nat)]
  /\ {MinBargeChars, PlayoutOffset, ClipFrames} \subseteq Nat
  /\ ConfirmWindow \in Nat \ {0}
  /\ LineErrors \in BOOLEAN
  /\ {MaxSilence, MaxWritten, MaxBacklog, MaxResults} \subseteq Nat \ {0}
  /\ \A d \in {Delays.hesitation, Delays.number, Delays.incomplete,
               Delays.question, Delays.default} : d <= MaxSilence

VARIABLES
  state,        \* atomic state of the machine
  running,      \* Run has not returned
  meter,        \* energy detector
  silence,      \* frames since the last speech
  activeLocale,
  carryText,    \* text of a turn whose thinking was cancelled
  finals,       \* finalized segments of the draft, joined
  lastPart,     \* latest partial
  turnCancel,   \* turnCancel # nil
  sttCh,        \* sttCh # nil
  ttsCh,        \* ttsCh # nil
  fillerC,      \* fillerC # nil
  tracker,      \* PlayoutTracker of the current utterance
  ttsDone,
  elapsed,      \* frames since the first chunk of the utterance
  ducked,
  duckAge,      \* frames since duck(true)
  line,         \* the outbound line, external
  live,         \* turn contexts that were created and not cancelled
  results,      \* STT results delivered so far
  owed,         \* history: caller words the next user turn must repeat
  out           \* the user-turn, agent-turn or filler hook of the last step

draftVars == <<carryText, finals, lastPart, owed>>
pipeVars  == <<turnCancel, ttsCh, ttsDone, fillerC, live>>
duckVars  == <<ducked, duckAge>>
clockVars == <<meter, silence, elapsed>>
vars == <<state, running, clockVars, activeLocale, draftVars, pipeVars, sttCh,
          tracker, duckVars, line, results, out>>

States == {"stListening", "stEndpointing", "stThinking", "stSpeaking"}
InTurn == state \in {"stThinking", "stSpeaking"}

NoHook        == [kind |-> "none"]
UserTurn(t)   == [kind |-> "userTurn", text |-> t]
Filler        == [kind |-> "filler"]
\* words: how many words the history records; audible: how many words of the
\* utterance the line had really played out by then.
AgentTurn(words, audible, cut) ==
  [kind |-> "agentTurn", words |-> words, audible |-> audible, interrupted |-> cut]

UpTo(x, cap) == IF x < cap THEN x ELSE cap
Tick(x, cap) == IF x < cap THEN x + 1 ELSE x
-----------------------------------------------------------------------------
(* The PlayoutTracker.                                                     *)

NewPlayoutTracker == [written |-> 0, ends |-> << >>]

\* Variant: the chunk's duration is counted twice.
AddChunkTwice(t, c) ==
  [written |-> t.written + 2 * c.dur,
   ends    |-> t.ends \o [i \in 1..Len(c.ends) |-> c.ends[i] + t.written]]

AddChunk(t, c) ==
  [written |-> t.written + c.dur,
   ends    |-> t.ends \o [i \in 1..Len(c.ends) |-> c.ends[i] + t.written]]

\* How many leading words end within the first ms frames.
WordsWithin(ends, ms) ==
  Cardinality({i \in 1..Len(ends) : \A j \in 1..i : ends[j] <= ms})

\* Spoken(playedMs): words fully played before playedMs - offset.
Spoken(t, played) ==
  WordsWithin(t.ends, IF played > PlayoutOffset THEN played - PlayoutOffset ELSE 0)

\* Variant: what was written counts as played.
writtenAsPlayed(ms) == tracker.written

playedMs(ms) == UpTo(ms, tracker.written)
-----------------------------------------------------------------------------
(* The line: backlog frames of older audio, then the current utterance, of *)
(* which queued frames were written and heard frames played.  starved      *)
(* records that a tick passed during the utterance without playing it.     *)

Line(backlog, queued, heard, starved) ==
  [backlog |-> backlog, queued |-> queued, heard |-> heard, starved |-> starved]

SilentLine == Line(0, 0, 0, FALSE)

Speaking == state = "stSpeaking"
PlayedOut == ttsDone /\ line.heard = tracker.written

Ticked ==
  IF line.backlog > 0
  THEN Line(line.backlog - 1, line.queued, line.heard, line.starved \/ Speaking)
  ELSE IF line.heard < line.queued
  THEN Line(0, line.queued, line.heard + 1, line.starved)
  ELSE Line(0, line.queued, line.heard, line.starved \/ (Speaking /\ ~PlayedOut))

WriteClip(l)     == Line(UpTo(l.backlog + ClipFrames, MaxBacklog), l.queued, l.heard, l.starved)
WriteChunk(l, d) == Line(l.backlog, l.queued + d, l.heard, l.starved)
Flush(l)         == Line(0, 0, 0, l.starved)
\* The utterance is over for the machine; what it has not played stays queued.
EndUtterance(l)  == Line(UpTo(l.backlog + l.queued - l.heard, MaxBacklog), 0, 0, l.starved)
\* A failed Flush drops nothing; a failed lookup or write plays nothing.
FlushOutcomes(l)    == {Flush(l)} \cup IF LineErrors THEN {EndUtterance(l)} ELSE {}
ClipOutcomes(l)     == {WriteClip(l)} \cup IF LineErrors THEN {l} ELSE {}
ChunkOutcomes(l, d) == {WriteChunk(l, d)} \cup IF LineErrors THEN {l} ELSE {}
-----------------------------------------------------------------------------
(* Draft.                                                                  *)

draft == carryText \o finals \o lastPart

absorb(text, final) ==
  IF final THEN finals' = finals \o text /\ lastPart' = << >>
           ELSE lastPart' = text /\ UNCHANGED finals

resetDraft == carryText' = << >> /\ finals' = << >> /\ lastPart' = << >>
-----------------------------------------------------------------------------
(* Turn lifecycle.                                                         *)

\* cancelTurn, stopFiller included.
cancelTurn ==
  /\ live' = IF turnCancel THEN live - 1 ELSE live
  /\ turnCancel' = FALSE
  /\ ttsCh' = FALSE
  /\ ttsDone' = FALSE
  /\ fillerC' = FALSE

\* Variant: thinking is left without cancelling the reply.
rethinkNoCancel == state' = "stListening" /\ UNCHANGED pipeVars

rethink == cancelTurn /\ state' = "stListening"

\* startAgentTurn when Agent.Reply and TTS.Speak both answered.
pipelineUp ==
  /\ turnCancel' = TRUE
  /\ live' = live + 1
  /\ ttsCh' = TRUE
  /\ ttsDone' = FALSE
  /\ tracker' = NewPlayoutTracker
  /\ fillerC' = TRUE
  /\ state' = "stThinking"
  /\ line' = Ticked

\* startAgentTurn when one of them failed: failTurn cancels the context just
\* created (the previous one, if any, is overwritten) and plays a clip.
failTurn ==
  /\ turnCancel' = FALSE
  /\ UNCHANGED live
  /\ ttsCh' = FALSE
  /\ ttsDone' = FALSE
  /\ fillerC' = FALSE
  /\ state' = "stListening"
  /\ line' \in ClipOutcomes(Ticked)
  /\ UNCHANGED tracker

startAgentTurn == pipelineUp \/ failTurn

\* Variant: the text is handed over without keeping it.
finalizeNoCarry ==
  IF draft = << >>
  THEN /\ state' = "stListening"
       /\ line' = Ticked
       /\ out' = NoHook
       /\ UNCHANGED <<draftVars, pipeVars, tracker>>
  ELSE /\ out' = UserTurn(draft)
       /\ resetDraft
       /\ owed' = draft
       /\ startAgentTurn

finalizeUserTurn ==
  IF draft = << >>
  THEN /\ state' = "stListening"
       /\ line' = Ticked
       /\ out' = NoHook
       /\ UNCHANGED <<draftVars, pipeVars, tracker>>
  ELSE /\ out' = UserTurn(draft)
       /\ carryText' = draft
       /\ finals' = << >>
       /\ lastPart' = << >>
       /\ owed' = draft
       /\ startAgentTurn

\* completeAgentTurn, with the clock at ms and the line at l.  It adds the
\* offset that Spoken takes off again, so nothing is truncated here, whatever
\* the comment of the function says.
completeAgentTurn(ms, l) ==
  /\ out' = AgentTurn(Spoken(tracker, playedMs(ms) + PlayoutOffset),
                      WordsWithin(tracker.ends, l.heard), FALSE)
  /\ cancelTurn
  /\ resetDraft
  /\ owed' = << >>
  /\ state' = "stListening"
  /\ line' = EndUtterance(l)
-----------------------------------------------------------------------------
(* onFrame: the clock and the meter advance in every state, then the       *)
(* switch on the state.                                                    *)

\* Variant: every frame stamps lastSpeechMs.
AdvanceClockStamps(loud) ==
  /\ meter' = Process(meter, loud)
  /\ silence' = 0
  /\ elapsed' = IF state = "stSpeaking" THEN Tick(elapsed, MaxWritten) ELSE elapsed

AdvanceClock(loud) ==
  /\ meter' = Process(meter, loud)
  /\ silence' = IF meter'.speaking THEN 0 ELSE Tick(silence, MaxSilence)
  /\ elapsed' = IF state = "stSpeaking" THEN Tick(elapsed, MaxWritten) ELSE elapsed

agedDuck == IF ducked THEN Tick(duckAge, ConfirmWindow) ELSE duckAge

onset == meter'.speaking /\ ~meter.speaking

ListeningFrame ==
  /\ state = "stListening"
  /\ state' = IF draft # << >> /\ ~meter'.speaking /\ silence' > 0
              THEN "stEndpointing" ELSE state
  /\ line' = Ticked
  /\ out' = NoHook
  /\ duckAge' = agedDuck
  /\ UNCHANGED <<draftVars, pipeVars, ducked, tracker>>

EndpointingFrame ==
  /\ state = "stEndpointing"
  /\ IF ~meter'.speaking /\ silence' >= waitForMs(draft, activeLocale)
     THEN finalizeUserTurn
     ELSE /\ state' = IF meter'.speaking THEN "stListening" ELSE state
          /\ line' = Ticked
          /\ out' = NoHook
          /\ UNCHANGED <<draftVars, pipeVars, tracker>>
  /\ duckAge' = agedDuck
  /\ UNCHANGED ducked

ThinkingFrame ==
  /\ state = "stThinking"
  /\ IF onset THEN rethink ELSE UNCHANGED <<state, pipeVars>>
  /\ line' = Ticked
  /\ out' = NoHook
  /\ duckAge' = agedDuck
  /\ UNCHANGED <<draftVars, ducked, tracker>>

\* Variant: the turn is closed an offset before its end.
finishWithinOffset ==
  IF ttsDone /\ playedMs(elapsed') + PlayoutOffset >= tracker.written
  THEN completeAgentTurn(elapsed', Ticked)
  ELSE /\ line' = Ticked
       /\ out' = NoHook
       /\ UNCHANGED <<state, draftVars, pipeVars>>

\* Variant: strictly more than what was written must have played.
finishWhenPast ==
  IF ttsDone /\ playedMs(elapsed') > tracker.written
  THEN completeAgentTurn(elapsed', Ticked)
  ELSE /\ line' = Ticked
       /\ out' = NoHook
       /\ UNCHANGED <<state, draftVars, pipeVars>>

\* maybeFinishSpeaking, after the frame's tick.
maybeFinishSpeaking ==
  IF ttsDone /\ playedMs(elapsed') >= tracker.written
  THEN completeAgentTurn(elapsed', Ticked)
  ELSE /\ line' = Ticked
       /\ out' = NoHook
       /\ UNCHANGED <<state, draftVars, pipeVars>>

\* Ducking on onset, and its undo once the confirmation window elapsed.
SpeakingFrame ==
  /\ state = "stSpeaking"
  /\ ducked' = IF ducked THEN agedDuck < ConfirmWindow ELSE onset
  /\ duckAge' = IF ducked THEN agedDuck ELSE 0
  /\ maybeFinishSpeaking
  /\ UNCHANGED tracker

onFrame(loud) ==
  /\ running
  /\ AdvanceClock(loud)
  /\ \/ ListeningFrame
     \/ EndpointingFrame
     \/ ThinkingFrame
     \/ SpeakingFrame
  /\ UNCHANGED <<running, activeLocale, sttCh, results>>
-----------------------------------------------------------------------------
(* onSTT.                                                                  *)

\* The words a final adds to what the next user turn must contain.
Owe(text, final, base) == owed' = IF final THEN base \o text ELSE base

\* stListening and stEndpointing: text is speech evidence.
DraftSTT(text, final) ==
  /\ state \in {"stListening", "stEndpointing"}
  /\ absorb(text, final)
  /\ Owe(text, final, owed)
  /\ silence' = 0
  /\ state' = "stListening"
  /\ out' = NoHook
  /\ UNCHANGED <<carryText, pipeVars, duckVars, line>>

\* stThinking: real content invalidates the reply, a backchannel does not.
ThinkingSTT(text, final) ==
  /\ state = "stThinking"
  /\ IF isBackchannel(text, activeLocale')
     THEN UNCHANGED <<state, silence, draftVars, pipeVars>>
     ELSE /\ rethink
          /\ absorb(text, final)
          /\ Owe(text, final, owed)
          /\ silence' = 0
          /\ UNCHANGED carryText
  /\ out' = NoHook
  /\ UNCHANGED <<duckVars, line>>

\* confirmBargeIn: the hard cut.
confirmBargeIn(text, final) ==
  /\ out' = AgentTurn(Spoken(tracker, playedMs(elapsed)), Spoken(tracker, line.heard), TRUE)
  /\ cancelTurn
  /\ line' \in FlushOutcomes(line)
  /\ ducked' = FALSE
  /\ carryText' = << >>
  /\ finals' = IF final THEN text ELSE << >>
  /\ lastPart' = IF final THEN << >> ELSE text
  /\ Owe(text, final, << >>)
  /\ silence' = 0
  /\ state' = "stListening"
  /\ UNCHANGED duckAge

\* onSpeakingSTT: backchannels unduck, short texts are ignored, the rest cut.
onSpeakingSTT(text, final) ==
  /\ state = "stSpeaking"
  /\ IF ~isBackchannel(text, activeLocale') /\ realTextLen(text) >= MinBargeChars
     THEN confirmBargeIn(text, final)
     ELSE /\ ducked' = IF isBackchannel(text, activeLocale') THEN FALSE ELSE ducked
          /\ out' = NoHook
          /\ UNCHANGED <<state, silence, draftVars, pipeVars, duckAge, line>>

onSTT(text, final, loc) ==
  /\ running /\ sttCh
  /\ results < MaxResults
  /\ results' = results + 1
  /\ activeLocale' = IF loc = NoLocale THEN activeLocale ELSE loc
  /\ IF text = << >>
     THEN /\ out' = NoHook
          /\ UNCHANGED <<state, silence, draftVars, pipeVars, duckVars, line>>
     ELSE \/ DraftSTT(text, final)
          \/ ThinkingSTT(text, final)
          \/ onSpeakingSTT(text, final)
  /\ UNCHANGED <<running, meter, elapsed, sttCh, tracker>>

\* The STT stream ended for good: the channel is dropped from the select.
STTClosed ==
  /\ running /\ sttCh
  /\ sttCh' = FALSE
  /\ out' = NoHook
  /\ UNCHANGED <<state, running, clockVars, activeLocale, draftVars, pipeVars,
                 tracker, duckVars, line, results>>
-----------------------------------------------------------------------------
(* onChunk and onFiller.                                                   *)

\* A chunk: the first one turns stThinking into stSpeaking and stops the
\* filler.  The write may fail, the tracker counts the chunk all the same.
onChunk(c) ==
  /\ running /\ ttsCh
  /\ tracker.written + c.dur <= MaxWritten
  /\ LET first == state = "stThinking"
         base  == IF first THEN Line(line.backlog, line.queued, line.heard, FALSE) ELSE line
     IN  /\ state' = IF first THEN "stSpeaking" ELSE state
         /\ fillerC' = IF first THEN FALSE ELSE fillerC
         /\ elapsed' = IF first THEN 0 ELSE elapsed
         /\ line' \in ChunkOutcomes(base, c.dur)
  /\ tracker' = AddChunk(tracker, c)
  /\ out' = NoHook
  /\ UNCHANGED <<running, meter, silence, activeLocale, draftVars, turnCancel,
                 ttsCh, ttsDone, live, sttCh, duckVars, results>>

\* The chunk channel closed: synthesis is done; an empty utterance ends here.
onChunkClosed ==
  /\ running /\ ttsCh
  /\ IF state = "stThinking"
     THEN completeAgentTurn(elapsed, line)
     ELSE /\ ttsCh' = FALSE
          /\ ttsDone' = TRUE
          /\ out' = NoHook
          /\ UNCHANGED <<state, draftVars, turnCancel, fillerC, live, line>>
  /\ UNCHANGED <<running, clockVars, activeLocale, sttCh, tracker, duckVars, results>>

onFiller ==
  /\ running /\ fillerC
  /\ fillerC' = FALSE
  /\ IF state = "stThinking"
     THEN \/ line' \in ClipOutcomes(line) /\ out' = Filler
          \/ LineErrors /\ UNCHANGED line /\ out' = NoHook  \* lookup failed
     ELSE UNCHANGED line /\ out' = NoHook
  /\ UNCHANGED <<state, running, clockVars, activeLocale, draftVars, turnCancel,
                 ttsCh, ttsDone, live, sttCh, tracker, duckVars, results>>

\* Run returns: hangup (ctx done) or the media stream closed.
RunReturns ==
  /\ running
  /\ running' = FALSE
  /\ cancelTurn
  /\ out' = NoHook
  /\ UNCHANGED <<state, clockVars, activeLocale, draftVars, sttCh, tracker,
                 duckVars, line, results>>
-----------------------------------------------------------------------------
Init ==
  /\ state = "stListening"
  /\ running = TRUE
  /\ meter = NewMeter
  /\ silence = 0
  /\ elapsed = 0
  /\ activeLocale = InitLocale
  /\ carryText = << >> /\ finals = << >> /\ lastPart = << >>
  /\ owed = << >>
  /\ turnCancel = FALSE /\ ttsCh = FALSE /\ ttsDone = FALSE /\ fillerC = FALSE
  /\ live = 0
  /\ sttCh = TRUE
  /\ tracker = NewPlayoutTracker
  /\ ducked = FALSE /\ duckAge = 0
  /\ line = SilentLine
  /\ results = 0
  /\ out = NoHook

Frames    == \E loud \in BOOLEAN : onFrame(loud)
STT       == \E text \in Utterances, final \in BOOLEAN, loc \in Locale \cup {NoLocale} :
               onSTT(text, final, loc)
TTSChunk  == \E c \in Chunks : onChunk(c)

Next == Frames \/ STT \/ STTClosed \/ TTSChunk \/ onChunkClosed \/ onFiller \/ RunReturns

Spec == Init /\ [][Next]_vars

\* Frames arrive every 20 ms for as long as the call is up: while the agent
\* speaks each of them is progress, and the caller pauses some time (a quiet
\* frame that changes nothing is no obligation, so a silent call may stay as
\* it is).  Nothing obliges the reply pipeline to yield or to end: no deadline
\* bounds Agent.Reply, TTS.Speak or the channels they return.
FairSpec ==
  /\ Spec
  /\ WF_vars(onFrame(FALSE))
  /\ WF_vars(Frames /\ state = "stSpeaking")
-----------------------------------------------------------------------------
(* Properties.                                                             *)

\* Every variable keeps the shape its field has in the code.
TypeOK ==
  /\ state \in States
  /\ running \in BOOLEAN
  /\ meter \in MeterState
  /\ silence \in 0..MaxSilence
  /\ elapsed \in 0..MaxWritten
  /\ activeLocale \in Locale
  /\ carryText \in Text /\ finals \in Text /\ lastPart \in Text /\ owed \in Text
  /\ turnCancel \in BOOLEAN /\ ttsCh \in BOOLEAN /\ ttsDone \in BOOLEAN
  /\ fillerC \in BOOLEAN /\ sttCh \in BOOLEAN
  /\ live \in Int
  /\ tracker \in [written : 0..MaxWritten, ends : Seq(Nat)]
  /\ ducked \in BOOLEAN /\ duckAge \in 0..ConfirmWindow
  /\ line \in [backlog : 0..MaxBacklog, queued : Nat, heard : Nat, starved : BOOLEAN]
  /\ results \in 0..MaxResults
  /\ out \in {NoHook, Filler} \cup [kind : {"userTurn"}, text : Text]
              \cup [kind : {"agentTurn"}, words : Nat, audible : Nat, interrupted : BOOLEAN]

\* Cascading cancellation leaks nothing: at any time the only turn context
\* not cancelled is the one turnCancel holds, it exists exactly while the
\* agent is thinking or speaking in a running call, and neither its chunks
\* nor its filler timer outlive it (Run's deferred cancelTurn, rethink,
\* failTurn, confirmBargeIn, completeAgentTurn).
PipelineOwned ==
  /\ live = IF turnCancel THEN 1 ELSE 0
  /\ turnCancel <=> running /\ InTurn
  /\ ttsCh \/ ttsDone => turnCancel
  /\ fillerC => running /\ state = "stThinking"

\* Nothing the caller said is dropped between two agent turns, whatever
\* sequence of rethinks, failed turns and late results lies between: the
\* draft still starts with every final absorbed and every text already
\* reported, and a reply under way was asked with exactly that.
CallerWordsKept ==
  /\ carryText \o finals = owed
  /\ running /\ InTurn => draft = owed

\* A turn that closes by itself is recorded whole: it closes neither early nor
\* with a word left out, whatever the playout offset, since completeAgentTurn
\* adds to the position the offset that Spoken subtracts.  The comment above it
\* disagrees: "Spoken() may still truncate the very tail (playout offset)"
\* (machine.go:439-441, 445).
CompletedTurnIsWhole ==
  out.kind = "agentTurn" /\ ~out.interrupted => out.words = Len(tracker.ends)

\* PlayoutTracker's promise where it can be kept: if every tick of the
\* utterance played one of its frames, history holds no word the line had
\* not played when the turn closed.
HeardWhenFed ==
  out.kind = "agentTurn" /\ ~line.starved => out.words <= out.audible

\* A caller who has spoken and then keeps quiet is answered: the draft is
\* handed to the agent (or the call ends).
DraftAnswered ==
  <>[](~meter.speaking) =>
    ((~InTurn /\ draft # << >>) ~> (out.kind = "userTurn" \/ ~running))

\* Once a reply is synthesized its turn ends: the frame clock reaches what was
\* written and maybeFinishSpeaking closes it.  A reply that never yields keeps
\* the turn open until the caller speaks or hangs up.
SynthesizedTurnEnds == (InTurn /\ ttsDone) ~> (~InTurn \/ ~running)
=============================================================================
