-------------------------- MODULE TurnMachineProofs -------------------------
(***************************************************************************)
(* Theorems about TurnMachine, for every dictionary, delay, utterance and  *)
(* chunk set and every bound: the type invariant, the ownership of the     *)
(* reply pipeline and the keeping of the caller's words.                   *)
(*                                                                         *)
(* Each proof first shows that every step has one of a few shapes, seen    *)
(* from the variables the invariant is about, and then that those shapes   *)
(* keep it.                                                                *)
(***************************************************************************)
EXTENDS TurnMachine, SequenceTheorems, FiniteSetTheorems, TLAPS
-----------------------------------------------------------------------------
(* The line.                                                               *)

\* The outbound line: it never has played more of an utterance than it was
\* given, so what stays queued when an utterance ends is a number of frames.
Lines == [backlog : 0..MaxBacklog, queued : Nat, heard : Nat, starved : BOOLEAN]
GoodLine(l) == l \in Lines /\ l.heard <= l.queued

\* What the assumption on the constants says of the line's bounds.
LEMMA BoundsTyped ==
  /\ ClipFrames \in Nat /\ MaxBacklog \in Nat /\ PlayoutOffset \in Nat /\ 0 \in 0..MaxBacklog
BY TurnAssumption

\* Capping a count keeps it within the cap.
LEMMA UpToBound == \A x, m \in Nat : UpTo(x, m) \in 0..m
BY DEF UpTo

\* The fields of a line.
LEMMA GoodLineFields ==
  ASSUME NEW l, GoodLine(l)
  PROVE  l.backlog \in 0..MaxBacklog /\ l.queued \in Nat /\ l.heard \in Nat
         /\ l.starved \in BOOLEAN /\ l.heard <= l.queued
BY DEF GoodLine, Lines

\* A line is made of fields of these types.
LEMMA LineMade ==
  ASSUME NEW b \in 0..MaxBacklog, NEW q \in Nat, NEW h \in Nat, NEW s \in BOOLEAN, h <= q
  PROVE  GoodLine(Line(b, q, h, s))
BY DEF GoodLine, Lines, Line

\* Each thing the machine does to the line, Flush, Write and letting an
\* utterance end, leaves a line (Playback as machine.go uses it).
LEMMA LineSteps ==
  ASSUME NEW l, GoodLine(l), NEW d \in Nat
  PROVE  /\ GoodLine(Flush(l)) /\ GoodLine(EndUtterance(l))
         /\ GoodLine(WriteClip(l)) /\ GoodLine(WriteChunk(l, d))
<1>1. UpTo(l.backlog + ClipFrames, MaxBacklog) \in 0..MaxBacklog
  <2>1. l.backlog + ClipFrames \in Nat
    BY GoodLineFields, BoundsTyped
  <2>2. QED
    BY <2>1, BoundsTyped, UpToBound
<1>2. UpTo(l.backlog + l.queued - l.heard, MaxBacklog) \in 0..MaxBacklog
  <2>1. l.backlog + l.queued - l.heard \in Nat
    BY GoodLineFields, BoundsTyped
  <2>2. QED
    BY <2>1, BoundsTyped, UpToBound
<1>3. l.queued + d \in Nat /\ l.heard <= l.queued + d
  BY GoodLineFields
<1>4. GoodLine(Flush(l))
  BY GoodLineFields, LineMade, BoundsTyped DEF Flush
<1>5. GoodLine(EndUtterance(l))
  BY <1>2, GoodLineFields, LineMade DEF EndUtterance
<1>6. GoodLine(WriteClip(l))
  BY <1>1, GoodLineFields, LineMade DEF WriteClip
<1>7. GoodLine(WriteChunk(l, d))
  BY <1>3, GoodLineFields, LineMade DEF WriteChunk
<1>8. QED
  BY <1>4, <1>5, <1>6, <1>7

\* So does one tick of the line (20 ms of playout).
LEMMA TickStep ==
  ASSUME GoodLine(line)
  PROVE  GoodLine(Ticked)
<1> DEFINE s1 == line.starved \/ Speaking
           s2 == line.starved \/ (Speaking /\ ~PlayedOut)
<1>1. s1 \in BOOLEAN /\ s2 \in BOOLEAN
  OBVIOUS
<1>2. Ticked = IF line.backlog > 0 THEN Line(line.backlog - 1, line.queued, line.heard, s1)
               ELSE IF line.heard < line.queued
               THEN Line(0, line.queued, line.heard + 1, line.starved)
               ELSE Line(0, line.queued, line.heard, s2)
  BY Zenon DEF Ticked
<1> HIDE DEF s1, s2
<1>3. CASE line.backlog > 0
  <2>1. line.backlog - 1 \in 0..MaxBacklog
    BY <1>3, GoodLineFields, BoundsTyped
  <2>2. line.queued \in Nat /\ line.heard \in Nat /\ line.heard <= line.queued
    BY GoodLineFields
  <2>3. GoodLine(Line(line.backlog - 1, line.queued, line.heard, s1))
    BY <2>1, <2>2, <1>1, LineMade
  <2>4. QED
    BY <2>3, <1>2, <1>3
<1>4. CASE ~(line.backlog > 0) /\ line.heard < line.queued
  <2>1. line.heard + 1 \in Nat /\ line.heard + 1 <= line.queued
    BY <1>4, GoodLineFields
  <2>2. QED
    BY <2>1, <1>2, <1>4, LineMade, GoodLineFields, BoundsTyped
<1>5. CASE ~(line.backlog > 0) /\ ~(line.heard < line.queued)
  BY <1>1, <1>2, <1>5, LineMade, GoodLineFields, BoundsTyped
<1>6. QED
  BY <1>3, <1>4, <1>5

-----------------------------------------------------------------------------
(* Cascading cancellation.                                                 *)

\* The reply pipeline.
PipeTyped ==
  /\ turnCancel \in BOOLEAN /\ ttsCh \in BOOLEAN
  /\ ttsDone \in BOOLEAN /\ fillerC \in BOOLEAN /\ live \in Int

\* The shapes a step can have, seen from the pipeline: it keeps the pipeline
\* and, unless it stays in its state, moves between listening and endpointing;
\* it cancels the turn; it starts one when endpointing; it feeds the turn.
Keeps == /\ UNCHANGED <<pipeVars, running>>
         /\ \/ state' = state
            \/ ~InTurn /\ state' \in {"stListening", "stEndpointing"}

Cancels == /\ cancelTurn
           /\ \/ state' = "stListening" /\ running' = running
              \/ state' = state /\ running' = FALSE

Starts == startAgentTurn /\ state = "stEndpointing" /\ running /\ running' = running

Feeds == /\ ttsCh /\ UNCHANGED <<turnCancel, live, running>>
         /\ \/ state = "stThinking" /\ state' = "stSpeaking" /\ fillerC' = FALSE
            \/ state # "stThinking" /\ state' = state /\ fillerC' = fillerC
         /\ \/ UNCHANGED <<ttsCh, ttsDone>>
            \/ state # "stThinking" /\ ttsCh' = FALSE /\ ttsDone' = TRUE

FillerStops == UNCHANGED <<state, running, turnCancel, ttsCh, ttsDone, live>> /\ fillerC' = FALSE

PipeStep == Keeps \/ Cancels \/ Starts \/ Feeds \/ FillerStops

\* onFrame takes one of these shapes.
LEMMA FramePipe ==
  ASSUME NEW loud, onFrame(loud)
  PROVE  PipeStep
<1>0. running /\ running' = running
  BY DEF onFrame
<1>1. CASE ListeningFrame
  BY <1>0, <1>1, Zenon DEF ListeningFrame, PipeStep, Keeps, InTurn
<1>2. CASE EndpointingFrame
  <2>1. CASE finalizeUserTurn
    BY <1>0, <1>2, <2>1, Zenon DEF EndpointingFrame, finalizeUserTurn, PipeStep, Keeps, Starts, InTurn
  <2>2. CASE ~finalizeUserTurn
    BY <1>0, <1>2, <2>2, Zenon DEF EndpointingFrame, PipeStep, Keeps, InTurn
  <2>3. QED
    BY <2>1, <2>2
<1>3. CASE ThinkingFrame
  BY <1>0, <1>3, Zenon DEF ThinkingFrame, rethink, PipeStep, Keeps, Cancels, pipeVars
<1>4. CASE SpeakingFrame
  BY <1>0, <1>4, Zenon DEF SpeakingFrame, maybeFinishSpeaking, completeAgentTurn,
                            PipeStep, Keeps, Cancels, pipeVars
<1>5. QED
  BY <1>1, <1>2, <1>3, <1>4 DEF onFrame

\* onSTT takes one of these shapes.
LEMMA STTPipe ==
  ASSUME NEW text, NEW final, NEW loc, onSTT(text, final, loc)
  PROVE  PipeStep
<1>0. running' = running
  BY DEF onSTT
<1>1. CASE UNCHANGED <<state, pipeVars>>
  BY <1>0, <1>1, Zenon DEF PipeStep, Keeps
<1>2. CASE DraftSTT(text, final)
  BY <1>0, <1>2, Zenon DEF DraftSTT, PipeStep, Keeps, InTurn
<1>3. CASE ThinkingSTT(text, final)
  BY <1>0, <1>3, Zenon DEF ThinkingSTT, rethink, PipeStep, Keeps, Cancels
<1>4. CASE onSpeakingSTT(text, final)
  BY <1>0, <1>4, Zenon DEF onSpeakingSTT, confirmBargeIn, PipeStep, Keeps, Cancels
<1>5. QED
  BY <1>1, <1>2, <1>3, <1>4, Zenon DEF onSTT

\* Every step of the machine takes one of these shapes.
LEMMA NextPipe ==
  ASSUME [Next]_vars
  PROVE  PipeStep
<1>1. CASE Frames
  BY <1>1, FramePipe DEF Frames
<1>2. CASE STT
  BY <1>2, STTPipe DEF STT
<1>3. CASE STTClosed
  BY <1>3, Zenon DEF STTClosed, PipeStep, Keeps
<1>4. CASE TTSChunk
  BY <1>4, Zenon DEF TTSChunk, onChunk, PipeStep, Feeds
<1>5. CASE onChunkClosed
  BY <1>5, Zenon DEF onChunkClosed, completeAgentTurn, PipeStep, Cancels, Feeds
<1>6. CASE onFiller
  BY <1>6, Zenon DEF onFiller, PipeStep, FillerStops
<1>7. CASE RunReturns
  BY <1>7, Zenon DEF RunReturns, PipeStep, Cancels
<1>8. CASE UNCHANGED vars
  BY <1>8, Zenon DEF vars, PipeStep, Keeps
<1>9. QED
  BY <1>1, <1>2, <1>3, <1>4, <1>5, <1>6, <1>7, <1>8, Zenon DEF Next

\* PipelineOwned: cascading cancellation leaks nothing.  However the frames,
\* results, chunks and the filler timer interleave, no reply pipeline is
\* orphaned, none outlives its turn and no turn is without one.  The property
\* is inductive over the shapes above.
THEOREM PipelineOwnedTheorem == Spec => []PipelineOwned
<1>1. Init => PipelineOwned
  BY DEF Init, PipelineOwned, InTurn
<1>2. PipelineOwned /\ PipeStep => PipelineOwned'
  <2> SUFFICES ASSUME PipelineOwned, PipeStep PROVE PipelineOwned'
    OBVIOUS
  <2> USE DEF PipelineOwned, InTurn
  <2>1. CASE Keeps
    BY <2>1 DEF Keeps, pipeVars
  <2>2. CASE Cancels
    BY <2>2 DEF Cancels, cancelTurn
  <2>3. CASE Starts
    BY <2>3 DEF Starts, startAgentTurn, pipelineUp, failTurn
  <2>4. CASE Feeds
    BY <2>4 DEF Feeds
  <2>5. CASE FillerStops
    BY <2>5 DEF FillerStops
  <2>6. QED
    BY <2>1, <2>2, <2>3, <2>4, <2>5 DEF PipeStep
<1>3. QED
  BY <1>1, <1>2, NextPipe, PTL DEF Spec

\* The pipeline and the state keep their types (cancelTurn, startAgentTurn,
\* onChunk, onFiller).
LEMMA PipeTypedStep ==
  ASSUME PipeTyped, state \in States, PipeStep
  PROVE  PipeTyped' /\ state' \in States
<1>1. CASE Keeps
  BY <1>1 DEF Keeps, PipeTyped, pipeVars, States
<1>2. CASE Cancels
  <2>0. live' = IF turnCancel THEN live - 1 ELSE live
    BY <1>2, Zenon DEF Cancels, cancelTurn
  <2>1. live' \in Int
    <3>1. live \in Int /\ live - 1 \in Int
      BY DEF PipeTyped
    <3>2. QED
      BY <2>0, <3>1, Zenon
  <2>2. state' \in States
    BY <1>2, Zenon DEF Cancels, States
  <2>3. QED
    BY <1>2, <2>1, <2>2, Zenon DEF PipeTyped, Cancels, cancelTurn
<1>3. CASE Starts
  <2>1. CASE pipelineUp
    <3>1. live' \in Int
      BY <2>1 DEF PipeTyped, pipelineUp
    <3>2. QED
      BY <2>1, <3>1, Zenon DEF PipeTyped, pipelineUp, States
  <2>2. CASE failTurn
    BY <2>2, Zenon DEF PipeTyped, failTurn, States
  <2>3. QED
    BY <1>3, <2>1, <2>2 DEF Starts, startAgentTurn
<1>4. CASE Feeds
  BY <1>4, Zenon DEF Feeds, PipeTyped, States
<1>5. CASE FillerStops
  BY <1>5, Zenon DEF FillerStops, PipeTyped, States
<1>6. QED
  BY <1>1, <1>2, <1>3, <1>4, <1>5 DEF PipeStep

-----------------------------------------------------------------------------
(* Clocks.                                                                 *)

\* The clocks and flags the frames drive.
ClockTyped ==
  /\ meter \in MeterState /\ silence \in 0..MaxSilence
  /\ elapsed \in 0..MaxWritten /\ duckAge \in 0..ConfirmWindow
  /\ ducked \in BOOLEAN /\ running \in BOOLEAN /\ sttCh \in BOOLEAN

\* The capped counters stay within their caps.
LEMMA CountersTyped ==
  /\ 0 \in 0..MaxSilence /\ 0 \in 0..MaxWritten /\ 0 \in 0..ConfirmWindow
  /\ \A x \in 0..MaxSilence : Tick(x, MaxSilence) \in 0..MaxSilence
  /\ \A x \in 0..MaxWritten : Tick(x, MaxWritten) \in 0..MaxWritten
  /\ \A x \in 0..ConfirmWindow : Tick(x, ConfirmWindow) \in 0..ConfirmWindow
BY TurnAssumption DEF Tick

\* A meter is made of fields of these types.
LEMMA MeterMade ==
  ASSUME NEW a \in 0..OnsetFrames, NEW q \in 0..HangoverFrames, NEW s \in BOOLEAN
  PROVE  [above |-> a, quiet |-> q, speaking |-> s] \in MeterState
BY DEF MeterState

\* energy.go's Process keeps a meter a meter: neither run length passes its
\* threshold.
LEMMA MeterTyped ==
  ASSUME NEW m \in MeterState, NEW loud \in BOOLEAN
  PROVE  Process(m, loud) \in MeterState
<1>1. m.above \in 0..OnsetFrames /\ m.quiet \in 0..HangoverFrames /\ m.speaking \in BOOLEAN
  BY DEF MeterState
<1>2. CASE loud
  <2> DEFINE above == IF m.above < OnsetFrames THEN m.above + 1 ELSE m.above
             speaking == m.speaking \/ above >= OnsetFrames
  <2>1. above \in 0..OnsetFrames /\ 0 \in 0..HangoverFrames
    BY <1>1, MeterAssumption
  <2>2. speaking \in BOOLEAN
    OBVIOUS
  <2>3. Process(m, loud) = [above |-> above, quiet |-> 0, speaking |-> speaking]
    BY <1>2, Zenon DEF Process, ProcessLoud
  <2> HIDE DEF above, speaking
  <2>4. QED
    BY <2>1, <2>2, <2>3, MeterMade
<1>3. CASE ~loud
  <2> DEFINE ends  == m.speaking /\ m.quiet + 1 >= HangoverFrames
             quiet == IF ends THEN 0 ELSE IF m.speaking THEN m.quiet + 1 ELSE m.quiet
             speaking == m.speaking /\ ~ends
  <2>1. 0 \in 0..OnsetFrames /\ quiet \in 0..HangoverFrames
    BY <1>1, MeterAssumption
  <2>2. speaking \in BOOLEAN
    OBVIOUS
  <2>3. Process(m, loud) = [above |-> 0, quiet |-> quiet, speaking |-> speaking]
    BY <1>3, Zenon DEF Process, ProcessQuiet
  <2> HIDE DEF quiet, speaking
  <2>4. QED
    BY <2>1, <2>2, <2>3, MeterMade
<1>4. QED
  BY <1>2, <1>3

\* Every step keeps the clocks and flags (onFrame, onSTT, onChunk).
LEMMA ClockStep ==
  ASSUME ClockTyped, [Next]_vars
  PROVE  ClockTyped'
<1>1. ASSUME NEW loud \in BOOLEAN, onFrame(loud) PROVE ClockTyped'
  <2>1. meter' \in MeterState
    BY <1>1, MeterTyped DEF ClockTyped, onFrame, AdvanceClock
  <2>2. silence' \in 0..MaxSilence
    BY <1>1, CountersTyped DEF ClockTyped, onFrame, AdvanceClock
  <2>3. elapsed' \in 0..MaxWritten
    BY <1>1, CountersTyped DEF ClockTyped, onFrame, AdvanceClock
  <2>4. agedDuck \in 0..ConfirmWindow
    BY CountersTyped DEF ClockTyped, agedDuck
  <2>5. duckAge' \in 0..ConfirmWindow
    BY <1>1, <2>4, CountersTyped DEF onFrame, ListeningFrame, EndpointingFrame, ThinkingFrame, SpeakingFrame
  <2>6. ducked' \in BOOLEAN
    <3>1. CASE SpeakingFrame
      <4>1. ducked' = IF ducked THEN agedDuck < ConfirmWindow ELSE onset
        BY <3>1, Zenon DEF SpeakingFrame
      <4>2. (agedDuck < ConfirmWindow) \in BOOLEAN /\ onset \in BOOLEAN
        BY DEF onset
      <4>3. QED
        BY <4>1, <4>2, Zenon
    <3>2. CASE ~SpeakingFrame
      BY <3>2, <1>1, Zenon DEF onFrame, ListeningFrame, EndpointingFrame, ThinkingFrame, ClockTyped
    <3>3. QED
      BY <3>1, <3>2
  <2>7. running' \in BOOLEAN /\ sttCh' \in BOOLEAN
    BY <1>1, Zenon DEF onFrame, ClockTyped
  <2>8. QED
    BY <2>1, <2>2, <2>3, <2>5, <2>6, <2>7, Zenon DEF ClockTyped
<1>2. ASSUME NEW text, NEW final, NEW loc, onSTT(text, final, loc) PROVE ClockTyped'
  <2>1. silence' \in 0..MaxSilence
    BY <1>2, CountersTyped DEF ClockTyped, onSTT, DraftSTT, ThinkingSTT, onSpeakingSTT, confirmBargeIn
  <2>2. ducked' \in BOOLEAN /\ duckAge' = duckAge
    BY <1>2, Zenon DEF ClockTyped, onSTT, DraftSTT, ThinkingSTT, onSpeakingSTT, confirmBargeIn, duckVars
  <2>3. QED
    BY <1>2, <2>1, <2>2, Zenon DEF ClockTyped, onSTT
<1>3. CASE STTClosed
  BY <1>3, Zenon DEF ClockTyped, STTClosed, clockVars, duckVars
<1>4. CASE TTSChunk
  <2>1. elapsed' \in 0..MaxWritten
    BY <1>4, CountersTyped DEF TTSChunk, onChunk, ClockTyped
  <2>2. QED
    BY <1>4, <2>1, Zenon DEF ClockTyped, TTSChunk, onChunk, duckVars
<1>5. CASE onChunkClosed
  BY <1>5, Zenon DEF ClockTyped, onChunkClosed, clockVars, duckVars
<1>6. CASE onFiller
  BY <1>6, Zenon DEF ClockTyped, onFiller, clockVars, duckVars
<1>7. CASE RunReturns
  BY <1>7, Zenon DEF ClockTyped, RunReturns, clockVars, duckVars
<1>8. CASE UNCHANGED vars
  BY <1>8, Zenon DEF ClockTyped, vars, clockVars, duckVars
<1>9. QED
  BY <1>1, <1>2, <1>3, <1>4, <1>5, <1>6, <1>7, <1>8, Zenon DEF Next, Frames, STT

-----------------------------------------------------------------------------
(* What the caller said.                                                   *)

\* The caller's words, the recognizer's locale and the results counted.
TextTyped ==
  /\ activeLocale \in Locale
  /\ carryText \in Text /\ finals \in Text /\ lastPart \in Text /\ owed \in Text
  /\ results \in 0..MaxResults

\* Texts join to texts.
LEMMA TextJoins ==
  /\ << >> \in Text
  /\ \A s, t \in Text : s \o t \in Text
BY ConcatProperties, EmptySeq DEF Text

\* The draft is a text.
LEMMA DraftTyped ==
  ASSUME TextTyped
  PROVE  draft \in Text
BY TextJoins DEF TextTyped, draft

\* How a step changes the caller's words: a result is absorbed, a barge-in
\* opens a new draft, the draft is reported to the agent, or the words of an
\* answered turn are cleared.
Absorbs(text, final) ==
  /\ absorb(text, final) /\ Owe(text, final, owed) /\ carryText' = carryText

Reports == carryText' = draft /\ finals' = << >> /\ lastPart' = << >> /\ owed' = draft

Opens(text, final) ==
  /\ carryText' = << >> /\ owed' = finals'
  /\ finals' = (IF final THEN text ELSE << >>)
  /\ lastPart' = (IF final THEN << >> ELSE text)

Clears == resetDraft /\ owed' = << >>

DraftStep ==
  \/ UNCHANGED draftVars /\ (running' /\ InTurn' => running /\ InTurn)
  \/ \E text \in Text, final \in BOOLEAN :
       (Absorbs(text, final) \/ Opens(text, final)) /\ ~InTurn'
  \/ Reports
  \/ Clears

\* Each of these keeps texts.
LEMMA TextStep ==
  ASSUME TextTyped, DraftStep
  PROVE  carryText' \in Text /\ finals' \in Text /\ lastPart' \in Text /\ owed' \in Text
<1>1. CASE UNCHANGED draftVars
  BY <1>1, Zenon DEF TextTyped, draftVars
<1>2. ASSUME NEW text \in Text, NEW final \in BOOLEAN, Absorbs(text, final)
      PROVE  carryText' \in Text /\ finals' \in Text /\ lastPart' \in Text /\ owed' \in Text
  BY <1>2, TextJoins, Zenon DEF TextTyped, Absorbs, absorb, Owe
<1>3. ASSUME NEW text \in Text, NEW final \in BOOLEAN, Opens(text, final)
      PROVE  carryText' \in Text /\ finals' \in Text /\ lastPart' \in Text /\ owed' \in Text
  BY <1>3, TextJoins, Zenon DEF Opens
<1>4. CASE Reports
  BY <1>4, DraftTyped, TextJoins, Zenon DEF Reports
<1>5. CASE Clears
  BY <1>5, TextJoins, Zenon DEF Clears, resetDraft
<1>6. QED
  BY <1>1, <1>2, <1>3, <1>4, <1>5, Zenon DEF DraftStep

\* Every step of the machine changes the caller's words in one of these ways,
\* and a turn is entered only by reporting the draft or by staying in one.
LEMMA NextDraft ==
  ASSUME TextTyped, [Next]_vars
  PROVE  DraftStep
<1>1. ASSUME NEW loud, onFrame(loud) PROVE DraftStep
  <2>0. running' = running
    BY <1>1 DEF onFrame
  <2>1. CASE ListeningFrame
    BY <2>0, <2>1, Zenon DEF ListeningFrame, DraftStep, InTurn
  <2>2. CASE EndpointingFrame
    <3>1. CASE finalizeUserTurn
      BY <3>1, <2>0, <2>2, Zenon DEF finalizeUserTurn, DraftStep, Reports, InTurn
    <3>2. CASE ~finalizeUserTurn
      BY <3>2, <2>0, <2>2, Zenon DEF EndpointingFrame, DraftStep, InTurn
    <3>3. QED
      BY <3>1, <3>2
  <2>3. CASE ThinkingFrame
    BY <2>0, <2>3, Zenon DEF ThinkingFrame, rethink, DraftStep, InTurn
  <2>4. CASE SpeakingFrame
    BY <2>0, <2>4, Zenon DEF SpeakingFrame, maybeFinishSpeaking, completeAgentTurn, DraftStep,
                              InTurn, Clears
  <2>5. QED
    BY <1>1, <2>1, <2>2, <2>3, <2>4 DEF onFrame
<1>2. ASSUME NEW text \in Text, NEW final \in BOOLEAN, NEW loc, onSTT(text, final, loc)
      PROVE  DraftStep
  <2>0. running' = running
    BY <1>2 DEF onSTT
  <2>1. CASE UNCHANGED <<state, draftVars>>
    BY <2>0, <2>1, Zenon DEF DraftStep, InTurn
  <2>2. CASE DraftSTT(text, final)
    <3>1. Absorbs(text, final) /\ state' = "stListening"
      BY <2>2, Zenon DEF DraftSTT, Absorbs
    <3>2. QED
      BY <3>1 DEF DraftStep, InTurn
  <2>3. CASE ThinkingSTT(text, final)
    <3>1. CASE Absorbs(text, final) /\ state' = "stListening"
      BY <3>1 DEF DraftStep, InTurn
    <3>2. CASE UNCHANGED <<state, draftVars>>
      BY <2>0, <3>2, Zenon DEF DraftStep, InTurn
    <3>3. QED
      BY <2>3, <3>1, <3>2, Zenon DEF ThinkingSTT, rethink, Absorbs
  <2>4. CASE onSpeakingSTT(text, final)
    <3>1. CASE confirmBargeIn(text, final)
      <4>0. << >> \o text = text
        BY ConcatEmptySeq DEF Text
      <4>1. Opens(text, final) /\ state' = "stListening"
        BY <3>1, <4>0, Zenon DEF confirmBargeIn, Opens, Owe
      <4>2. QED
        BY <4>1 DEF DraftStep, InTurn
    <3>2. CASE UNCHANGED <<state, draftVars>>
      BY <2>0, <3>2, Zenon DEF DraftStep, InTurn
    <3>3. QED
      BY <2>4, <3>1, <3>2, Zenon DEF onSpeakingSTT
  <2>5. QED
    BY <1>2, <2>1, <2>2, <2>3, <2>4, Zenon DEF onSTT
<1>3. CASE STTClosed
  BY <1>3, Zenon DEF STTClosed, DraftStep, InTurn
<1>4. CASE TTSChunk
  BY <1>4 DEF TTSChunk, onChunk, DraftStep, InTurn
<1>5. CASE onChunkClosed
  BY <1>5, Zenon DEF onChunkClosed, completeAgentTurn, DraftStep, InTurn, Clears
<1>6. CASE onFiller
  BY <1>6, Zenon DEF onFiller, DraftStep, InTurn
<1>7. CASE RunReturns
  BY <1>7, Zenon DEF RunReturns, DraftStep, InTurn
<1>8. CASE UNCHANGED vars
  BY <1>8, Zenon DEF vars, DraftStep, InTurn
<1>9. QED
  BY <1>1, <1>2, <1>3, <1>4, <1>5, <1>6, <1>7, <1>8, TurnAssumption, Zenon DEF Next, Frames, STT

\* CallerWordsKept is not inductive alone: a turn that began with words still
\* in finals or lastPart would lose them at its end, so the invariant also says
\* that both are empty while the agent thinks or speaks.
WordsInv ==
  /\ TextTyped
  /\ carryText \o finals = owed
  /\ running /\ InTurn => finals = << >> /\ lastPart = << >>

\* Joining texts is associative and << >> is its unit.
LEMMA Joining ==
  /\ \A s \in Text : s \o << >> = s /\ << >> \o s = s
  /\ \A s, t, u \in Text : (s \o t) \o u = s \o (t \o u)
BY ConcatEmptySeq, ConcatAssociative DEF Text

\* The ways above keep what is owed to the caller.
LEMMA WordsStep ==
  ASSUME WordsInv, DraftStep
  PROVE  /\ carryText' \o finals' = owed'
         /\ running' /\ InTurn' => finals' = << >> /\ lastPart' = << >>
<1> DEFINE Kept == /\ carryText' \o finals' = owed'
                   /\ running' /\ InTurn' => finals' = << >> /\ lastPart' = << >>
<1>1. CASE UNCHANGED draftVars /\ (running' /\ InTurn' => running /\ InTurn)
  BY <1>1, Zenon DEF WordsInv, draftVars
<1>2. ASSUME NEW text \in Text, NEW final \in BOOLEAN, Absorbs(text, final), ~InTurn'
      PROVE  Kept
  <2>1. carryText' \o finals' = owed'
    <3>1. carryText \o finals = owed /\ carryText \in Text /\ finals \in Text
      BY DEF WordsInv, TextTyped
    <3>2. (carryText \o finals) \o text = carryText \o (finals \o text)
      BY <3>1, Joining, Zenon
    <3>3. QED
      BY <1>2, <3>1, <3>2, Zenon DEF Absorbs, absorb, Owe
  <2>2. QED
    BY <1>2, <2>1
<1>3. ASSUME NEW text \in Text, NEW final \in BOOLEAN, Opens(text, final), ~InTurn'
      PROVE  Kept
  <2>1. finals' \in Text
    BY <1>3, TextJoins, Zenon DEF Opens
  <2>2. carryText' \o finals' = owed'
    BY <1>3, <2>1, Joining, Zenon DEF Opens
  <2>3. QED
    BY <1>3, <2>2
<1>4. CASE Reports
  BY <1>4, DraftTyped, Joining, Zenon DEF Reports, WordsInv
<1>5. CASE Clears
  BY <1>5, TextJoins, Joining, Zenon DEF Clears, resetDraft
<1>6. QED
  BY <1>1, <1>2, <1>3, <1>4, <1>5, Zenon DEF DraftStep

\* onSTT leaves a known locale and counts its results up to the bound.
LEMMA LocaleStep ==
  ASSUME TextTyped, [Next]_vars
  PROVE  activeLocale' \in Locale /\ results' \in 0..MaxResults
<1>0. activeLocale \in Locale /\ results \in 0..MaxResults /\ MaxResults \in Nat
  BY TurnAssumption DEF TextTyped
<1>1. CASE STT
  <2>1. PICK text \in Utterances, final \in BOOLEAN, loc \in Locale \cup {NoLocale} :
          onSTT(text, final, loc)
    BY <1>1 DEF STT
  <2>2. activeLocale' = IF loc = NoLocale THEN activeLocale ELSE loc
    BY <2>1, Zenon DEF onSTT
  <2>3. results < MaxResults /\ results' = results + 1
    BY <2>1, Zenon DEF onSTT
  <2>4. activeLocale' \in Locale
    BY <1>0, <2>2, Zenon
  <2>5. results' \in 0..MaxResults
    BY <1>0, <2>3
  <2>6. QED
    BY <2>4, <2>5
<1>2. CASE UNCHANGED <<activeLocale, results>>
  BY <1>0, <1>2, Zenon
<1>3. CASE UNCHANGED vars
  BY <1>0, <1>3, Zenon DEF vars
<1>4. QED
  BY <1>1, <1>2, <1>3, Zenon DEF Next, Frames, onFrame, STTClosed, TTSChunk, onChunk,
                                 onChunkClosed, onFiller, RunReturns

\* CallerWordsKept: nothing the caller said is dropped between two agent turns,
\* for every utterance set, dictionary and delay: rethink, failTurn and late
\* results never shorten the text the next user turn must contain.
THEOREM CallerWordsKeptTheorem == Spec => []CallerWordsKept
<1>1. Init => WordsInv
  <2> SUFFICES ASSUME Init PROVE WordsInv
    OBVIOUS
  <2>1. 0 \in 0..MaxResults /\ InitLocale \in Locale
    BY TurnAssumption
  <2>2. TextTyped
    BY <2>1, TextJoins, Zenon DEF Init, TextTyped
  <2>3. QED
    BY <2>2, TextJoins, Joining, Zenon DEF Init, WordsInv
<1>2. WordsInv /\ [Next]_vars => WordsInv'
  BY NextDraft, TextStep, WordsStep, LocaleStep, Zenon DEF WordsInv, TextTyped
<1>3. WordsInv => CallerWordsKept
  <2> SUFFICES ASSUME WordsInv PROVE CallerWordsKept
    OBVIOUS
  <2>1. owed \in Text /\ carryText \o finals = owed /\ owed \o << >> = owed
    BY Joining DEF WordsInv, TextTyped
  <2>2. running /\ InTurn => draft = owed
    BY <2>1, Zenon DEF WordsInv, draft
  <2>3. QED
    BY <2>1, <2>2, Zenon DEF CallerWordsKept
<1>4. QED
  BY <1>1, <1>2, <1>3, PTL DEF Spec

-----------------------------------------------------------------------------
(* Line, tracker and hooks.                                                *)

\* The fields of a TTS chunk.
LEMMA ChunkFields ==
  ASSUME NEW c \in Chunks
  PROVE  c.dur \in Nat /\ c.ends \in Seq(Nat)
BY TurnAssumption

\* The outcomes of a Flush or Write that may fail are lines.
LEMMA LineOutcomes ==
  ASSUME NEW l, GoodLine(l), NEW d \in Nat
  PROVE  \A k \in FlushOutcomes(l) \cup ClipOutcomes(l) \cup ChunkOutcomes(l, d) : GoodLine(k)
BY LineSteps, Zenon DEF FlushOutcomes, ClipOutcomes, ChunkOutcomes

\* Every step leaves a line.
LEMMA LineStep ==
  ASSUME GoodLine(line), [Next]_vars
  PROVE  GoodLine(line')
<1>0. GoodLine(Ticked) /\ 0 \in Nat
  BY TickStep
<1>1. ASSUME NEW loud, onFrame(loud) PROVE GoodLine(line')
  <2>1. \/ line' = Ticked
        \/ line' \in ClipOutcomes(Ticked)
        \/ line' = EndUtterance(Ticked)
    BY <1>1, Zenon DEF onFrame, ListeningFrame, EndpointingFrame, ThinkingFrame, SpeakingFrame,
         finalizeUserTurn, startAgentTurn, pipelineUp, failTurn, maybeFinishSpeaking,
         completeAgentTurn
  <2>2. QED
    BY <1>0, <2>1, LineOutcomes, LineSteps, Zenon
<1>2. ASSUME NEW text, NEW final, NEW loc, onSTT(text, final, loc) PROVE GoodLine(line')
  <2>1. line' = line \/ line' \in FlushOutcomes(line)
    BY <1>2, Zenon DEF onSTT, DraftSTT, ThinkingSTT, onSpeakingSTT, confirmBargeIn
  <2>2. QED
    BY <1>0, <2>1, LineOutcomes, Zenon
<1>3. CASE STTClosed
  BY <1>3, Zenon DEF STTClosed
<1>4. ASSUME NEW c \in Chunks, onChunk(c) PROVE GoodLine(line')
  <2> DEFINE first == state = "stThinking"
             base  == IF first THEN Line(line.backlog, line.queued, line.heard, FALSE) ELSE line
  <2>1. GoodLine(base)
    BY GoodLineFields, LineMade, Zenon
  <2>2. line' \in ChunkOutcomes(base, c.dur)
    BY <1>4, Zenon DEF onChunk
  <2>3. c.dur \in Nat
    BY ChunkFields
  <2> HIDE DEF base
  <2>4. QED
    BY <2>1, <2>2, <2>3, LineOutcomes, Zenon
<1>5. CASE onChunkClosed
  BY <1>0, <1>5, LineSteps, Zenon DEF onChunkClosed, completeAgentTurn
<1>6. CASE onFiller
  BY <1>0, <1>6, LineOutcomes, Zenon DEF onFiller
<1>7. CASE RunReturns
  BY <1>7, Zenon DEF RunReturns
<1>8. CASE UNCHANGED vars
  BY <1>8, Zenon DEF vars
<1>9. QED
  BY <1>1, <1>2, <1>3, <1>4, <1>5, <1>6, <1>7, <1>8, Zenon DEF Next, Frames, STT, TTSChunk

\* The playout tracker.
Trackers == [written : 0..MaxWritten, ends : Seq(Nat)]

\* A tracker is made of fields of these types.
LEMMA TrackerMade ==
  ASSUME NEW w \in 0..MaxWritten, NEW e \in Seq(Nat)
  PROVE  [written |-> w, ends |-> e] \in Trackers
BY DEF Trackers

\* Every step leaves a tracker: AddChunk shifts the word ends of the chunk by
\* what was written before it and stays within the bound (playout.go).
LEMMA TrackerStep ==
  ASSUME tracker \in Trackers, [Next]_vars
  PROVE  tracker' \in Trackers
<1>0. NewPlayoutTracker \in Trackers
  <2>1. 0 \in 0..MaxWritten /\ << >> \in Seq(Nat)
    BY TurnAssumption
  <2>2. QED
    BY <2>1, TrackerMade, Zenon DEF NewPlayoutTracker
<1>1. ASSUME NEW loud, onFrame(loud) PROVE tracker' \in Trackers
  <2>1. tracker' = tracker \/ tracker' = NewPlayoutTracker
    BY <1>1, Zenon DEF onFrame, ListeningFrame, EndpointingFrame, ThinkingFrame, SpeakingFrame,
         finalizeUserTurn, startAgentTurn, pipelineUp, failTurn
  <2>2. QED
    BY <1>0, <2>1
<1>2. ASSUME NEW c \in Chunks, onChunk(c) PROVE tracker' \in Trackers
  <2> DEFINE shifted == [i \in 1..Len(c.ends) |-> c.ends[i] + tracker.written]
  <2>1. tracker.written \in 0..MaxWritten /\ tracker.ends \in Seq(Nat) /\ MaxWritten \in Nat
    BY TurnAssumption DEF Trackers
  <2>2. c.dur \in Nat /\ c.ends \in Seq(Nat)
    BY ChunkFields
  <2>3. Len(c.ends) \in Nat /\ \A i \in 1..Len(c.ends) : c.ends[i] \in Nat
    BY <2>2, LenProperties, ElementOfSeq
  <2>4. \A i \in 1..Len(c.ends) : c.ends[i] + tracker.written \in Nat
    BY <2>1, <2>3
  <2>5. shifted \in [1..Len(c.ends) -> Nat]
    BY <2>4
  <2>6. shifted \in Seq(Nat)
    BY <2>3, <2>5, SeqDef
  <2> HIDE DEF shifted
  <2>7. tracker.ends \o shifted \in Seq(Nat)
    BY <2>1, <2>6, ConcatProperties
  <2>8. tracker.written + c.dur \in 0..MaxWritten
    <3>1. tracker.written + c.dur <= MaxWritten
      BY <1>2, Zenon DEF onChunk
    <3>2. QED
      BY <2>1, <2>2, <3>1
  <2>9. tracker' = [written |-> tracker.written + c.dur, ends |-> tracker.ends \o shifted]
    BY <1>2, Zenon DEF onChunk, AddChunk, shifted
  <2>10. QED
    BY <2>7, <2>8, <2>9, TrackerMade
<1>3. CASE UNCHANGED tracker
  BY <1>3
<1>4. CASE UNCHANGED vars
  BY <1>4, Zenon DEF vars
<1>5. QED
  BY <1>1, <1>2, <1>3, <1>4, Zenon DEF Next, Frames, STT, onSTT, STTClosed, TTSChunk,
                                      onChunkClosed, onFiller, RunReturns

\* The hooks the machine calls.
Hooks == {NoHook, Filler} \cup [kind : {"userTurn"}, text : Text]
         \cup [kind : {"agentTurn"}, words : Nat, audible : Nat, interrupted : BOOLEAN]

\* Counting spoken words gives a number.
LEMMA WordsCounted ==
  ASSUME NEW ends \in Seq(Nat), NEW ms
  PROVE  WordsWithin(ends, ms) \in Nat
<1> DEFINE words == {i \in 1..Len(ends) : \A j \in 1..i : ends[j] <= ms}
<1>1. IsFiniteSet(1..Len(ends))
  BY LenProperties, FS_Interval
<1>2. IsFiniteSet(words)
  BY <1>1, FS_Subset
<1>3. QED
  BY <1>2, FS_CardinalityType DEF WordsWithin

\* The hooks have these types.
LEMMA HooksMade ==
  /\ NoHook \in Hooks /\ Filler \in Hooks
  /\ \A t \in Text : UserTurn(t) \in Hooks
  /\ \A w, a \in Nat, cut \in BOOLEAN : AgentTurn(w, a, cut) \in Hooks
BY DEF Hooks, NoHook, Filler, UserTurn, AgentTurn

\* Every step calls a hook of these types, or none.
LEMMA HookStep ==
  ASSUME tracker \in Trackers, TextTyped, out \in Hooks, [Next]_vars
  PROVE  out' \in Hooks
<1>0. \A ms : WordsWithin(tracker.ends, ms) \in Nat /\ Spoken(tracker, ms) \in Nat
  <2>1. tracker.ends \in Seq(Nat)
    BY DEF Trackers
  <2>2. QED
    BY <2>1, WordsCounted, Zenon DEF Spoken
<1>1. draft \in Text
  BY DraftTyped
<1>1a. TRUE \in BOOLEAN /\ FALSE \in BOOLEAN
  OBVIOUS
<1>2. ASSUME NEW ms, NEW l, completeAgentTurn(ms, l) PROVE out' \in Hooks
  <2>1. out' = AgentTurn(Spoken(tracker, playedMs(ms) + PlayoutOffset),
                         WordsWithin(tracker.ends, l.heard), FALSE)
    BY <1>2, Zenon DEF completeAgentTurn
  <2>2. QED
    BY <1>0, <1>1a, <2>1, HooksMade, Zenon
<1>3. ASSUME NEW loud, onFrame(loud) PROVE out' \in Hooks
  BY <1>1, <1>2, <1>3, HooksMade, Zenon DEF onFrame, ListeningFrame, EndpointingFrame,
     ThinkingFrame, SpeakingFrame, maybeFinishSpeaking, finalizeUserTurn
<1>4. ASSUME NEW text, NEW final, NEW loc, onSTT(text, final, loc) PROVE out' \in Hooks
  <2>1. \/ out' = NoHook
        \/ out' = AgentTurn(Spoken(tracker, playedMs(elapsed)), Spoken(tracker, line.heard), TRUE)
    BY <1>4, Zenon DEF onSTT, DraftSTT, ThinkingSTT, onSpeakingSTT, confirmBargeIn
  <2>2. QED
    BY <1>0, <1>1a, <2>1, HooksMade, Zenon
<1>5. CASE onChunkClosed
  BY <1>2, <1>5, HooksMade, Zenon DEF onChunkClosed
<1>6. CASE onFiller
  BY <1>6, HooksMade, Zenon DEF onFiller
<1>7. CASE out' = NoHook
  BY <1>7, HooksMade, Zenon
<1>8. CASE UNCHANGED vars
  BY <1>8, Zenon DEF vars
<1>9. QED
  BY <1>3, <1>4, <1>5, <1>6, <1>7, <1>8, Zenon DEF Next, Frames, STT, STTClosed, TTSChunk,
                                                  onChunk, RunReturns

-----------------------------------------------------------------------------
(* Types.                                                                  *)

\* The type invariant as the lemmas above keep it.  It is stronger than TypeOK
\* where TypeOK is not inductive: GoodLine bounds heard by queued.
TypeInv ==
  /\ PipeTyped /\ state \in States
  /\ ClockTyped /\ TextTyped
  /\ GoodLine(line) /\ tracker \in Trackers /\ out \in Hooks

\* TypeInv is inductive.
THEOREM TypeInvTheorem == Spec => []TypeInv
<1>1. Init => TypeInv
  <2> SUFFICES ASSUME Init PROVE TypeInv
    OBVIOUS
  <2>1. PipeTyped /\ state \in States
    <3>1. live \in Int
      BY DEF Init
    <3>2. QED
      BY <3>1, Zenon DEF Init, PipeTyped, States
  <2>2. NewMeter \in MeterState
    <3>1. 0 \in 0..OnsetFrames /\ 0 \in 0..HangoverFrames /\ FALSE \in BOOLEAN
      BY MeterAssumption
    <3>2. QED
      BY <3>1, MeterMade, Zenon DEF NewMeter
  <2>3. ClockTyped
    BY <2>2, CountersTyped, Zenon DEF Init, ClockTyped
  <2>4. 0 \in 0..MaxResults /\ InitLocale \in Locale
    BY TurnAssumption
  <2>5. TextTyped
    BY <2>4, TextJoins, Zenon DEF Init, TextTyped
  <2>6. GoodLine(line)
    <3>1. 0 \in 0..MaxBacklog /\ 0 \in Nat /\ 0 <= 0 /\ FALSE \in BOOLEAN
      BY BoundsTyped
    <3>2. GoodLine(Line(0, 0, 0, FALSE))
      BY <3>1, LineMade, Zenon
    <3>3. QED
      BY <3>2, Zenon DEF Init, SilentLine
  <2>7. 0 \in 0..MaxWritten /\ << >> \in Seq(Nat)
    BY TurnAssumption
  <2>8. tracker \in Trackers
    BY <2>7, TrackerMade, Zenon DEF Init, NewPlayoutTracker
  <2>9. out \in Hooks
    BY HooksMade, Zenon DEF Init
  <2>10. QED
    BY <2>1, <2>3, <2>5, <2>6, <2>8, <2>9, Zenon DEF TypeInv
<1>2. TypeInv /\ [Next]_vars => TypeInv'
  <2> SUFFICES ASSUME TypeInv, [Next]_vars PROVE TypeInv'
    OBVIOUS
  <2>1. PipeTyped' /\ state' \in States
    BY NextPipe, PipeTypedStep, Zenon DEF TypeInv
  <2>2. ClockTyped'
    BY ClockStep, Zenon DEF TypeInv
  <2>3. TextTyped'
    BY NextDraft, TextStep, LocaleStep, Zenon DEF TypeInv, TextTyped
  <2>4. GoodLine(line')
    BY LineStep, Zenon DEF TypeInv
  <2>5. tracker' \in Trackers /\ out' \in Hooks
    BY TrackerStep, HookStep, Zenon DEF TypeInv
  <2>6. QED
    BY <2>1, <2>2, <2>3, <2>4, <2>5, Zenon DEF TypeInv
<1>3. QED
  BY <1>1, <1>2, PTL DEF Spec

\* TypeOK: every variable keeps the shape of the field it models, through
\* every handler, for every value of the constants.
THEOREM TypeOKTheorem == Spec => []TypeOK
<1>1. TypeInv => TypeOK
  BY Zenon DEF TypeInv, TypeOK, PipeTyped, ClockTyped, TextTyped, GoodLine, Lines, Trackers, Hooks
<1>2. QED
  BY <1>1, TypeInvTheorem, PTL

-----------------------------------------------------------------------------
(* What history records of the agent's words.                              *)

\* Words counted within more frames are no fewer; within all frames, all.
LEMMA WordsGrow ==
  ASSUME NEW ends \in Seq(Nat), NEW a \in Nat, NEW b \in Nat
  PROVE  /\ a <= b => WordsWithin(ends, a) <= WordsWithin(ends, b)
         /\ (\A i \in 1..Len(ends) : ends[i] <= a) => WordsWithin(ends, a) = Len(ends)
         /\ Len(ends) = 0 => WordsWithin(ends, a) = 0
<1> DEFINE W(ms) == {i \in 1..Len(ends) : \A j \in 1..i : ends[j] <= ms}
<1>0. Len(ends) \in Nat /\ \A i \in 1..Len(ends) : ends[i] \in Nat
  BY LenProperties, ElementOfSeq
<1>1. IsFiniteSet(1..Len(ends)) /\ Cardinality(1..Len(ends)) = Len(ends)
  <2>1. Cardinality(1..Len(ends)) = IF 1 > Len(ends) THEN 0 ELSE Len(ends) - 1 + 1
    BY <1>0, FS_Interval
  <2>2. \A n \in Nat : (IF 1 > n THEN 0 ELSE n - 1 + 1) = n
    OBVIOUS
  <2>3. IsFiniteSet(1..Len(ends))
    BY <1>0, FS_Interval
  <2>4. QED
    BY <1>0, <2>1, <2>2, <2>3, Zenon
<1>2. IsFiniteSet(W(b)) /\ Cardinality(W(b)) \in Nat
  <2>1. W(b) \subseteq 1..Len(ends)
    OBVIOUS
  <2>2. QED
    BY <1>1, <2>1, FS_Subset, FS_CardinalityType
<1>3. ASSUME a <= b
      PROVE  Cardinality(W(a)) <= Cardinality(W(b))
  <2>1. W(a) \subseteq W(b)
    <3>1. ASSUME NEW i \in 1..Len(ends), \A j \in 1..i : ends[j] <= a
          PROVE  \A j \in 1..i : ends[j] <= b
      <4>1. SUFFICES ASSUME NEW j \in 1..i
                     PROVE  ends[j] <= b
        OBVIOUS
      <4>2. j \in 1..Len(ends) /\ ends[j] <= a
        BY <1>0, <3>1
      <4>3. QED
        BY <1>0, <1>3, <4>2
    <3>2. QED
      BY <3>1
  <2>2. QED
    BY <1>2, <2>1, FS_Subset
<1>4. ASSUME \A i \in 1..Len(ends) : ends[i] <= a
      PROVE  Cardinality(W(a)) = Len(ends)
  <2>1. \A i \in 1..Len(ends) : \A j \in 1..i : j \in 1..Len(ends)
    BY <1>0
  <2>2. W(a) = 1..Len(ends)
    BY <1>4, <2>1
  <2>3. QED
    BY <1>1, <2>2
<1>5. ASSUME Len(ends) = 0
      PROVE  Cardinality(W(a)) = 0
  <2>1. \A i \in 1..Len(ends) : FALSE
    BY <1>5
  <2>2. Cardinality(W(a)) = Len(ends)
    BY <1>4, <2>1
  <2>3. QED
    BY <1>5, <2>2
<1>6. QED
  BY <1>3, <1>4, <1>5 DEF WordsWithin

\* completeAgentTurn adds the playout offset that Spoken takes off again.
LEMMA OffsetCancels ==
  ASSUME NEW t \in Trackers, NEW p \in Nat
  PROVE  Spoken(t, p + PlayoutOffset) = WordsWithin(t.ends, p)
<1>1. PlayoutOffset \in Nat
  BY BoundsTyped
<1>2. \A o, k \in Nat : (IF k + o > o THEN (k + o) - o ELSE 0) = k
  OBVIOUS
<1>3. (IF p + PlayoutOffset > PlayoutOffset THEN (p + PlayoutOffset) - PlayoutOffset ELSE 0) = p
  BY <1>1, <1>2
<1>4. Spoken(t, p + PlayoutOffset) =
      WordsWithin(t.ends, IF p + PlayoutOffset > PlayoutOffset THEN (p + PlayoutOffset) - PlayoutOffset ELSE 0)
  BY Zenon DEF Spoken
<1>5. QED
  BY <1>3, <1>4, Zenon

\* How a step closes an agent turn: the utterance has played out, it was
\* empty, or the caller cut it; every other step records none.
PlaysOut ==
  /\ running /\ state = "stSpeaking" /\ ttsDone /\ playedMs(elapsed') >= tracker.written
  /\ elapsed' = Tick(elapsed, MaxWritten) /\ tracker' = tracker
  /\ out' = AgentTurn(Spoken(tracker, playedMs(elapsed') + PlayoutOffset),
                      WordsWithin(tracker.ends, Ticked.heard), FALSE)
  /\ line' = EndUtterance(Ticked)
SaysNothing ==
  /\ state = "stThinking" /\ tracker' = tracker
  /\ out' = AgentTurn(Spoken(tracker, playedMs(elapsed) + PlayoutOffset),
                      WordsWithin(tracker.ends, line.heard), FALSE)
IsCut ==
  /\ running /\ state = "stSpeaking" /\ tracker' = tracker /\ line' \in FlushOutcomes(line)
  /\ out' = AgentTurn(Spoken(tracker, playedMs(elapsed)), Spoken(tracker, line.heard), TRUE)

HookShape ==
  \/ PlaysOut \/ SaysNothing \/ IsCut
  \/ out' \in {NoHook, Filler} \/ (\E t \in Text : out' = UserTurn(t))
  \/ UNCHANGED <<out, tracker, line>>

\* Every step closes a turn in one of these ways, or calls no agent-turn hook.
LEMMA NextHook ==
  ASSUME TextTyped, [Next]_vars
  PROVE  HookShape
<1>0. NoHook \in {NoHook, Filler} /\ Filler \in {NoHook, Filler} /\ draft \in Text
  BY DraftTyped
<1>1. ASSUME NEW loud, onFrame(loud)
      PROVE  HookShape
  <2>1. CASE SpeakingFrame
    <3>1. elapsed' = Tick(elapsed, MaxWritten) /\ state = "stSpeaking" /\ tracker' = tracker /\ running
      BY <1>1, <2>1, Zenon DEF onFrame, AdvanceClock, SpeakingFrame
    <3>2. CASE ttsDone /\ playedMs(elapsed') >= tracker.written
      BY <2>1, <3>1, <3>2, Zenon DEF SpeakingFrame, maybeFinishSpeaking, completeAgentTurn, PlaysOut, HookShape
    <3>3. CASE ~(ttsDone /\ playedMs(elapsed') >= tracker.written)
      BY <1>0, <2>1, <3>3, Zenon DEF SpeakingFrame, maybeFinishSpeaking, HookShape
    <3>4. QED
      BY <3>2, <3>3
  <2>2. CASE ListeningFrame \/ EndpointingFrame \/ ThinkingFrame
    BY <1>0, <2>2, Zenon DEF ListeningFrame, EndpointingFrame, ThinkingFrame, finalizeUserTurn, HookShape
  <2>3. QED
    BY <1>1, <2>1, <2>2 DEF onFrame
<1>2. ASSUME NEW text, NEW final, NEW loc, onSTT(text, final, loc)
      PROVE  HookShape
  <2>1. tracker' = tracker /\ running
    BY <1>2 DEF onSTT
  <2>2. CASE out' = NoHook
    BY <1>0, <2>2, Zenon DEF HookShape
  <2>3. CASE state = "stSpeaking" /\ confirmBargeIn(text, final)
    BY <2>1, <2>3, Zenon DEF confirmBargeIn, IsCut, HookShape
  <2>4. QED
    BY <1>2, <2>2, <2>3, Zenon DEF onSTT, DraftSTT, ThinkingSTT, onSpeakingSTT
<1>3. CASE onChunkClosed
  BY <1>0, <1>3, Zenon DEF onChunkClosed, completeAgentTurn, SaysNothing, HookShape
<1>4. CASE STTClosed \/ TTSChunk \/ RunReturns \/ onFiller
  BY <1>0, <1>4, Zenon DEF STTClosed, TTSChunk, onChunk, RunReturns, onFiller, HookShape
<1>5. CASE UNCHANGED vars
  BY <1>5, Zenon DEF vars, HookShape
<1>6. QED
  BY <1>1, <1>2, <1>3, <1>4, <1>5, Zenon DEF Next, Frames, STT

\* How a step changes the tracker: it stays, a reply starts, a chunk is added.
TrackerShape ==
  \/ tracker' = tracker /\ (state' = "stThinking" => state = "stThinking")
  \/ tracker' = NewPlayoutTracker
  \/ \E c \in Chunks : tracker' = AddChunk(tracker, c) /\ state' # "stThinking"

\* Every step changes the tracker in one of these ways.
LEMMA NextTracker ==
  ASSUME [Next]_vars
  PROVE  TrackerShape
<1>1. ASSUME NEW loud, onFrame(loud)
      PROVE  TrackerShape
  <2>1. CASE ListeningFrame \/ ThinkingFrame \/ SpeakingFrame
    BY <2>1, Zenon DEF ListeningFrame, ThinkingFrame, SpeakingFrame, rethink, maybeFinishSpeaking,
                       completeAgentTurn, TrackerShape
  <2>2. CASE EndpointingFrame
    <3>1. CASE finalizeUserTurn
      BY <3>1, Zenon DEF finalizeUserTurn, startAgentTurn, pipelineUp, failTurn, TrackerShape
    <3>2. CASE ~finalizeUserTurn
      BY <2>2, <3>2, Zenon DEF EndpointingFrame, TrackerShape
    <3>3. QED
      BY <3>1, <3>2
  <2>3. QED
    BY <1>1, <2>1, <2>2 DEF onFrame
<1>2. ASSUME NEW text, NEW final, NEW loc, onSTT(text, final, loc)
      PROVE  TrackerShape
  BY <1>2, Zenon DEF onSTT, DraftSTT, ThinkingSTT, onSpeakingSTT, confirmBargeIn, rethink, TrackerShape
<1>3. ASSUME NEW c \in Chunks, onChunk(c)
      PROVE  TrackerShape
  BY <1>3, Zenon DEF onChunk, TrackerShape
<1>4. CASE STTClosed \/ onChunkClosed \/ onFiller \/ RunReturns \/ UNCHANGED vars
  BY <1>4, Zenon DEF STTClosed, onChunkClosed, completeAgentTurn, onFiller, RunReturns, vars, TrackerShape
<1>5. QED
  BY <1>1, <1>2, <1>3, <1>4, Zenon DEF Next, Frames, STT, TTSChunk

\* A reply that has produced nothing has an empty tracker.
FreshThinking == state = "stThinking" => tracker = NewPlayoutTracker

\* A new tracker has no words.
LEMMA NewIsEmpty == NewPlayoutTracker.ends = << >> /\ NewPlayoutTracker.written = 0 /\ Len(<< >>) = 0
BY EmptySeq DEF NewPlayoutTracker

\* What the provider's chunks promise, the turn.TTS interface asks of it
\* (turn.go:79-81, a word's position in its chunk's audio), and the tracker
\* adds up: every word ends within what was written.
WordsInChunks == \A c \in Chunks : \A i \in 1..Len(c.ends) : c.ends[i] <= c.dur
WordsInside   == \A i \in 1..Len(tracker.ends) : tracker.ends[i] <= tracker.written

\* AddChunk keeps the words inside what was written (playout.go, AddChunk).
LEMMA AddedInside ==
  ASSUME WordsInChunks, WordsInside, tracker \in Trackers, NEW c \in Chunks,
         tracker' = AddChunk(tracker, c)
  PROVE  WordsInside'
<1> DEFINE shifted == [i \in 1..Len(c.ends) |-> c.ends[i] + tracker.written]
<1>1. /\ tracker.written \in Nat /\ tracker.ends \in Seq(Nat) /\ c.dur \in Nat /\ c.ends \in Seq(Nat)
      /\ Len(c.ends) \in Nat /\ Len(tracker.ends) \in Nat
  <2>1. tracker.written \in 0..MaxWritten /\ MaxWritten \in Nat /\ tracker.ends \in Seq(Nat)
    BY TurnAssumption DEF Trackers
  <2>2. QED
    BY <2>1, ChunkFields, LenProperties
<1>2. \A i \in 1..Len(c.ends) : c.ends[i] \in Nat /\ c.ends[i] <= c.dur
  BY <1>1, ElementOfSeq DEF WordsInChunks
<1>3. \A i \in 1..Len(tracker.ends) : tracker.ends[i] \in Nat /\ tracker.ends[i] <= tracker.written
  BY <1>1, ElementOfSeq DEF WordsInside
<1>4. shifted \in Seq(Nat) /\ Len(shifted) = Len(c.ends)
  <2>1. shifted \in [1..Len(c.ends) -> Nat]
    BY <1>1, <1>2
  <2>2. QED
    BY <1>1, <2>1, SeqDef, LenProperties
<1>5. \A i \in 1..Len(c.ends) : shifted[i] = c.ends[i] + tracker.written
  OBVIOUS
<1>6. tracker' = [written |-> tracker.written + c.dur, ends |-> tracker.ends \o shifted]
  BY Zenon DEF AddChunk, shifted
<1> HIDE DEF shifted
<1>7. /\ Len(tracker.ends \o shifted) = Len(tracker.ends) + Len(shifted)
      /\ \A i \in 1..(Len(tracker.ends) + Len(shifted)) :
           (tracker.ends \o shifted)[i] = IF i <= Len(tracker.ends) THEN tracker.ends[i]
                                          ELSE shifted[i - Len(tracker.ends)]
  BY <1>1, <1>4, ConcatProperties
<1>8. ASSUME NEW i \in 1..(Len(tracker.ends) + Len(shifted))
      PROVE  (tracker.ends \o shifted)[i] <= tracker.written + c.dur
  <2>1. CASE i <= Len(tracker.ends)
    <3>1. i \in 1..Len(tracker.ends) /\ (tracker.ends \o shifted)[i] = tracker.ends[i]
      BY <1>1, <1>4, <1>7, <1>8, <2>1
    <3>2. tracker.ends[i] \in Nat /\ tracker.ends[i] <= tracker.written
      BY <1>3, <3>1
    <3>3. QED
      BY <1>1, <3>1, <3>2
  <2>2. CASE ~(i <= Len(tracker.ends))
    <3>0. \A m, n \in Nat : \A k \in 1..(m + n) : ~(k <= m) => k - m \in 1..n
      OBVIOUS
    <3>1. PICK j \in 1..Len(c.ends) : j = i - Len(tracker.ends)
      BY <1>1, <1>4, <1>8, <2>2, <3>0
    <3>2. (tracker.ends \o shifted)[i] = shifted[j]
      BY <1>7, <1>8, <2>2, <3>1
    <3>3. shifted[j] = c.ends[j] + tracker.written /\ c.ends[j] \in Nat /\ c.ends[j] <= c.dur
      BY <1>2, <1>5
    <3>4. \A a, b, w \in Nat : a <= b => a + w <= w + b
      OBVIOUS
    <3>5. QED
      BY <1>1, <3>2, <3>3, <3>4
  <2>3. QED
    BY <2>1, <2>2
<1>9. tracker'.ends = tracker.ends \o shifted /\ tracker'.written = tracker.written + c.dur
  BY <1>6
<1>10. QED
  BY <1>7, <1>8, <1>9 DEF WordsInside

\* The variables' types that the next two theorems use.
LEMMA PlayoutTyped ==
  ASSUME TypeInv
  PROVE  /\ tracker \in Trackers /\ tracker.ends \in Seq(Nat) /\ tracker.written \in Nat
         /\ elapsed \in Nat /\ MaxWritten \in Nat /\ TextTyped /\ GoodLine(line)
         /\ line.heard \in Nat /\ line.queued \in Nat /\ line.heard <= line.queued
         /\ \A ms \in Nat : playedMs(ms) \in Nat /\ playedMs(ms) <= tracker.written
<1>1. /\ tracker \in Trackers /\ GoodLine(line) /\ TextTyped /\ elapsed \in 0..MaxWritten
      /\ MaxWritten \in Nat
  BY TurnAssumption DEF TypeInv, ClockTyped
<1>2. tracker.ends \in Seq(Nat) /\ tracker.written \in 0..MaxWritten
  BY <1>1 DEF Trackers
<1>3. tracker.written \in Nat /\ elapsed \in Nat
  BY <1>1, <1>2
<1>4. ASSUME NEW ms \in Nat
      PROVE  playedMs(ms) \in Nat /\ playedMs(ms) <= tracker.written
  BY <1>3 DEF playedMs, UpTo
<1>5. QED
  BY <1>1, <1>2, <1>3, <1>4, GoodLineFields

\* The clock of the utterance ticks to a number of frames.
LEMMA PlayedTyped ==
  ASSUME TypeInv, PlaysOut
  PROVE  elapsed' \in Nat /\ elapsed' <= elapsed + 1
         /\ playedMs(elapsed') \in Nat /\ playedMs(elapsed') <= tracker.written
<1>1. elapsed \in Nat /\ MaxWritten \in Nat
  BY PlayoutTyped
<1>2. \A x, m \in Nat : Tick(x, m) \in Nat /\ Tick(x, m) <= x + 1
  BY DEF Tick
<1>3. elapsed' = Tick(elapsed, MaxWritten)
  BY DEF PlaysOut
<1>4. elapsed' \in Nat /\ elapsed' <= elapsed + 1
  BY <1>1, <1>2, <1>3
<1>5. PICK e \in Nat : e = elapsed'
  BY <1>4
<1>6. playedMs(e) \in Nat /\ playedMs(e) <= tracker.written
  BY PlayoutTyped
<1>7. QED
  BY <1>4, <1>5, <1>6

\* The words and audible words of a hook.
LEMMA HookFields ==
  /\ \A w, a : AgentTurn(w, a, FALSE).words = w /\ AgentTurn(w, a, FALSE).audible = a
  /\ \A w, a : AgentTurn(w, a, TRUE).words = w /\ AgentTurn(w, a, TRUE).audible = a
  /\ \A w, a : AgentTurn(w, a, TRUE).interrupted
  /\ \A t : UserTurn(t).kind # "agentTurn"
  /\ \A h \in {NoHook, Filler} : h.kind # "agentTurn"
<1>1. \A b \in BOOLEAN : \A w, a :
        /\ [kind |-> "agentTurn", words |-> w, audible |-> a, interrupted |-> b].words = w
        /\ [kind |-> "agentTurn", words |-> w, audible |-> a, interrupted |-> b].audible = a
        /\ [kind |-> "agentTurn", words |-> w, audible |-> a, interrupted |-> b].interrupted = b
  OBVIOUS
<1>2. TRUE \in BOOLEAN /\ FALSE \in BOOLEAN
  OBVIOUS
<1>3. /\ \A w, a : AgentTurn(w, a, FALSE).words = w /\ AgentTurn(w, a, FALSE).audible = a
      /\ \A w, a : AgentTurn(w, a, TRUE).words = w /\ AgentTurn(w, a, TRUE).audible = a
      /\ \A w, a : AgentTurn(w, a, TRUE).interrupted
  BY <1>1, <1>2, Zenon DEF AgentTurn
<1>4. /\ \A t : UserTurn(t).kind # "agentTurn"
      /\ \A h \in {NoHook, Filler} : h.kind # "agentTurn"
  BY DEF UserTurn, NoHook, Filler
<1>5. QED
  BY <1>3, <1>4

\* Every agent turn that was completed holds all its words (machine.go,
\* completeAgentTurn), for every provider that keeps a word inside its chunk.
WholeInv == FreshThinking /\ WordsInside /\ CompletedTurnIsWhole

\* No step of the machine completes a turn without its words (completeAgentTurn,
\* onChunk, confirmBargeIn).
LEMMA WholeStep ==
  ASSUME WordsInChunks, TypeInv, WholeInv, [Next]_vars
  PROVE  WholeInv'
<1>0. FreshThinking /\ WordsInside /\ CompletedTurnIsWhole
  BY DEF WholeInv
<1>1. TrackerShape /\ HookShape
  BY NextTracker, NextHook, PlayoutTyped
<1>2. FreshThinking'
  BY <1>0, <1>1, Zenon DEF TrackerShape, FreshThinking
<1>3. WordsInside'
  <2>1. CASE tracker' = tracker
    BY <1>0, <2>1 DEF WordsInside
  <2>2. CASE tracker' = NewPlayoutTracker
    <3>1. Len(tracker'.ends) = 0
      BY <2>2, NewIsEmpty
    <3>2. QED
      BY <3>1 DEF WordsInside
  <2>3. ASSUME NEW c \in Chunks, tracker' = AddChunk(tracker, c)
        PROVE  WordsInside'
    BY <1>0, <2>3, AddedInside, PlayoutTyped
  <2>4. QED
    BY <1>1, <2>1, <2>2, <2>3 DEF TrackerShape
<1>4. CompletedTurnIsWhole'
  <2>0. PlaysOut => playedMs(elapsed') \in Nat /\ playedMs(elapsed') <= tracker.written
    BY PlayedTyped
  <2>1. CASE PlaysOut
    <3>1. PICK p \in Nat : p = playedMs(elapsed')
      BY <2>0, <2>1
    <3>2. p = tracker.written
      <4>1. p <= tracker.written
        BY <2>0, <2>1, <3>1
      <4>2. p >= tracker.written
        BY <2>1, <3>1 DEF PlaysOut
      <4>3. tracker.written \in Nat
        BY PlayoutTyped
      <4>4. QED
        BY <4>1, <4>2, <4>3
    <3>3. Spoken(tracker, p + PlayoutOffset) = Len(tracker.ends)
      <4>1. Spoken(tracker, p + PlayoutOffset) = WordsWithin(tracker.ends, p)
        BY OffsetCancels, PlayoutTyped
      <4>2. WordsWithin(tracker.ends, p) = Len(tracker.ends)
        BY <1>0, <3>2, WordsGrow, PlayoutTyped DEF WordsInside
      <4>3. QED
        BY <4>1, <4>2
    <3>4. out'.words = Spoken(tracker, p + PlayoutOffset)
      BY <2>1, <3>1, HookFields, Zenon DEF PlaysOut
    <3>5. tracker' = tracker
      BY <2>1 DEF PlaysOut
    <3>6. QED
      BY <3>3, <3>4, <3>5, Zenon DEF CompletedTurnIsWhole
  <2>2. CASE SaysNothing
    <3>1. PICK p \in Nat : p = playedMs(elapsed)
      BY PlayoutTyped
    <3>2. tracker.ends = << >> /\ Len(tracker.ends) = 0
      BY <1>0, <2>2, NewIsEmpty DEF SaysNothing, FreshThinking
    <3>3. Spoken(tracker, p + PlayoutOffset) = 0
      <4>1. Spoken(tracker, p + PlayoutOffset) = WordsWithin(tracker.ends, p)
        BY OffsetCancels, PlayoutTyped
      <4>2. WordsWithin(tracker.ends, p) = 0
        BY <3>2, WordsGrow, PlayoutTyped
      <4>3. QED
        BY <4>1, <4>2
    <3>4. out'.words = Spoken(tracker, p + PlayoutOffset)
      BY <2>2, <3>1, HookFields, Zenon DEF SaysNothing
    <3>5. tracker' = tracker
      BY <2>2 DEF SaysNothing
    <3>6. QED
      BY <3>2, <3>3, <3>4, <3>5, Zenon DEF CompletedTurnIsWhole
  <2>3. CASE IsCut
    <3>1. out'.interrupted
      BY <2>3, HookFields, Zenon DEF IsCut
    <3>2. QED
      BY <3>1, Zenon DEF CompletedTurnIsWhole
  <2>4. CASE out' \in {NoHook, Filler} \/ \E t \in Text : out' = UserTurn(t)
    <3>1. out'.kind # "agentTurn"
      BY <2>4, HookFields
    <3>2. QED
      BY <3>1, Zenon DEF CompletedTurnIsWhole
  <2>5. CASE UNCHANGED <<out, tracker, line>>
    BY <1>0, <2>5, Zenon DEF CompletedTurnIsWhole
  <2>6. QED
    BY <1>1, <2>1, <2>2, <2>3, <2>4, <2>5, Zenon DEF HookShape
<1>5. QED
  BY <1>2, <1>3, <1>4 DEF WholeInv

\* CompletedTurnIsWhole: an agent turn is never cut unless the caller barged
\* in, whatever the playout offset (machine.go, completeAgentTurn).  The
\* provider keeps every word inside its chunk; the tracker does not check it.
THEOREM CompletedTurnIsWholeTheorem ==
  ASSUME WordsInChunks
  PROVE  Spec => []CompletedTurnIsWhole
<1>1. Init => WholeInv
  <2>1. SUFFICES ASSUME Init
                 PROVE  WholeInv
    OBVIOUS
  <2>2. tracker = NewPlayoutTracker /\ out = NoHook
    BY <2>1, Zenon DEF Init
  <2>3. Len(tracker.ends) = 0 /\ out.kind # "agentTurn"
    BY <2>2, NewIsEmpty, HookFields
  <2>4. WordsInside
    BY <2>3 DEF WordsInside
  <2>5. QED
    BY <2>2, <2>3, <2>4, Zenon DEF WholeInv, FreshThinking, CompletedTurnIsWhole
<1>2. TypeInv /\ WholeInv /\ [Next]_vars => WholeInv'
  BY WholeStep
<1>3. WholeInv => CompletedTurnIsWhole
  BY DEF WholeInv
<1>4. QED
  BY <1>1, <1>2, <1>3, TypeInvTheorem, PTL DEF Spec

\* HeardWhenFed: as long as every tick of the utterance played one of its
\* frames, the line is never behind the machine's clock - or it has played
\* everything and synthesis is over.
FedInv ==
  /\ FreshThinking
  /\ ttsCh => ~ttsDone
  /\ running /\ state = "stSpeaking" /\ ~line.starved =>
       elapsed <= line.heard \/ (ttsDone /\ tracker.written <= line.heard)
  /\ HeardWhenFed

\* A tick that does not starve the utterance plays one of its frames, unless
\* all are played.
LEMMA TickFeeds ==
  ASSUME GoodLine(line), Speaking, ~Ticked.starved
  PROVE  /\ ~line.starved
         /\ Ticked.heard \in Nat
         /\ Ticked.heard = line.heard + 1 \/ (Ticked.heard = line.heard /\ PlayedOut)
<1> DEFINE s1 == line.starved \/ Speaking
           s2 == line.starved \/ (Speaking /\ ~PlayedOut)
<1>0. line.heard \in Nat
  BY GoodLineFields
<1>1. s1 \in BOOLEAN /\ s2 \in BOOLEAN /\ line.starved \in BOOLEAN
  BY GoodLineFields
<1>2. Ticked = IF line.backlog > 0 THEN Line(line.backlog - 1, line.queued, line.heard, s1)
               ELSE IF line.heard < line.queued
               THEN Line(0, line.queued, line.heard + 1, line.starved)
               ELSE Line(0, line.queued, line.heard, s2)
  BY Zenon DEF Ticked
<1>3. \A b, q, h : \A s \in BOOLEAN : Line(b, q, h, s).starved = s /\ Line(b, q, h, s).heard = h
  BY DEF Line
<1>4. s1
  OBVIOUS
<1>5. s2 <=> line.starved \/ ~PlayedOut
  OBVIOUS
<1> HIDE DEF s1, s2
<1>6. ~(line.backlog > 0)
  BY <1>1, <1>2, <1>3, <1>4, Zenon
<1>7. CASE line.heard < line.queued
  <2>1. Ticked = Line(0, line.queued, line.heard + 1, line.starved)
    BY <1>2, <1>6, <1>7, Zenon
  <2>a. Ticked.heard = line.heard + 1
    BY <1>1, <1>3, <2>1
  <2>b. Ticked.starved <=> line.starved
    BY <1>1, <1>3, <2>1, Zenon
  <2>2. Ticked.heard = line.heard + 1 /\ (Ticked.starved <=> line.starved)
    BY <2>a, <2>b
  <2>3. ~line.starved
    BY <2>2, Zenon
  <2>4. Ticked.heard \in Nat
    BY <1>0, <2>2
  <2>5. QED
    BY <2>2, <2>3, <2>4, Zenon
<1>8. CASE ~(line.heard < line.queued)
  <2>1. Ticked = Line(0, line.queued, line.heard, s2)
    BY <1>2, <1>6, <1>8, Zenon
  <2>a. Ticked.heard = line.heard
    BY <1>1, <1>3, <2>1
  <2>b. Ticked.starved <=> s2
    BY <1>1, <1>3, <2>1, Zenon
  <2>2. Ticked.heard = line.heard /\ (Ticked.starved <=> s2)
    BY <2>a, <2>b
  <2>3. ~line.starved /\ PlayedOut
    BY <1>5, <2>2, Zenon
  <2>4. QED
    BY <1>0, <2>2, <2>3, Zenon
<1>9. QED
  BY <1>7, <1>8

\* How a step leaves the agent speaking: a frame, the first chunk or a later
\* one, the end of synthesis; everything else leaves the utterance alone.
SpeakingShape ==
  \/ ~(running' /\ state' = "stSpeaking")
  \/ /\ running /\ state = "stSpeaking" /\ line' = Ticked /\ elapsed' = Tick(elapsed, MaxWritten)
     /\ UNCHANGED <<tracker, ttsDone>>
  \/ /\ state = "stThinking" /\ elapsed' = 0
     /\ \E c \in Chunks : line' \in ChunkOutcomes(Line(line.backlog, line.queued, line.heard, FALSE), c.dur)
  \/ /\ running /\ state = "stSpeaking" /\ ttsCh /\ elapsed' = elapsed
     /\ \E c \in Chunks : line' \in ChunkOutcomes(line, c.dur)
  \/ running /\ state = "stSpeaking" /\ UNCHANGED <<line, elapsed, tracker>> /\ (ttsDone => ttsDone')

\* Every step has one of these shapes, and synthesis is over once its channel
\* is dropped.
LEMMA NextSpeaking ==
  ASSUME [Next]_vars, ttsCh => ~ttsDone
  PROVE  SpeakingShape /\ (ttsCh' => ~ttsDone')
<1>1. ASSUME NEW loud, onFrame(loud)
      PROVE  SpeakingShape /\ (ttsCh' => ~ttsDone')
  <2>1. CASE ListeningFrame
    BY <2>1, Zenon DEF ListeningFrame, SpeakingShape, pipeVars
  <2>2. CASE EndpointingFrame
    <3>1. CASE finalizeUserTurn
      BY <3>1, <2>2, Zenon DEF finalizeUserTurn, startAgentTurn, pipelineUp, failTurn, SpeakingShape, pipeVars
    <3>2. CASE ~finalizeUserTurn
      BY <2>2, <3>2, Zenon DEF EndpointingFrame, SpeakingShape, pipeVars
    <3>3. QED
      BY <3>1, <3>2
  <2>3. CASE ThinkingFrame
    BY <2>3, Zenon DEF ThinkingFrame, rethink, cancelTurn, SpeakingShape, pipeVars
  <2>4. CASE SpeakingFrame
    <3>1. elapsed' = Tick(elapsed, MaxWritten) /\ running
      BY <1>1, <2>4, Zenon DEF onFrame, AdvanceClock, SpeakingFrame
    <3>2. QED
      BY <2>4, <3>1, Zenon DEF SpeakingFrame, maybeFinishSpeaking, completeAgentTurn, cancelTurn,
                              SpeakingShape, pipeVars
  <2>5. QED
    BY <1>1, <2>1, <2>2, <2>3, <2>4 DEF onFrame
<1>2. ASSUME NEW text, NEW final, NEW loc, onSTT(text, final, loc)
      PROVE  SpeakingShape /\ (ttsCh' => ~ttsDone')
  <2>0. UNCHANGED <<elapsed, tracker, running>>
    BY <1>2, Zenon DEF onSTT
  <2>1. CASE state' = "stListening" /\ cancelTurn
    BY <2>1, Zenon DEF SpeakingShape, cancelTurn
  <2>2. CASE state' = "stListening" /\ UNCHANGED pipeVars
    BY <2>2, Zenon DEF SpeakingShape, pipeVars
  <2>3. CASE UNCHANGED <<state, pipeVars, line>>
    BY <2>0, <2>3, Zenon DEF SpeakingShape, pipeVars
  <2>4. QED
    BY <1>2, <2>1, <2>2, <2>3, Zenon DEF onSTT, DraftSTT, ThinkingSTT, onSpeakingSTT, confirmBargeIn, rethink
<1>3. ASSUME NEW c \in Chunks, onChunk(c)
      PROVE  SpeakingShape /\ (ttsCh' => ~ttsDone')
  <2>1. UNCHANGED <<ttsCh, ttsDone>> /\ ttsCh /\ running
    BY <1>3, Zenon DEF onChunk
  <2>2. CASE state = "stThinking"
    <3>1. /\ elapsed' = 0
          /\ line' \in ChunkOutcomes(Line(line.backlog, line.queued, line.heard, FALSE), c.dur)
      BY <1>3, <2>2 DEF onChunk
    <3>2. QED
      BY <2>1, <2>2, <3>1, Zenon DEF SpeakingShape
  <2>3. CASE state # "stThinking"
    <3>1. elapsed' = elapsed /\ state' = state /\ line' \in ChunkOutcomes(line, c.dur)
      BY <1>3, <2>3 DEF onChunk
    <3>2. QED
      BY <2>1, <2>3, <3>1, Zenon DEF SpeakingShape
  <2>4. QED
    BY <2>2, <2>3
<1>4. CASE onChunkClosed
  <2>1. running /\ UNCHANGED <<elapsed, tracker>>
    BY <1>4, Zenon DEF onChunkClosed, clockVars
  <2>2. CASE state = "stThinking"
    <3>1. ttsCh' = FALSE /\ state' = "stListening"
      BY <1>4, <2>2 DEF onChunkClosed, completeAgentTurn, cancelTurn
    <3>2. QED
      BY <3>1, Zenon DEF SpeakingShape
  <2>3. CASE state # "stThinking"
    <3>1. ttsCh' = FALSE /\ ttsDone' = TRUE /\ state' = state /\ line' = line
      BY <1>4, <2>3 DEF onChunkClosed
    <3>2. QED
      BY <2>1, <3>1, Zenon DEF SpeakingShape
  <2>4. QED
    BY <2>2, <2>3
<1>5. CASE STTClosed \/ onFiller
  <2>1. UNCHANGED <<state, elapsed, tracker, ttsCh, ttsDone, running>> /\ running
    BY <1>5, Zenon DEF STTClosed, onFiller, pipeVars, clockVars
  <2>2. state = "stSpeaking" => line' = line
    BY <1>5 DEF STTClosed, onFiller
  <2>3. QED
    BY <2>1, <2>2, Zenon DEF SpeakingShape
<1>6. CASE RunReturns
  BY <1>6, Zenon DEF RunReturns, cancelTurn, SpeakingShape
<1>7. CASE UNCHANGED vars
  BY <1>7, Zenon DEF vars, SpeakingShape, pipeVars, clockVars
<1>8. QED
  BY <1>1, <1>2, <1>3, <1>4, <1>5, <1>6, <1>7, Zenon DEF Next, Frames, STT, TTSChunk

\* What leaving the utterance, cutting it or writing a chunk does not change:
\* whether the line was starved, and what it has played.
LEMMA LineKeeps ==
  ASSUME NEW l, GoodLine(l), NEW d \in Nat
  PROVE  /\ EndUtterance(l).starved <=> l.starved
         /\ \A k \in FlushOutcomes(l) : k.starved <=> l.starved
         /\ \A k \in ChunkOutcomes(l, d) : (k.starved <=> l.starved) /\ k.heard = l.heard
<1>1. l.starved \in BOOLEAN
  BY GoodLineFields
<1>2. \A b, q, h : \A s \in BOOLEAN : Line(b, q, h, s).starved = s
  BY DEF Line
<1>3. \A b, q, h : \A s \in BOOLEAN : Line(b, q, h, s).heard = h
  BY DEF Line
<1>4. EndUtterance(l).starved <=> l.starved
  BY <1>1, <1>2, Zenon DEF EndUtterance
<1>5. Flush(l).starved <=> l.starved
  BY <1>1, <1>2, Zenon DEF Flush
<1>6. WriteChunk(l, d).starved <=> l.starved
  BY <1>1, <1>2, Zenon DEF WriteChunk
<1>7. WriteChunk(l, d).heard = l.heard
  BY <1>1, <1>3 DEF WriteChunk
<1>8. \A k \in FlushOutcomes(l) : k = Flush(l) \/ k = EndUtterance(l)
  BY Zenon DEF FlushOutcomes
<1>9. \A k \in ChunkOutcomes(l, d) : k = WriteChunk(l, d) \/ k = l
  BY Zenon DEF ChunkOutcomes
<1>10. \A k \in FlushOutcomes(l) : k.starved <=> l.starved
  BY <1>4, <1>5, <1>8, Zenon
<1>11. \A k \in ChunkOutcomes(l, d) : k.starved <=> l.starved
  BY <1>6, <1>9, Zenon
<1>12. \A k \in ChunkOutcomes(l, d) : k.heard = l.heard
  BY <1>7, <1>9, Zenon
<1>13. QED
  BY <1>4, <1>10, <1>11, <1>12, Zenon

\* The line stays with the clock.
LEMMA SpeakingStep ==
  ASSUME TypeInv, FedInv, SpeakingShape,
         running', state' = "stSpeaking", ~line'.starved
  PROVE  elapsed' <= line'.heard \/ (ttsDone' /\ tracker'.written <= line'.heard)
<1>0. /\ line.heard \in Nat /\ elapsed \in Nat /\ MaxWritten \in Nat /\ GoodLine(line)
      /\ tracker.written \in Nat
  BY PlayoutTyped
<1>1. running /\ state = "stSpeaking" /\ ~line.starved =>
        elapsed <= line.heard \/ (ttsDone /\ tracker.written <= line.heard)
  BY Zenon DEF FedInv
<1>2. CASE /\ running /\ state = "stSpeaking" /\ line' = Ticked /\ elapsed' = Tick(elapsed, MaxWritten)
           /\ UNCHANGED <<tracker, ttsDone>>
  <2>1. ~line.starved /\ Ticked.heard \in Nat
        /\ (Ticked.heard = line.heard + 1 \/ (Ticked.heard = line.heard /\ PlayedOut))
    BY <1>0, <1>2, TickFeeds DEF Speaking
  <2>2. elapsed' \in Nat /\ elapsed' <= elapsed + 1
    BY <1>0, <1>2 DEF Tick
  <2>3. CASE Ticked.heard = line.heard /\ PlayedOut
    <3>1. ttsDone /\ tracker.written <= Ticked.heard
      BY <1>0, <2>3 DEF PlayedOut
    <3>2. QED
      BY <1>2, <3>1
  <2>4. CASE Ticked.heard = line.heard + 1
    <3>1. CASE elapsed <= line.heard
      <4>1. elapsed' <= Ticked.heard
        BY <1>0, <2>2, <2>4, <3>1
      <4>2. QED
        BY <1>2, <4>1
    <3>2. CASE ttsDone /\ tracker.written <= line.heard
      <4>1. tracker.written <= Ticked.heard
        BY <1>0, <2>4, <3>2
      <4>2. QED
        BY <1>2, <3>2, <4>1
    <3>3. QED
      BY <1>1, <1>2, <2>1, <3>1, <3>2
  <2>5. QED
    BY <2>1, <2>3, <2>4
<1>3. ASSUME state = "stThinking", elapsed' = 0, NEW c \in Chunks,
             line' \in ChunkOutcomes(Line(line.backlog, line.queued, line.heard, FALSE), c.dur)
      PROVE  elapsed' <= line'.heard
  <2>1. FALSE \in BOOLEAN /\ c.dur \in Nat
    BY ChunkFields
  <2>2. GoodLine(Line(line.backlog, line.queued, line.heard, FALSE))
    BY <1>0, <2>1, GoodLineFields, LineMade, Zenon
  <2>3. GoodLine(line')
    BY <1>3, <2>1, <2>2, LineOutcomes
  <2>4. line'.heard \in Nat
    BY <2>3, GoodLineFields
  <2>5. QED
    BY <1>3, <2>4
<1>4. ASSUME running, state = "stSpeaking", ttsCh, elapsed' = elapsed, NEW c \in Chunks,
             line' \in ChunkOutcomes(line, c.dur)
      PROVE  elapsed' <= line'.heard
  <2>1. c.dur \in Nat
    BY ChunkFields
  <2>2. (line'.starved <=> line.starved) /\ line'.heard = line.heard
    BY <1>0, <1>4, <2>1, LineKeeps, Zenon
  <2>3. ~ttsDone
    BY <1>4, Zenon DEF FedInv
  <2>4. QED
    BY <1>1, <1>4, <2>2, <2>3
<1>5. CASE running /\ state = "stSpeaking" /\ UNCHANGED <<line, elapsed, tracker>> /\ (ttsDone => ttsDone')
  BY <1>1, <1>5
<1>6. QED
  BY <1>2, <1>3, <1>4, <1>5, Zenon DEF SpeakingShape

\* History holds only what was heard, when the line kept up.
LEMMA HeardStep ==
  ASSUME TypeInv, FedInv, HookShape
  PROVE  HeardWhenFed'
<1>0. /\ tracker \in Trackers /\ tracker.ends \in Seq(Nat) /\ tracker.written \in Nat
      /\ elapsed \in Nat /\ GoodLine(line) /\ line.heard \in Nat /\ 0 \in Nat
  BY PlayoutTyped
<1>1. running /\ state = "stSpeaking" /\ ~line.starved =>
        elapsed <= line.heard \/ (ttsDone /\ tracker.written <= line.heard)
  BY Zenon DEF FedInv
<1>2. \A ms \in Nat : /\ playedMs(ms) \in Nat /\ playedMs(ms) <= tracker.written
                      /\ playedMs(ms) <= ms
  <2>1. \A ms \in Nat : playedMs(ms) \in Nat /\ playedMs(ms) <= tracker.written
    BY PlayoutTyped
  <2>2. \A ms \in Nat : playedMs(ms) <= ms
    BY <1>0 DEF playedMs, UpTo
  <2>3. QED
    BY <2>1, <2>2
<1>3. CASE PlaysOut
  <2>1. SUFFICES ASSUME ~line'.starved
                 PROVE  out'.words <= out'.audible
    BY Zenon DEF HeardWhenFed
  <2>2. GoodLine(Ticked) /\ line' = EndUtterance(Ticked)
    BY <1>0, <1>3, TickStep DEF PlaysOut
  <2>3. ~Ticked.starved
    BY <1>0, <2>1, <2>2, LineKeeps, Zenon
  <2>4. /\ ~line.starved /\ Ticked.heard \in Nat
        /\ Ticked.heard = line.heard + 1 \/ (Ticked.heard = line.heard /\ PlayedOut)
    BY <1>0, <1>3, <2>3, TickFeeds DEF PlaysOut, Speaking
  <2>5. elapsed' \in Nat /\ elapsed' <= elapsed + 1
    BY <1>3, PlayedTyped
  <2>6. PICK p \in Nat : p = playedMs(elapsed') /\ p <= tracker.written /\ p <= elapsed'
    <3>1. PICK e \in Nat : e = elapsed'
      BY <2>5
    <3>2. QED
      BY <1>2, <3>1
  <2>7. p <= Ticked.heard
    <3>1. elapsed <= line.heard \/ tracker.written <= line.heard
      BY <1>1, <1>3, <2>4, Zenon DEF PlaysOut
    <3>2. CASE Ticked.heard = line.heard + 1
      BY <1>0, <2>4, <2>5, <2>6, <3>1, <3>2
    <3>3. CASE Ticked.heard = line.heard /\ PlayedOut
      BY <1>0, <2>4, <2>6, <3>3 DEF PlayedOut
    <3>4. QED
      BY <2>4, <3>2, <3>3
  <2>8. Spoken(tracker, p + PlayoutOffset) = WordsWithin(tracker.ends, p)
    BY <1>0, OffsetCancels
  <2>9. WordsWithin(tracker.ends, p) <= WordsWithin(tracker.ends, Ticked.heard)
    BY <1>0, <2>4, <2>7, WordsGrow
  <2>10. /\ out'.words = Spoken(tracker, p + PlayoutOffset)
         /\ out'.audible = WordsWithin(tracker.ends, Ticked.heard)
    BY <1>3, <2>6, HookFields, Zenon DEF PlaysOut
  <2>11. QED
    BY <2>8, <2>9, <2>10
<1>4. CASE SaysNothing
  <2>1. PICK p \in Nat : p = playedMs(elapsed)
    BY <1>0, <1>2
  <2>2. Len(tracker.ends) = 0
    BY <1>4, NewIsEmpty DEF SaysNothing, FedInv, FreshThinking
  <2>3. Spoken(tracker, p + PlayoutOffset) = 0 /\ WordsWithin(tracker.ends, line.heard) = 0
    <3>1. Spoken(tracker, p + PlayoutOffset) = WordsWithin(tracker.ends, p)
      BY <1>0, OffsetCancels
    <3>2. WordsWithin(tracker.ends, p) = 0 /\ WordsWithin(tracker.ends, line.heard) = 0
      BY <1>0, <2>2, WordsGrow
    <3>3. QED
      BY <3>1, <3>2
  <2>4. /\ out'.words = Spoken(tracker, p + PlayoutOffset)
        /\ out'.audible = WordsWithin(tracker.ends, line.heard)
    BY <1>4, <2>1, HookFields, Zenon DEF SaysNothing
  <2>5. out'.words <= out'.audible
    BY <2>3, <2>4
  <2>6. QED
    BY <2>5, Zenon DEF HeardWhenFed
<1>5. CASE IsCut
  <2>1. SUFFICES ASSUME ~line'.starved
                 PROVE  out'.words <= out'.audible
    BY Zenon DEF HeardWhenFed
  <2>2. ~line.starved
    BY <1>0, <1>5, <2>1, LineKeeps, Zenon DEF IsCut
  <2>3. PICK p \in Nat : p = playedMs(elapsed) /\ p <= tracker.written /\ p <= elapsed
    BY <1>0, <1>2
  <2>4. elapsed <= line.heard \/ tracker.written <= line.heard
    BY <1>1, <1>5, <2>2, Zenon DEF IsCut
  <2>5. p <= line.heard
    BY <1>0, <2>3, <2>4
  <2>6. Spoken(tracker, p) <= Spoken(tracker, line.heard)
    <3>1. PlayoutOffset \in Nat
      BY BoundsTyped
    <3>a. \A x, o \in Nat : (IF x > o THEN x - o ELSE 0) \in Nat
      OBVIOUS
    <3>b. (IF p > PlayoutOffset THEN p - PlayoutOffset ELSE 0) \in Nat
          /\ (IF line.heard > PlayoutOffset THEN line.heard - PlayoutOffset ELSE 0) \in Nat
      BY <1>0, <3>1, <3>a
    <3>2. PICK a \in Nat : a = IF p > PlayoutOffset THEN p - PlayoutOffset ELSE 0
      BY <3>b, Zenon
    <3>3. PICK b \in Nat : b = IF line.heard > PlayoutOffset THEN line.heard - PlayoutOffset ELSE 0
      BY <3>b, Zenon
    <3>4. a <= b
      BY <1>0, <2>5, <3>1, <3>2, <3>3
    <3>5. Spoken(tracker, p) = WordsWithin(tracker.ends, a)
          /\ Spoken(tracker, line.heard) = WordsWithin(tracker.ends, b)
      BY <3>2, <3>3, Zenon DEF Spoken
    <3>6. QED
      BY <1>0, <3>4, <3>5, WordsGrow
  <2>7. out'.words = Spoken(tracker, p) /\ out'.audible = Spoken(tracker, line.heard)
    BY <1>5, <2>3, HookFields, ZenonT(60) DEF IsCut
  <2>8. QED
    BY <2>6, <2>7
<1>6. CASE out' \in {NoHook, Filler} \/ \E t \in Text : out' = UserTurn(t)
  <2>1. out'.kind # "agentTurn"
    BY <1>6, HookFields
  <2>2. QED
    BY <2>1, Zenon DEF HeardWhenFed
<1>7. CASE UNCHANGED <<out, tracker, line>>
  BY <1>7, Zenon DEF HeardWhenFed, FedInv
<1>8. QED
  BY <1>3, <1>4, <1>5, <1>6, <1>7, Zenon DEF HookShape

\* HeardWhenFed: history never holds a word the caller had not heard, for
\* every chunk, offset and barge-in, as long as the line played a frame of
\* the utterance in each of its ticks (playout.go, Spoken).
THEOREM HeardWhenFedTheorem == Spec => []HeardWhenFed
<1>1. Init => FedInv
  <2>1. SUFFICES ASSUME Init
                 PROVE  FedInv
    OBVIOUS
  <2>2. state = "stListening" /\ ttsCh = FALSE /\ out = NoHook
    BY <2>1, Zenon DEF Init
  <2>3. out.kind # "agentTurn" /\ state # "stThinking" /\ state # "stSpeaking"
    BY <2>2, HookFields
  <2>4. QED
    BY <2>2, <2>3, Zenon DEF FedInv, FreshThinking, HeardWhenFed
<1>2. ASSUME TypeInv, FedInv, [Next]_vars
      PROVE  FedInv'
  <2>1. HookShape /\ TrackerShape /\ SpeakingShape /\ (ttsCh' => ~ttsDone')
    BY <1>2, NextHook, NextTracker, NextSpeaking, PlayoutTyped, Zenon DEF FedInv
  <2>2. FreshThinking'
    BY <1>2, <2>1, Zenon DEF TrackerShape, FreshThinking, FedInv
  <2>3. HeardWhenFed'
    BY <1>2, <2>1, HeardStep
  <2>4. running' /\ state' = "stSpeaking" /\ ~line'.starved =>
          elapsed' <= line'.heard \/ (ttsDone' /\ tracker'.written <= line'.heard)
    BY <1>2, <2>1, SpeakingStep
  <2>5. QED
    BY <2>1, <2>2, <2>3, <2>4, Zenon DEF FedInv
<1>3. FedInv => HeardWhenFed
  BY DEF FedInv
<1>4. QED
  BY <1>1, <1>2, <1>3, TypeInvTheorem, PTL DEF Spec
=============================================================================
