--------------------------- MODULE AsteriskProofs ---------------------------
(***************************************************************************)
(* Theorems about Asterisk, for any number of channels, playbacks,         *)
(* refusals, crashes and drains: the drain is honest, the recovery leaves  *)
(* nobody in silence, and a barge-in can stop what is playing.             *)
(***************************************************************************)
EXTENDS Asterisk, SequenceTheorems, TLAPS
-----------------------------------------------------------------------------
(* Types.                                                                  *)

Types     == {"StasisStart", "StasisEnd", "PlaybackFinished"}
Events    == [type : Types, ch : Channels, id : Nat]
Playbacks == [ch : Channels, id : Nat, by : Nat]
Calls     == [does : {"nothing", "play", "release"}, id : Nat]
Cuts      == [on : BOOLEAN, ids : SUBSET Nat]
Drains    == [active : SUBSET Channels, draining : BOOLEAN, empty : {"none", "open", "closed"},
              at : {"no", "waiting", "drained", "timed out"}, before : SUBSET Channels]
BootSteps == {"over", "failed", "list", "next", "clip", "orphan", "stale"}
Statuses  == {"", "none", "active", "finished"}
Reports   == {"", "resumed", "orphan", "stale"}
Boots     == [at : BootSteps, listed : SUBSET Channels, todo : SUBSET Channels,
              ch : SUBSET Channels, found : [Channels -> Statuses],
              report : [Channels -> Reports]]

LineTypes ==
  /\ channel \in [Channels -> {"none", "up", "gone"}]
  /\ playing \in SUBSET Playbacks /\ events \in Seq(Events)

ControlTypes ==
  /\ pbSeq \in Nat /\ crashes \in Nat
  /\ tracked \in [Channels -> SUBSET Nat]
  /\ calls \in [Channels -> Calls] /\ cuts \in [Channels -> Cuts]

TypeInv == LineTypes /\ ControlTypes /\ drainer \in Drains /\ boot \in Boots

\* What a step may do to the lines: nothing; a channel starts, leaves; a
\* playback starts, ends; an event is taken; the events are lost.
Starts(c) == /\ channel[c] = "none" /\ channel' = [channel EXCEPT ![c] = "up"]
             /\ events' = Append(events, Event("StasisStart", c, 0)) /\ UNCHANGED playing
Plays(c)  == /\ channel[c] = "up" /\ UNCHANGED <<channel, events>>
             /\ playing' = playing \cup {[ch |-> c, id |-> pbSeq + 1, by |-> crashes]}
             /\ pbSeq' = pbSeq + 1
Ends(c, id) == /\ \E p \in playing : p.ch = c /\ p.id = id /\ playing' \in SUBSET (playing \ {p})
               /\ UNCHANGED channel
               /\ events' = Append(events, Event("PlaybackFinished", c, id))
Takes     == events # << >> /\ events' = Tail(events) /\ UNCHANGED <<channel, playing>>
Loses     == events' = << >> /\ UNCHANGED <<channel, playing>>

\* An event is made of its type, channel and id.
LEMMA EventTyped ==
  ASSUME NEW t \in Types, NEW c \in Channels, NEW id \in Nat
  PROVE  /\ Event(t, c, id) \in Events /\ Event(t, c, id).type = t
         /\ Event(t, c, id).ch = c /\ Event(t, c, id).id = id
BY DEF Event, Events

\* Each of these keeps the lines' types, and says what the queue becomes.
LEMMA Announced ==
  ASSUME events \in Seq(Events), NEW e \in Events, events' = Append(events, e)
  PROVE  /\ events' \in Seq(Events) /\ Len(events) \in Nat /\ Len(events') = Len(events) + 1
         /\ \A i \in 1..Len(events) : events'[i] = events[i]
         /\ events'[Len(events) + 1] = e
BY AppendProperties, LenProperties

\* Taking an event shifts the queue by one.
LEMMA Taken ==
  ASSUME events \in Seq(Events), Takes
  PROVE  /\ events' \in Seq(Events) /\ Len(events) \in Nat \ {0} /\ Len(events') = Len(events) - 1
         /\ \A i \in 1..Len(events') : events'[i] = events[i + 1]
         /\ Head(events) = events[1] /\ Head(events) \in Events
<1>1. events # << >>
  BY DEF Takes
<1>2. Len(events) \in Nat \ {0}
  BY <1>1, EmptySeq
<1>3. Head(events) = events[1]
  BY <1>1 
<1>4. QED
  BY <1>1, <1>2, <1>3, HeadTailProperties DEF Takes

\* Whatever a step does to the lines keeps their types.
LEMMA LinesTyped ==
  ASSUME LineTypes, pbSeq \in Nat, crashes \in Nat, NEW c \in Channels, NEW id \in Nat,
         Starts(c) \/ Leaves(c) \/ Plays(c) \/ Ends(c, id) \/ Takes \/ Loses \/ UNCHANGED asterisk
  PROVE  LineTypes'
<1>1. CASE Starts(c)
  <2>1. Event("StasisStart", c, 0) \in Events
    BY EventTyped DEF Types
  <2>2. QED
    BY <1>1, <2>1, Announced DEF Starts, LineTypes
<1>2. CASE Leaves(c)
  <2>1. Event("StasisEnd", c, 0) \in Events
    BY EventTyped DEF Types
  <2>2. QED
    BY <1>2, <2>1, Announced DEF Leaves, LineTypes
<1>3. CASE Plays(c)
  <2>1. [ch |-> c, id |-> pbSeq + 1, by |-> crashes] \in Playbacks
    BY DEF Playbacks
  <2>2. QED
    BY <1>3, <2>1 DEF Plays, LineTypes
<1>4. CASE Ends(c, id)
  <2>1. Event("PlaybackFinished", c, id) \in Events
    BY EventTyped DEF Types
  <2>2. QED
    BY <1>4, <2>1, Announced DEF Ends, LineTypes
<1>5. CASE Takes
  BY <1>5, Taken DEF Takes, LineTypes
<1>6. CASE Loses
  BY <1>6, EmptySeq DEF Loses, LineTypes
<1>7. CASE UNCHANGED asterisk
  BY <1>7 DEF asterisk, LineTypes
<1>8. QED
  BY <1>1, <1>2, <1>3, <1>4, <1>5, <1>6, <1>7
-----------------------------------------------------------------------------
(* The drainer, field by field.                                            *)

Begun(d, b, a, e) == [d EXCEPT !.draining = b, !.before = d.active, !.at = a, !.empty = e]

\* A call that starts is added, one that ends is taken out and may release
\* the drain; the rest of the drainer stays (drain.go, CallStarted, CallEnded).
LEMMA CallFields ==
  ASSUME drainer \in Drains, NEW c \in Channels, CallStarted(c) \/ CallEnded(c)
  PROVE  /\ drainer' \in Drains
         /\ drainer'.draining = drainer.draining /\ drainer'.at = drainer.at
         /\ drainer'.before = drainer.before
         /\ CallStarted(c) => drainer'.active = drainer.active \cup {c} /\ drainer'.empty = drainer.empty
         /\ CallEnded(c) =>
              /\ drainer'.active = drainer.active \ {c}
              /\ drainer'.empty = IF drainer.draining /\ drainer'.active = {} /\ drainer.empty = "open"
                                  THEN "closed" ELSE drainer.empty
<1>1. CASE CallStarted(c)
  BY <1>1 DEF CallStarted, CallEnded, Drains
<1>2. CASE CallEnded(c)
  BY <1>2 DEF CallStarted, CallEnded, Drains
<1>3. QED
  BY <1>1, <1>2
-----------------------------------------------------------------------------
(* What each step does to the lines, with what it does to the drainer.     *)

Grows ==
  \/ \E c \in Channels, id \in Nat : Starts(c) \/ Leaves(c) \/ Plays(c) \/ Ends(c, id)
  \/ UNCHANGED asterisk

\* A command that makes a channel leave, or does nothing to the lines.
LEMMA CommandedGrows ==
  ASSUME NEW c \in Channels, Commanded(c)
  PROVE  Grows
<1>1. 0 \in Nat
  OBVIOUS
<1>2. QED
  BY <1>1, Zenon DEF Commanded, Grows

\* A playback that is stopped is reported finished (callcontrol.go, StopPlayback).
LEMMA StopGrows ==
  ASSUME LineTypes, NEW c \in Channels, StopPlayback(c)
  PROVE  Grows
<1>1. PICK id \in cuts[c].ids :
        LET here == {p \in playing : p.ch = c /\ p.id = id} IN
        \/ here # {} /\ playing' = playing \ here
           /\ events' = Append(events, Event("PlaybackFinished", c, id))
        \/ UNCHANGED <<playing, events>>
  BY Zenon DEF StopPlayback
<1>2. UNCHANGED channel
  BY DEF StopPlayback
<1>3. CASE UNCHANGED <<playing, events>>
  BY <1>2, <1>3 DEF Grows, asterisk
<1>4. CASE LET here == {p \in playing : p.ch = c /\ p.id = id} IN
           here # {} /\ playing' = playing \ here
           /\ events' = Append(events, Event("PlaybackFinished", c, id))
  <2>1. PICK p \in playing : p.ch = c /\ p.id = id
    BY <1>4
  <2>2. id \in Nat
    BY <2>1 DEF LineTypes, Playbacks
  <2>3. Ends(c, id)
    BY <1>2, <1>4, <2>1 DEF Ends
  <2>4. QED
    BY <2>2, <2>3 DEF Grows
<1>5. QED
  BY <1>1, <1>3, <1>4

\* A playback that Asterisk starts gets the next id; else the lines stay.
LEMMA PlaybackGrows ==
  ASSUME NEW c \in Channels, Playback(c)
  PROVE  Grows
<1>1. 0 \in Nat
  OBVIOUS
<1>2. CASE Plays(c)
  BY <1>1, <1>2 DEF Grows
<1>3. CASE UNCHANGED asterisk
  BY <1>3 DEF Grows
<1>4. QED
  BY <1>2, <1>3, Zenon DEF Playback, Plays, asterisk

\* Only the event handler takes an event, only a crash loses them; every
\* other step announces at most one thing.  The drainer changes only in its
\* own steps, the event handler and a crash.
LEMMA StepShape ==
  ASSUME LineTypes, boot \in Boots, [Next]_vars
  PROVE  \/ HandleEvent
         \/ Crash
         \/ Drain \/ DrainWakes \/ DrainTimesOut
         \/ Grows /\ UNCHANGED drainer
<1>0. 0 \in Nat
  OBVIOUS
<1>1. ASSUME NEW c \in Channels, StasisStart(c) \/ CallerHangsUp(c)
      PROVE  Grows /\ UNCHANGED drainer
  BY <1>0, <1>1, Zenon DEF StasisStart, CallerHangsUp, Grows, Starts
<1>2. ASSUME NEW c \in Channels, Playback(c)
      PROVE  Grows /\ UNCHANGED drainer
  BY <1>2, PlaybackGrows DEF Playback
<1>3. ASSUME NEW c \in Channels, Track(c) \/ Release(c) \/ FlushPlayback(c) \/ FlushReturns(c)
      PROVE  Grows /\ UNCHANGED drainer
  BY <1>3, Zenon DEF Track, Release, FlushPlayback, FlushReturns, Grows
<1>4. ASSUME NEW c \in Channels, Hangup(c)
      PROVE  Grows /\ UNCHANGED drainer
  BY <1>4, CommandedGrows, Zenon DEF Hangup
<1>5. ASSUME NEW c \in Channels, StopPlayback(c)
      PROVE  Grows /\ UNCHANGED drainer
  BY <1>5, StopGrows DEF StopPlayback
<1>6. ASSUME NEW p \in playing, PlaybackEnds(p)
      PROVE  Grows /\ UNCHANGED drainer
  <2>1. p.ch \in Channels /\ p.id \in Nat
    BY DEF LineTypes, Playbacks
  <2>2. Ends(p.ch, p.id)
    BY <1>6 DEF PlaybackEnds, Ends
  <2>3. QED
    BY <1>6, <2>1, <2>2 DEF Grows, PlaybackEnds
<1>7. ASSUME LiveChannels \/ rehydrateChannel \/ Reanchor \/ BootOver
      PROVE  Grows /\ UNCHANGED drainer
  BY <1>7, Zenon DEF LiveChannels, rehydrateChannel, Found, Reanchor, BootOver, Recovering, Grows
<1>8. ASSUME LetGo, boot \in Boots
      PROVE  Grows /\ UNCHANGED drainer
  <2>1. PICK c \in boot.ch : Commanded(c) /\ UNCHANGED drainer
    BY <1>8, Zenon DEF LetGo, Recovering
  <2>2. c \in Channels
    BY <1>8 DEF Boots
  <2>3. QED
    BY <2>1, <2>2, CommandedGrows
<1>9. ASSUME UNCHANGED vars
      PROVE  Grows /\ UNCHANGED drainer
  BY <1>9 DEF vars, Grows
<1>10. QED
  BY <1>1, <1>2, <1>3, <1>4, <1>5, <1>6, <1>7, <1>8, <1>9, Zenon DEF Next
-----------------------------------------------------------------------------
(* Types are kept.                                                         *)

\* A flush is made of whether it runs and the ids it still has to stop.
LEMMA FlushFields ==
  ASSUME NEW k \in Cuts, NEW on \in BOOLEAN, NEW ids \in SUBSET Nat
  PROVE  /\ [on |-> on, ids |-> ids] \in Cuts
         /\ [k EXCEPT !.on = on] \in Cuts /\ [k EXCEPT !.ids = ids] \in Cuts
BY DEF Cuts

\* The state of a process that has just started.
LEMMA FreshTyped ==
  /\ Quiet \in [Channels -> Calls] /\ NoCuts \in [Channels -> Cuts]
  /\ NewDrainer \in Drains /\ Booted \in Boots /\ [Booted EXCEPT !.at = "list"] \in Boots
<1>0. FALSE \in BOOLEAN /\ 0 \in Nat /\ {} \in SUBSET Nat /\ {} \in SUBSET Channels
  OBVIOUS
<1>1. Quiet \in [Channels -> Calls]
  BY <1>0 DEF Quiet, Calls
<1>2. ASSUME NEW f \in BOOLEAN
      PROVE  /\ [c \in Channels |-> [on |-> f, ids |-> {}]] \in [Channels -> Cuts]
             /\ [active |-> {}, draining |-> f, empty |-> "none", at |-> "no", before |-> {}] \in Drains
  BY <1>0 DEF Cuts, Drains
<1>3. NoCuts \in [Channels -> Cuts] /\ NewDrainer \in Drains
  BY <1>0, <1>2, Zenon DEF NoCuts, NewDrainer
<1>4. Unknown \in [Channels -> Reports] /\ Unknown \in [Channels -> Statuses]
  BY DEF Unknown, Reports, Statuses
<1>5. Booted \in Boots
  BY <1>0, <1>4 DEF Booted, Boots, BootSteps
<1>6. [Booted EXCEPT !.at = "list"] \in Boots
  BY <1>5 DEF Boots, BootSteps
<1>7. QED
  BY <1>1, <1>3, <1>5, <1>6

\* What Drain, its end and the event handler do to the drainer, by field.
DrainBegins ==
  /\ drainer.at = "no" /\ drainer'.draining = TRUE /\ drainer'.before = drainer.active
  /\ drainer'.active = drainer.active
  /\ drainer.active = {} => drainer'.at = "drained" /\ drainer'.empty = drainer.empty
  /\ drainer.active # {} => drainer'.at = "waiting" /\ drainer'.empty = "open"
DrainStops ==
  /\ drainer.at = "waiting" /\ drainer'.at \in {"drained", "timed out"}
  /\ drainer'.at = "drained" => drainer.empty = "closed"
  /\ drainer'.active = drainer.active /\ drainer'.draining = drainer.draining
  /\ drainer'.before = drainer.before /\ drainer'.empty = drainer.empty

\* The drain's steps keep the drainer's type, and do what these say.
LEMMA DrainSteps ==
  ASSUME drainer \in Drains, Drain \/ DrainWakes \/ DrainTimesOut
  PROVE  drainer' \in Drains /\ (DrainBegins \/ DrainStops)
<1>1. CASE Drain
  <2>1. drainer' = Begun(drainer, TRUE, IF drainer.active = {} THEN "drained" ELSE "waiting",
                         IF drainer.active = {} THEN drainer.empty ELSE "open")
    BY <1>1, Zenon DEF Drain, Begun
  <2>2. /\ (IF drainer.active = {} THEN "drained" ELSE "waiting") \in {"no", "waiting", "drained", "timed out"}
        /\ (IF drainer.active = {} THEN drainer.empty ELSE "open") \in {"none", "open", "closed"}
    BY DEF Drains
  <2>0. PICK b \in BOOLEAN : b = TRUE
    OBVIOUS
  <2>3. PICK a \in {"no", "waiting", "drained", "timed out"}, e \in {"none", "open", "closed"} :
          /\ a = IF drainer.active = {} THEN "drained" ELSE "waiting"
          /\ e = IF drainer.active = {} THEN drainer.empty ELSE "open"
    BY <2>2
  <2>4. drainer' = Begun(drainer, b, a, e)
    BY <2>0, <2>1, <2>3, Zenon
  <2>5. /\ drainer' \in Drains /\ drainer'.draining = b /\ drainer'.before = drainer.active
        /\ drainer'.active = drainer.active /\ drainer'.at = a /\ drainer'.empty = e
    BY <2>4 DEF Begun, Drains
  <2>6. drainer.at = "no"
    BY <1>1 DEF Drain
  <2>7. QED
    BY <2>0, <2>3, <2>5, <2>6, Zenon DEF DrainBegins
<1>2. CASE DrainWakes \/ DrainTimesOut
  BY <1>2 DEF DrainWakes, DrainTimesOut, DrainStops, Drains
<1>3. QED
  BY <1>1, <1>2
\* The ids, the calls and the flushes keep their types.
LEMMA ControlTyped ==
  ASSUME TypeInv, [Next]_vars
  PROVE  ControlTypes'
<1>0. /\ pbSeq \in Nat /\ crashes \in Nat /\ boot \in Boots /\ events \in Seq(Events)
      /\ tracked \in [Channels -> SUBSET Nat]
      /\ calls \in [Channels -> Calls] /\ cuts \in [Channels -> Cuts]
  BY DEF TypeInv, ControlTypes, LineTypes
<1> USE DEF ControlTypes
<1>1. ASSUME UNCHANGED control, crashes' = crashes
      PROVE  ControlTypes'
  BY <1>0, <1>1 DEF control
<1>2. ASSUME NEW c \in Channels, Playback(c)
      PROVE  ControlTypes'
  <2>1. pbSeq' = pbSeq + 1 /\ UNCHANGED <<tracked, cuts, crashes>>
        /\ (calls' = calls \/ calls' = [calls EXCEPT ![c] = [does |-> "play", id |-> pbSeq + 1]])
    BY <1>2, Zenon DEF Playback
  <2>2. [does |-> "play", id |-> pbSeq + 1] \in Calls
    BY <1>0 DEF Calls
  <2>3. QED
    BY <1>0, <2>1, <2>2
<1>3. ASSUME NEW c \in Channels, Track(c) \/ Release(c) \/ Hangup(c)
      PROVE  ControlTypes'
  <2>1. Quiet[c] \in Calls /\ [calls[c] EXCEPT !.does = "release"] \in Calls
    BY <1>0, FreshTyped DEF Calls
  <2>2. tracked' \in [Channels -> SUBSET Nat]
    <3>1. calls[c].id \in Nat
      BY <1>0 DEF Calls
    <3>2. QED
      BY <1>0, <1>3, <3>1 DEF Track, Release, Hangup, forget
  <2>3. calls' \in [Channels -> Calls]
    BY <1>0, <1>3, <2>1 DEF Track, Release, Hangup
  <2>4. UNCHANGED <<pbSeq, cuts, crashes>>
    BY <1>3 DEF Track, Release, Hangup, bounds
  <2>5. QED
    BY <1>0, <2>2, <2>3, <2>4
<1>4. ASSUME NEW c \in Channels, FlushPlayback(c) \/ StopPlayback(c) \/ FlushReturns(c)
      PROVE  ControlTypes'
  <2>1. \E on \in BOOLEAN, ids \in SUBSET Nat :
          \/ cuts' = [cuts EXCEPT ![c] = [on |-> on, ids |-> ids]]
          \/ cuts' = [cuts EXCEPT ![c].ids = ids] \/ cuts' = [cuts EXCEPT ![c].on = on]
    <3>1. TRUE \in BOOLEAN /\ FALSE \in BOOLEAN /\ tracked[c] \in SUBSET Nat
      BY <1>0
    <3>2. \A id : cuts[c].ids \ {id} \in SUBSET Nat
      BY <1>0 DEF Cuts
    <3>3. CASE FlushPlayback(c)
      BY <3>1, <3>3, Zenon DEF FlushPlayback
    <3>4. CASE StopPlayback(c)
      BY <3>1, <3>2, <3>4, Zenon DEF StopPlayback
    <3>5. CASE FlushReturns(c)
      BY <3>1, <3>5, Zenon DEF FlushReturns
    <3>6. QED
      BY <1>4, <3>3, <3>4, <3>5
  <2>2. cuts' \in [Channels -> Cuts]
    <3>1. PICK on \in BOOLEAN, ids \in SUBSET Nat :
          \/ cuts' = [cuts EXCEPT ![c] = [on |-> on, ids |-> ids]]
          \/ cuts' = [cuts EXCEPT ![c] = [cuts[c] EXCEPT !.ids = ids]]
          \/ cuts' = [cuts EXCEPT ![c] = [cuts[c] EXCEPT !.on = on]]
      BY <2>1
    <3>2. cuts[c] \in Cuts
      BY <1>0
    <3>3. /\ [on |-> on, ids |-> ids] \in Cuts
          /\ [cuts[c] EXCEPT !.on = on] \in Cuts /\ [cuts[c] EXCEPT !.ids = ids] \in Cuts
      BY <3>2, FlushFields, Zenon
    <3>4. QED
      BY <1>0, <3>1, <3>3
  <2>3. tracked' \in [Channels -> SUBSET Nat]
    BY <1>0, <1>4, Zenon DEF FlushPlayback, StopPlayback, FlushReturns, forget
  <2>4. UNCHANGED <<pbSeq, calls, crashes>>
    BY <1>4 DEF FlushPlayback, StopPlayback, FlushReturns, bounds
  <2>5. QED
    BY <1>0, <2>2, <2>3, <2>4
<1>5. ASSUME HandleEvent
      PROVE  ControlTypes'
  <2>1. tracked' \in [Channels -> SUBSET Nat]
    BY <1>0, <1>5 DEF HandleEvent, PlaybackFinished
  <2>2. QED
    BY <1>0, <1>5, <2>1 DEF HandleEvent, bounds
<1>6. ASSUME Crash
      PROVE  ControlTypes'
  <2>1. crashes' = crashes + 1 /\ pbSeq' = 0 /\ tracked' = [c \in Channels |-> {}]
        /\ calls' = Quiet /\ cuts' = NoCuts
    BY <1>6, Zenon DEF Crash
  <2>2. QED
    BY <1>0, <2>1, FreshTyped
<1>7. ASSUME LetGo
      PROVE  ControlTypes'
  <2>1. PICK c \in boot.ch : forget(c)
    BY <1>7, Zenon DEF LetGo
  <2>2. UNCHANGED <<pbSeq, calls, cuts, crashes>>
    BY <1>7, Zenon DEF LetGo, Recovering
  <2>3. QED
    BY <1>0, <2>1, <2>2 DEF forget, Boots
<1>8. ASSUME LiveChannels \/ rehydrateChannel \/ Reanchor \/ BootOver
      PROVE  UNCHANGED control /\ crashes' = crashes
  BY <1>8, Zenon DEF LiveChannels, rehydrateChannel, Found, Reanchor, BootOver, Recovering, control
<1>9. ASSUME NEW c \in Channels, StasisStart(c) \/ CallerHangsUp(c)
      PROVE  UNCHANGED control /\ crashes' = crashes
  BY <1>9, Zenon DEF StasisStart, CallerHangsUp, bounds
<1>10. ASSUME Drain \/ DrainWakes \/ DrainTimesOut \/ (\E p \in playing : PlaybackEnds(p)) \/ UNCHANGED vars
      PROVE  UNCHANGED control /\ crashes' = crashes
  BY <1>10, Zenon DEF Drain, DrainWakes, DrainTimesOut, PlaybackEnds, bounds, vars
<1>11. QED
  BY <1>1, <1>2, <1>3, <1>4, <1>5, <1>6, <1>7, <1>8, <1>9, <1>10, Zenon DEF Next
-----------------------------------------------------------------------------
(* The recovery, field by field.                                           *)

Lists ==
  /\ boot.at = "list" /\ boot'.at = "next" /\ boot'.report = boot.report /\ boot'.ch = boot.ch
  /\ boot'.listed = {c \in Channels : channel[c] = "up"} /\ boot'.todo = boot'.listed
  /\ boot'.found = boot.found
GivesUp ==
  /\ boot.at = "list" /\ boot'.at = "failed" /\ boot'.report = boot.report /\ boot'.ch = boot.ch
  /\ boot'.listed = boot.listed /\ boot'.todo = boot.todo /\ boot'.found = boot.found
\* The step at which a call with this stored status is taken on.
Fits(step, status) ==
  \/ step = "orphan" /\ status = "none"
  \/ step = "clip" /\ status = "active"
  \/ step = "stale" /\ status = "finished"
Picks(c) ==
  /\ boot.at = "next" /\ c \in boot.todo /\ boot'.at \in {"clip", "orphan", "stale"}
  /\ boot'.todo = boot.todo \ {c} /\ boot'.ch = {c}
  /\ boot'.listed = boot.listed /\ boot'.report = boot.report
  /\ \E status \in Statuses :
       Fits(boot'.at, status) /\ boot'.found = [boot.found EXCEPT ![c] = status]
Answers(c) ==
  /\ boot.at \in {"clip", "orphan", "stale"} /\ c \in boot.ch /\ boot'.at = "next"
  /\ \E r \in {"resumed", "orphan", "stale"} :
       /\ r = IF boot.at = "clip" THEN "resumed" ELSE boot.at
       /\ boot'.report = [boot.report EXCEPT ![c] = r]
       /\ channel'[c] = "up" => r = "resumed" \/ c \in slighted'
  /\ boot'.todo = boot.todo /\ boot'.ch = boot.ch /\ boot'.listed = boot.listed
  /\ boot'.found = boot.found
HandsOver ==
  /\ boot.at = "clip" /\ boot'.at = "orphan" /\ boot'.report = boot.report
  /\ boot'.todo = boot.todo /\ boot'.ch = boot.ch /\ boot'.listed = boot.listed
  /\ boot'.found = boot.found
Finishes ==
  /\ boot.at = "next" /\ boot.todo = {} /\ boot'.at = "over" /\ boot'.report = boot.report
  /\ boot'.todo = boot.todo /\ boot'.ch = {} /\ boot'.listed = boot.listed
  /\ boot'.found = boot.found

BootMoves == \/ Lists \/ GivesUp \/ HandsOver \/ Finishes
             \/ \E c \in Channels : Picks(c) \/ Answers(c)

\* Listing, picking and finishing: fields and types (rehydrate.go, Rehydrate).
LEMMA BootWalks ==
  ASSUME TypeInv, LiveChannels \/ rehydrateChannel \/ BootOver
  PROVE  boot' \in Boots /\ BootMoves
<1>0. boot \in Boots
  BY DEF TypeInv
<1>1. CASE LiveChannels
  <2>1. CASE boot.at = "list" /\ boot' = [boot EXCEPT !.at = "failed"]
    <3>1. boot' \in Boots /\ GivesUp
      BY <1>0, <2>1 DEF Boots, BootSteps, GivesUp
    <3>2. QED
      BY <3>1 DEF BootMoves
  <2>2. CASE boot.at = "list"
             /\ boot' = [boot EXCEPT !.at = "next", !.listed = {c \in Channels : channel[c] = "up"},
                                     !.todo = {c \in Channels : channel[c] = "up"}]
    <3>1. boot' \in Boots /\ Lists
      BY <1>0, <2>2 DEF Boots, BootSteps, Lists
    <3>2. QED
      BY <3>1 DEF BootMoves
  <2>3. QED
    BY <1>1, <2>1, <2>2, Zenon DEF LiveChannels, Recovering
<1>2. CASE rehydrateChannel
  <2>1. PICK c \in boot.todo :
          Found(c, "none", "orphan") \/ Found(c, "active", "clip") \/ Found(c, "finished", "stale")
    BY <1>2, Zenon DEF rehydrateChannel
  <2>2. c \in Channels /\ boot.at = "next"
    BY <1>0, <1>2 DEF Boots, rehydrateChannel
  <2>3. ASSUME NEW status \in Statuses, NEW step \in {"clip", "orphan", "stale"},
               Fits(step, status), Found(c, status, step)
        PROVE  boot' \in Boots /\ Picks(c)
    <3>1. boot' = [boot EXCEPT !.at = step, !.todo = @ \ {c}, !.ch = {c},
                               !.found = [boot.found EXCEPT ![c] = status]]
      BY <2>3 DEF Found, Recovering
    <3>2. [boot.found EXCEPT ![c] = status] \in [Channels -> Statuses]
      BY <1>0, <2>2 DEF Boots
    <3>3. /\ boot' \in Boots /\ boot'.at = step /\ boot'.todo = boot.todo \ {c} /\ boot'.ch = {c}
          /\ boot'.found = [boot.found EXCEPT ![c] = status]
          /\ boot'.listed = boot.listed /\ boot'.report = boot.report
      BY <1>0, <2>2, <3>1, <3>2 DEF Boots, BootSteps
    <3>4. QED
      BY <2>1, <2>2, <2>3, <3>3 DEF Picks
  <2>4. boot' \in Boots /\ Picks(c)
    <3>1. {"none", "active", "finished"} \subseteq Statuses
          /\ Fits("orphan", "none") /\ Fits("clip", "active") /\ Fits("stale", "finished")
      BY DEF Statuses, Fits
    <3>2. QED
      BY <2>1, <2>3, <3>1
  <2>5. QED
    BY <2>2, <2>4 DEF BootMoves
<1>3. CASE BootOver
  <2>1. boot.at = "next" /\ boot.todo = {} /\ boot' = [boot EXCEPT !.at = "over", !.ch = {}]
    BY <1>3, Zenon DEF BootOver, Recovering
  <2>2. boot' \in Boots /\ Finishes
    BY <1>0, <2>1 DEF Boots, BootSteps, Finishes
  <2>3. QED
    BY <2>2 DEF BootMoves
<1>4. QED
  BY <1>1, <1>2, <1>3

\* The channel at hand is resumed, let go or handed over; one that is still
\* there after it was let go has had a command refused (rehydrate.go,
\* rehydrateChannel, reanchor).
LEMMA BootActs ==
  ASSUME TypeInv, Reanchor \/ LetGo
  PROVE  boot' \in Boots /\ BootMoves
<1>0. boot \in Boots /\ channel \in [Channels -> {"none", "up", "gone"}]
  BY DEF TypeInv, LineTypes
<1>1. ASSUME NEW c \in boot.ch, NEW r \in {"resumed", "orphan", "stale"},
             boot.at \in {"clip", "orphan", "stale"},
             boot' = [boot EXCEPT !.at = "next", !.report[c] = r],
             r = IF boot.at = "clip" THEN "resumed" ELSE boot.at,
             channel'[c] = "up" => r = "resumed" \/ c \in slighted'
      PROVE  boot' \in Boots /\ BootMoves
  <2>1. c \in Channels
    BY <1>0 DEF Boots
  <2>2. boot' = [boot EXCEPT !.at = "next", !.report = [boot.report EXCEPT ![c] = r]]
    BY <1>1
  <2>3. [boot.report EXCEPT ![c] = r] \in [Channels -> Reports]
    BY <1>0, <2>1 DEF Boots, Reports
  <2>4. /\ boot' \in Boots /\ boot'.at = "next" /\ boot'.report = [boot.report EXCEPT ![c] = r]
        /\ boot'.todo = boot.todo /\ boot'.ch = boot.ch /\ boot'.listed = boot.listed
        /\ boot'.found = boot.found
    BY <1>0, <2>2, <2>3 DEF Boots, BootSteps
  <2>5. Answers(c)
    BY <1>1, <2>4, Zenon DEF Answers
  <2>6. QED
    BY <2>1, <2>4, <2>5, Zenon DEF BootMoves
<1>2. CASE Reanchor
  <2>1. boot.at = "clip" /\ "resumed" \in {"resumed", "orphan", "stale"} /\ "clip" \in {"clip", "orphan", "stale"}
    BY <1>2 DEF Reanchor
  <2>2. PICK c \in boot.ch : boot' = [boot EXCEPT !.at = "next", !.report[c] = "resumed"]
                             \/ boot' = [boot EXCEPT !.at = "orphan"]
    BY <1>2, Zenon DEF Reanchor, Recovering
  <2>3. CASE boot' = [boot EXCEPT !.at = "next", !.report[c] = "resumed"]
    BY <1>1, <2>1, <2>3, Zenon
  <2>4. CASE boot' = [boot EXCEPT !.at = "orphan"]
    <3>1. boot' \in Boots /\ HandsOver
      BY <1>0, <2>1, <2>4 DEF Boots, BootSteps, HandsOver
    <3>2. QED
      BY <3>1 DEF BootMoves
  <2>5. QED
    BY <2>2, <2>3, <2>4
<1>3. CASE LetGo
  <2>1. PICK c \in boot.ch : Commanded(c) /\ boot' = [boot EXCEPT !.at = "next", !.report[c] = boot.at]
    BY <1>3, Zenon DEF LetGo, Recovering
  <2>2. boot.at \in {"orphan", "stale"}
    BY <1>3 DEF LetGo
  <2>3. /\ boot.at \in {"clip", "orphan", "stale"} /\ boot.at \in {"resumed", "orphan", "stale"}
        /\ boot.at # "clip"
    BY <2>2
  <2>4. channel'[c] = "up" => c \in slighted'
    <3>1. c \in Channels
      BY <1>0 DEF Boots
    <3>2. QED
      BY <1>0, <2>1, <3>1 DEF Commanded, Leaves, Granted, Refused, asterisk
  <2>5. QED
    BY <1>1, <2>1, <2>3, <2>4, Zenon
<1>4. QED
  BY <1>2, <1>3

\* The recovery moves only in its own steps, and a crash starts it anew.
LEMMA BootShape ==
  ASSUME TypeInv, [Next]_vars
  PROVE  /\ boot' \in Boots
         /\ BootMoves \/ Crash \/ UNCHANGED boot
<1>0. boot \in Boots
  BY DEF TypeInv
<1>1. ASSUME Crash
      PROVE  boot' \in Boots
  BY <1>1, FreshTyped DEF Crash
<1>2. ASSUME NEW c \in Channels,
             \/ StasisStart(c) \/ CallerHangsUp(c) \/ Playback(c) \/ Track(c) \/ Release(c) \/ Hangup(c)
             \/ FlushPlayback(c) \/ StopPlayback(c) \/ FlushReturns(c)
      PROVE  UNCHANGED boot
  BY <1>2, Zenon DEF StasisStart, CallerHangsUp, Playback, Track, Release, Hangup, FlushPlayback,
                     StopPlayback, FlushReturns
<1>3. ASSUME (\E p \in playing : PlaybackEnds(p)) \/ HandleEvent \/ Drain \/ DrainWakes
             \/ DrainTimesOut \/ UNCHANGED vars
      PROVE  UNCHANGED boot
  BY <1>3, Zenon DEF PlaybackEnds, HandleEvent, Drain, DrainWakes, DrainTimesOut, vars
<1>4. ASSUME UNCHANGED boot
      PROVE  boot' \in Boots
  BY <1>0, <1>4
<1>5. QED
  BY <1>1, <1>2, <1>3, <1>4, BootWalks, BootActs, Zenon DEF Next
-----------------------------------------------------------------------------
(* The types are an invariant.                                             *)

\* The handler takes the head of the queue: its channel, id and type.
LEMMA Handled ==
  ASSUME TypeInv, HandleEvent
  PROVE  /\ Takes /\ Head(events) = events[1] /\ Head(events) \in Events
         /\ Head(events).ch \in Channels /\ Head(events).id \in Nat
         /\ \/ Head(events).type = "StasisStart" /\ CallStarted(Head(events).ch)
            \/ Head(events).type = "StasisEnd" /\ CallEnded(Head(events).ch)
            \/ Head(events).type = "PlaybackFinished" /\ UNCHANGED drainer
<1>1. Takes
  BY Zenon DEF HandleEvent, Takes
<1>2. Head(events) = events[1] /\ Head(events) \in Events
  BY <1>1, Taken DEF TypeInv, LineTypes
<1>3. Head(events).ch \in Channels /\ Head(events).id \in Nat
  BY <1>2 DEF Events
<1>4. QED
  BY <1>1, <1>2, <1>3, Zenon DEF HandleEvent

\* A step grows the lines, takes from them, or loses their events.
LEMMA LinesStep ==
  ASSUME TypeInv, [Next]_vars
  PROVE  LineTypes'
<1>0. LineTypes /\ pbSeq \in Nat /\ crashes \in Nat /\ boot \in Boots
  BY DEF TypeInv, ControlTypes
<1>1. CASE Grows
  <2>1. CASE \E c \in Channels, id \in Nat : Starts(c) \/ Leaves(c) \/ Plays(c) \/ Ends(c, id)
    BY <1>0, <2>1, LinesTyped, Zenon
  <2>2. CASE UNCHANGED asterisk
    BY <1>0, <2>2 DEF LineTypes, asterisk
  <2>3. QED
    BY <1>1, <2>1, <2>2 DEF Grows
<1>2. CASE HandleEvent
  <2>1. Takes
    BY <1>2, Handled
  <2>2. QED
    BY <1>0, <2>1, Taken DEF LineTypes, Takes
<1>3. CASE Crash
  <2>1. Loses
    BY <1>3, Zenon DEF Crash, Loses
  <2>2. QED
    BY <1>0, <2>1, EmptySeq DEF LineTypes, Loses
<1>4. CASE Drain \/ DrainWakes \/ DrainTimesOut
  BY <1>0, <1>4 DEF Drain, DrainWakes, DrainTimesOut, LineTypes, asterisk
<1>5. QED
  BY <1>0, <1>1, <1>2, <1>3, <1>4, StepShape

\* The drainer keeps its type.
LEMMA DrainerStep ==
  ASSUME TypeInv, [Next]_vars
  PROVE  drainer' \in Drains
<1>0. LineTypes /\ drainer \in Drains /\ boot \in Boots
  BY DEF TypeInv
<1>1. CASE HandleEvent
  BY <1>0, <1>1, Handled, CallFields
<1>2. CASE Crash
  BY <1>2, FreshTyped DEF Crash
<1>3. CASE Drain \/ DrainWakes \/ DrainTimesOut
  BY <1>0, <1>3, DrainSteps
<1>4. QED
  BY <1>0, <1>1, <1>2, <1>3, StepShape

\* The first process starts with nothing under way.
LEMMA InitTyped ==
  ASSUME Init
  PROVE  TypeInv
<1>1. LineTypes
  BY EmptySeq DEF Init, LineTypes
<1>2. ControlTypes
  BY FreshTyped DEF Init, ControlTypes
<1>3. QED
  BY <1>1, <1>2, FreshTyped DEF Init, TypeInv

\* Every step keeps the types.
LEMMA StepTyped ==
  ASSUME TypeInv, [Next]_vars
  PROVE  TypeInv'
BY LinesStep, ControlTyped, DrainerStep, BootShape, Zenon DEF TypeInv
-----------------------------------------------------------------------------
(* The drain.  A start that is still in the queue belongs to a channel     *)
(* that no one has counted yet, so no call that ended comes back among the *)
(* active ones, and a waiting drain has somebody whose end will release it.*)

Counted == drainer.active \cup drainer.before

StartsAreNew == \A i \in 1..Len(events) : events[i].type = "StasisStart" =>
  /\ channel[events[i].ch] # "none" /\ events[i].ch \notin Counted
  /\ \A j \in 1..Len(events) : events[j].type = "StasisStart" /\ events[j].ch = events[i].ch => j = i

KnownCalls == \A c \in Counted : channel[c] # "none"

Waits ==
  /\ drainer.at = "no" => drainer.empty = "none" /\ drainer.before = {}
  /\ drainer.at # "no" => drainer.draining
  /\ drainer.empty = "closed" \/ drainer.at = "drained" => drainer.before \cap drainer.active = {}
  /\ drainer.empty = "open" => drainer.active # {}

DrainInv == TypeInv /\ StartsAreNew /\ KnownCalls /\ Waits

\* A channel that has existed never becomes new, and its events keep.
LEMMA GrowsKeeps ==
  ASSUME TypeInv, Grows, StartsAreNew, KnownCalls, UNCHANGED drainer
  PROVE  StartsAreNew' /\ KnownCalls'
<1>0. /\ events \in Seq(Events) /\ channel \in [Channels -> {"none", "up", "gone"}]
      /\ drainer \in Drains /\ Len(events) \in Nat
  BY LenProperties DEF TypeInv, LineTypes
<1>1. Counted \in SUBSET Channels /\ Counted' = Counted
  BY <1>0 DEF Counted, Drains
<1>2. \A i \in 1..Len(events) : events[i] \in Events /\ events[i].ch \in Channels
  <2>1. \A i \in 1..Len(events) : events[i] \in Events
    BY <1>0, ElementOfSeq
  <2>2. QED
    BY <2>1 DEF Events
<1>3. ASSUME NEW c \in Channels, Starts(c)
      PROVE  StartsAreNew' /\ KnownCalls'
  <2>1. channel[c] = "none" /\ channel' = [channel EXCEPT ![c] = "up"]
    BY <1>3 DEF Starts
  <2>2. c \notin Counted
    BY <2>1 DEF KnownCalls
  <2>3. \A i \in 1..Len(events) : events[i].type = "StasisStart" => events[i].ch # c
    BY <2>1 DEF StartsAreNew
  <2>4. PICK e \in Events : e.type = "StasisStart" /\ e.ch = c /\ events' = Append(events, e)
    <3>1. "StasisStart" \in Types /\ 0 \in Nat
      BY DEF Types
    <3>2. QED
      BY <1>3, <3>1, EventTyped DEF Starts
  <2>5. /\ Len(events') = Len(events) + 1 /\ events'[Len(events) + 1] = e
        /\ \A i \in 1..Len(events) : events'[i] = events[i]
    BY <1>0, <2>4, Announced
  <2>6. KnownCalls'
    BY <1>0, <1>1, <2>1 DEF KnownCalls
  <2>7. StartsAreNew'
    BY <1>0, <1>1, <1>2, <2>1, <2>2, <2>3, <2>4, <2>5 DEF StartsAreNew
  <2>8. QED
    BY <2>6, <2>7
<1>4. ASSUME NEW c \in Channels, NEW e \in Events, e.type # "StasisStart",
             channel' = channel \/ (channel[c] = "up" /\ channel' = [channel EXCEPT ![c] = "gone"]),
             events' = Append(events, e)
      PROVE  StartsAreNew' /\ KnownCalls'
  <2>1. /\ Len(events') = Len(events) + 1 /\ events'[Len(events) + 1] = e
        /\ \A i \in 1..Len(events) : events'[i] = events[i]
    BY <1>0, <1>4, Announced
  <2>2. \A d \in Channels : channel[d] # "none" => channel'[d] # "none"
    BY <1>0, <1>4
  <2>3. KnownCalls'
    BY <1>1, <2>2 DEF KnownCalls
  <2>4. StartsAreNew'
    BY <1>0, <1>1, <1>2, <1>4, <2>1, <2>2 DEF StartsAreNew
  <2>5. QED
    BY <2>3, <2>4
<1>5. ASSUME channel' = channel, events' = events
      PROVE  StartsAreNew' /\ KnownCalls'
  BY <1>1, <1>5 DEF StartsAreNew, KnownCalls
<1>6. ASSUME NEW c \in Channels, NEW id \in Nat, Leaves(c) \/ Ends(c, id)
      PROVE  StartsAreNew' /\ KnownCalls'
  <2>1. "StasisEnd" \in Types /\ "PlaybackFinished" \in Types /\ 0 \in Nat
    BY DEF Types
  <2>2. Event("StasisEnd", c, 0) \in Events /\ Event("StasisEnd", c, 0).type # "StasisStart"
    BY <2>1, EventTyped
  <2>3. Event("PlaybackFinished", c, id) \in Events /\ Event("PlaybackFinished", c, id).type # "StasisStart"
    BY <2>1, EventTyped
  <2>4. CASE Leaves(c)
    BY <1>4, <2>2, <2>4, Zenon DEF Leaves
  <2>5. CASE Ends(c, id)
    BY <1>4, <2>3, <2>5, Zenon DEF Ends
  <2>6. QED
    BY <1>6, <2>4, <2>5
<1>7. QED
  BY <1>3, <1>5, <1>6, Zenon DEF Grows, Plays, asterisk

\* Handling an event: a start counts its channel, which no start left in the
\* queue repeats; an end closes the drain's channel when nobody is left.
LEMMA HandleKeeps ==
  ASSUME DrainInv, HandleEvent
  PROVE  StartsAreNew' /\ KnownCalls' /\ Waits'
<1>0. /\ TypeInv /\ StartsAreNew /\ KnownCalls /\ Waits /\ drainer \in Drains
      /\ events \in Seq(Events) /\ UNCHANGED channel /\ Takes
  BY Handled DEF DrainInv, TypeInv, LineTypes, HandleEvent
<1>1. PICK e \in Events : e = Head(events)
  BY <1>0, Handled
<1>2. /\ e = events[1] /\ e.ch \in Channels
      /\ \/ e.type = "StasisStart" /\ CallStarted(e.ch)
         \/ e.type = "StasisEnd" /\ CallEnded(e.ch)
         \/ e.type = "PlaybackFinished" /\ UNCHANGED drainer
  BY <1>0, <1>1, Handled
<1>3. /\ Len(events) \in Nat \ {0} /\ Len(events') = Len(events) - 1
      /\ \A i \in 1..Len(events') : events'[i] = events[i + 1]
  BY <1>0, Taken
<1>4. \A i \in 1..Len(events') : i + 1 \in 1..Len(events) /\ i + 1 # 1
  BY <1>3
<1>5a. drainer'.draining = drainer.draining
  BY <1>0, <1>2, CallFields, Zenon
<1>5. /\ drainer'.before = drainer.before /\ drainer'.at = drainer.at
      /\ \/ /\ e.type = "StasisStart" /\ drainer'.active = drainer.active \cup {e.ch}
            /\ drainer'.empty = drainer.empty
         \/ /\ e.type # "StasisStart" /\ drainer'.active \in SUBSET drainer.active
            /\ drainer'.empty \in {drainer.empty, "closed"}
            /\ drainer'.empty = "open" => drainer'.active # {}
            /\ drainer'.empty # drainer.empty => drainer.empty = "open" /\ drainer'.active = {}
  <2>1. CASE e.type = "StasisStart" /\ CallStarted(e.ch)
    BY <1>0, <1>2, <2>1, CallFields
  <2>2. CASE e.type = "StasisEnd" /\ CallEnded(e.ch)
    <3>1. /\ drainer'.before = drainer.before /\ drainer'.at = drainer.at
          /\ drainer'.draining = drainer.draining /\ drainer'.active = drainer.active \ {e.ch}
          /\ drainer'.empty = IF drainer.draining /\ drainer'.active = {} /\ drainer.empty = "open"
                              THEN "closed" ELSE drainer.empty
      BY <1>0, <1>2, <2>2, CallFields
    <3>2. drainer.empty = "open" => drainer.draining
      BY <1>0 DEF Waits
    <3>3. drainer.empty = "open" /\ drainer'.active = {} => drainer'.empty = "closed"
      BY <3>1, <3>2
    <3>4. QED
      BY <2>2, <3>1, <3>3
  <2>3. CASE e.type = "PlaybackFinished" /\ UNCHANGED drainer
    BY <1>0, <2>3 DEF Waits
  <2>4. QED
    BY <1>2, <2>1, <2>2, <2>3
<1>6. e.type = "StasisStart" =>
        /\ channel[e.ch] # "none" /\ e.ch \notin Counted
        /\ \A i \in 2..Len(events) : events[i].type = "StasisStart" => events[i].ch # e.ch
  BY <1>0, <1>2, <1>3 DEF StartsAreNew
<1>7. Counted' \in SUBSET (Counted \cup {e.ch})
      /\ (e.type = "StasisStart" \/ Counted' \in SUBSET Counted)
  <2>1. e.type = "StasisStart" => drainer'.active = drainer.active \cup {e.ch}
    BY <1>5
  <2>2. e.type = "StasisStart" \/ drainer'.active \in SUBSET drainer.active
    BY <1>5
  <2>3. drainer'.before = drainer.before
    BY <1>5
  <2>4. CASE e.type = "StasisStart"
    BY <2>1, <2>3, <2>4 DEF Counted
  <2>5. CASE e.type # "StasisStart"
    BY <2>2, <2>3, <2>5 DEF Counted
  <2>6. QED
    BY <2>4, <2>5
<1>8. KnownCalls'
  BY <1>0, <1>6, <1>7 DEF KnownCalls
<1>9. StartsAreNew'
  <2>1. SUFFICES ASSUME NEW i \in 1..Len(events'), events'[i].type = "StasisStart"
                 PROVE  /\ channel[events'[i].ch] # "none" /\ events'[i].ch \notin Counted'
                        /\ \A j \in 1..Len(events') :
                             events'[j].type = "StasisStart" /\ events'[j].ch = events'[i].ch => j = i
    BY <1>0 DEF StartsAreNew
  <2>2. events'[i] = events[i + 1] /\ i + 1 \in 2..Len(events) /\ i + 1 \in 1..Len(events)
    BY <1>3, <1>4, <2>1
  <2>3. channel[events'[i].ch] # "none" /\ events'[i].ch \notin Counted
    BY <1>0, <2>1, <2>2 DEF StartsAreNew
  <2>4. events'[i].ch \notin Counted'
    BY <1>6, <1>7, <2>1, <2>2, <2>3
  <2>5. ASSUME NEW j \in 1..Len(events'), events'[j].type = "StasisStart", events'[j].ch = events'[i].ch
        PROVE  j = i
    <3>1. events'[j] = events[j + 1] /\ j + 1 \in 1..Len(events)
      BY <1>3, <1>4
    <3>2. j + 1 = i + 1
      BY <1>0, <2>1, <2>2, <2>5, <3>1 DEF StartsAreNew
    <3>3. QED
      BY <3>2
  <2>6. QED
    BY <2>3, <2>4, <2>5
<1>10. Waits'
  <2>1. /\ drainer.at = "no" => drainer.empty = "none" /\ drainer.before = {}
        /\ drainer.empty = "closed" \/ drainer.at = "drained" => drainer.before \cap drainer.active = {}
        /\ drainer.empty = "open" => drainer.active # {}
    BY <1>0 DEF Waits
  <2>2. drainer.at # "no" => drainer.draining
    BY <1>0, Zenon DEF Waits
  <2>3. drainer'.at # "no" => drainer'.draining
    BY <1>5, <1>5a, <2>2, Zenon
  <2>4. drainer'.before = drainer.before /\ drainer'.at = drainer.at
    BY <1>5
  <2>5. CASE e.type = "StasisStart"
    <3>1. e.ch \notin drainer.before
      BY <1>6, <2>5 DEF Counted
    <3>2. drainer'.active = drainer.active \cup {e.ch} /\ drainer'.empty = drainer.empty
      BY <1>5, <2>5
    <3>3. QED
      BY <2>1, <2>3, <2>4, <3>1, <3>2 DEF Waits
  <2>6. CASE e.type # "StasisStart"
    <3>1. /\ drainer'.active \in SUBSET drainer.active
          /\ drainer'.empty \in {drainer.empty, "closed"}
          /\ drainer'.empty = "open" => drainer'.active # {}
          /\ drainer'.empty # drainer.empty => drainer.empty = "open" /\ drainer'.active = {}
      BY <1>5, <2>6
    <3>2. drainer'.at = "no" => drainer'.empty = "none" /\ drainer'.before = {}
      BY <2>1, <2>4, <3>1
    <3>3. drainer'.empty = "closed" \/ drainer'.at = "drained" => drainer'.before \cap drainer'.active = {}
      BY <2>1, <2>4, <3>1
    <3>4. QED
      BY <2>3, <3>1, <3>2, <3>3, Zenon DEF Waits
  <2>7. QED
    BY <2>5, <2>6
<1>11. QED
  BY <1>8, <1>9, <1>10

\* Drain and its end leave the queue and the channels alone.
LEMMA DrainKeeps ==
  ASSUME DrainInv, Drain \/ DrainWakes \/ DrainTimesOut
  PROVE  StartsAreNew' /\ KnownCalls' /\ Waits'
<1>0. /\ StartsAreNew /\ KnownCalls /\ Waits /\ drainer \in Drains
      /\ UNCHANGED <<channel, events>>
  BY DEF DrainInv, TypeInv, Drain, DrainWakes, DrainTimesOut, asterisk
<1>1. DrainBegins \/ DrainStops
  BY <1>0, DrainSteps
<1>2. Counted' \in SUBSET Counted
  BY <1>1 DEF Counted, DrainBegins, DrainStops
<1>3. StartsAreNew' /\ KnownCalls'
  BY <1>0, <1>2 DEF StartsAreNew, KnownCalls
<1>4. /\ drainer.at = "no" => drainer.empty = "none" /\ drainer.before = {}
      /\ drainer.empty = "closed" \/ drainer.at = "drained" => drainer.before \cap drainer.active = {}
      /\ drainer.empty = "open" => drainer.active # {}
  BY <1>0 DEF Waits
<1>5. drainer.at # "no" => drainer.draining
  BY <1>0, Zenon DEF Waits
<1>6. CASE DrainBegins
  <2>1. drainer'.at # "no" => drainer'.draining
    BY <1>6, Zenon DEF DrainBegins
  <2>2. /\ drainer.at = "no" /\ drainer'.before = drainer.active /\ drainer'.active = drainer.active
        /\ drainer.active = {} => drainer'.at = "drained" /\ drainer'.empty = drainer.empty
        /\ drainer.active # {} => drainer'.at = "waiting" /\ drainer'.empty = "open"
    BY <1>6, Zenon DEF DrainBegins
  <2>3. drainer'.at = "no" => drainer'.empty = "none" /\ drainer'.before = {}
    BY <1>4, <2>2
  <2>3a. drainer'.empty = "closed" \/ drainer'.at = "drained" => drainer'.before \cap drainer'.active = {}
    BY <1>4, <2>2
  <2>3b. drainer'.empty = "open" => drainer'.active # {}
    BY <1>4, <2>2
  <2>4. QED
    BY <1>3, <2>1, <2>3, <2>3a, <2>3b, Zenon DEF Waits
<1>7. CASE DrainStops
  <2>1. drainer'.draining = drainer.draining /\ drainer.at = "waiting"
    BY <1>7, Zenon DEF DrainStops
  <2>2. "waiting" # "no"
    OBVIOUS
  <2>3. drainer'.at # "no" => drainer'.draining
    BY <1>5, <2>1, <2>2, Zenon
  <2>4. /\ drainer'.at \in {"drained", "timed out"}
        /\ drainer'.at = "drained" => drainer.empty = "closed"
        /\ drainer'.active = drainer.active /\ drainer'.before = drainer.before
        /\ drainer'.empty = drainer.empty
    BY <1>7, Zenon DEF DrainStops
  <2>5. drainer'.at = "no" => drainer'.empty = "none" /\ drainer'.before = {}
    BY <1>4, <2>4
  <2>5a. drainer'.empty = "closed" \/ drainer'.at = "drained" => drainer'.before \cap drainer'.active = {}
    BY <1>4, <2>4
  <2>5b. drainer'.empty = "open" => drainer'.active # {}
    BY <1>4, <2>4
  <2>6. QED
    BY <1>3, <2>3, <2>5, <2>5a, <2>5b, Zenon DEF Waits
<1>8. QED
  BY <1>1, <1>6, <1>7

\* The invariant holds at the start and after a crash: a new process has
\* counted nobody and has read nothing.
LEMMA FreshDrain ==
  /\ NewDrainer.active = {} /\ NewDrainer.before = {} /\ NewDrainer.empty = "none" /\ NewDrainer.at = "no"
  /\ Len(<< >>) = 0
BY EmptySeq DEF NewDrainer

\* DrainInv is inductive.
THEOREM DrainInvTheorem == Spec => []DrainInv
<1>1. Init => DrainInv
  <2>1. SUFFICES ASSUME Init
                 PROVE  StartsAreNew /\ KnownCalls /\ Waits
    BY InitTyped, Zenon DEF DrainInv
  <2>2. events = << >> /\ drainer = NewDrainer
    BY <2>1 DEF Init
  <2>3. Counted = {} /\ Len(events) = 0
    BY <2>2, FreshDrain DEF Counted
  <2>4. QED
    BY <2>2, <2>3, FreshDrain DEF StartsAreNew, KnownCalls, Waits
<1>2. ASSUME DrainInv, [Next]_vars
      PROVE  DrainInv'
  <2>0. TypeInv /\ LineTypes /\ boot \in Boots /\ StartsAreNew /\ KnownCalls /\ Waits
    BY <1>2 DEF DrainInv, TypeInv
  <2>1. TypeInv'
    BY <1>2, <2>0, StepTyped
  <2>2. CASE Grows /\ UNCHANGED drainer
    <3>1. Waits'
      BY <2>0, <2>2, Zenon DEF Waits
    <3>2. QED
      BY <2>0, <2>1, <2>2, <3>1, GrowsKeeps, Zenon DEF DrainInv
  <2>3. CASE HandleEvent
    BY <1>2, <2>1, <2>3, HandleKeeps, Zenon DEF DrainInv
  <2>4. CASE Drain \/ DrainWakes \/ DrainTimesOut
    BY <1>2, <2>1, <2>4, DrainKeeps, Zenon DEF DrainInv
  <2>5. CASE Crash
    <3>1. events' = << >> /\ drainer' = NewDrainer
      BY <2>5, Zenon DEF Crash
    <3>2. Counted' = {} /\ Len(events') = 0
      BY <3>1, FreshDrain DEF Counted
    <3>3. StartsAreNew' /\ KnownCalls' /\ Waits'
      BY <3>1, <3>2, FreshDrain DEF StartsAreNew, KnownCalls, Waits
    <3>4. QED
      BY <2>1, <3>3, Zenon DEF DrainInv
  <2>6. QED
    BY <1>2, <2>0, <2>2, <2>3, <2>4, <2>5, StepShape, Zenon
<1>3. QED
  BY <1>1, <1>2, PTL DEF Spec

\* Drain reports success only when every call that was active when it began
\* has ended, and waits only for a call that is there (drain.go:42-52, 70-72).
THEOREM DrainIsHonestTheorem == Spec => []DrainIsHonest
<1>1. DrainInv => DrainIsHonest
  BY DEF DrainInv, Waits, DrainIsHonest
<1>2. QED
  BY <1>1, DrainInvTheorem, PTL
-----------------------------------------------------------------------------
(* The recovery.  Every listed channel is still to do, at hand, or has its *)
(* answer.                                                                 *)

AtHand == IF boot.at \in {"clip", "orphan", "stale"} THEN boot.ch ELSE {}

Settled(c) ==
  /\ boot.report[c] \in {"resumed", "orphan", "stale"}
  /\ channel[c] = "up" => boot.report[c] = "resumed" \/ c \in slighted

ListInv ==
  /\ boot.at = "list" => boot.listed = {}
  /\ boot.at \in {"clip", "orphan", "stale"} => \E c \in Channels : boot.ch = {c}
  /\ boot.at = "over" => boot.todo = {}
  /\ boot.todo \subseteq boot.listed
  /\ \A c \in boot.listed : channel[c] # "none"

Answered == \A c \in boot.listed \ (boot.todo \cup AtHand) : Settled(c)

\* What was done with a channel fits what was stored of its call, and a channel
\* not done yet has no answer.
Judged(c) ==
  /\ boot.report[c] = "resumed" => boot.found[c] = "active"
  /\ boot.report[c] \in {"orphan", "stale"} =>
       (boot.report[c] = "stale" <=> boot.found[c] = "finished")

JudgeInv ==
  /\ boot.at = "list" => boot.ch = {} /\ \A c \in Channels : boot.report[c] = ""
  /\ boot.todo \cap boot.ch = {}
  /\ \A c \in boot.todo : boot.report[c] = ""
  /\ \A c \in boot.ch : /\ boot.at = "clip" => boot.found[c] = "active"
                        /\ boot.at = "stale" => boot.found[c] = "finished"
                        /\ boot.at = "orphan" => boot.found[c] # "finished"
  /\ \A c \in Channels : Judged(c)

SilenceInv == TypeInv /\ ListInv /\ Answered /\ JudgeInv

\* A channel that has existed does not come up again: its id is never reused.
LEMMA ChannelsAge ==
  ASSUME TypeInv, [Next]_vars, NEW c \in Channels, channel[c] # "none"
  PROVE  channel'[c] # "none" /\ (channel'[c] = "up" => channel[c] = "up")
<1>0. channel \in [Channels -> {"none", "up", "gone"}] /\ LineTypes /\ boot \in Boots
  BY DEF TypeInv, LineTypes
<1>1. CASE UNCHANGED channel
  BY <1>1
<1>2. CASE HandleEvent \/ Crash \/ Drain \/ DrainWakes \/ DrainTimesOut
  BY <1>1, <1>2, Zenon DEF HandleEvent, Crash, Drain, DrainWakes, DrainTimesOut, asterisk
<1>3. CASE Grows
  <2>1. \/ UNCHANGED channel
        \/ \E d \in Channels : channel[d] = "none" /\ channel' = [channel EXCEPT ![d] = "up"]
        \/ \E d \in Channels : channel[d] = "up" /\ channel' = [channel EXCEPT ![d] = "gone"]
    BY <1>3, Zenon DEF Grows, Starts, Leaves, Plays, Ends, asterisk
  <2>2. QED
    BY <1>0, <2>1
<1>4. QED
  BY <1>0, <1>2, <1>3, StepShape

\* Only a crash forgets that a command was refused.
LEMMA SlightsStay ==
  ASSUME [Next]_vars, ~Crash
  PROVE  slighted \subseteq slighted'
<1>1. ASSUME NEW c, Refused(c) \/ Granted \/ Commanded(c)
      PROVE  slighted \subseteq slighted'
  BY <1>1 DEF Refused, Granted, Commanded
<1>2. ASSUME NEW c \in Channels,
             StasisStart(c) \/ CallerHangsUp(c) \/ Track(c) \/ Release(c) \/ FlushPlayback(c) \/ FlushReturns(c)
      PROVE  slighted \subseteq slighted'
  <2>1. slighted' = slighted
    BY <1>2, Zenon DEF StasisStart, CallerHangsUp, Track, Release, FlushPlayback, FlushReturns, history
  <2>2. QED
    BY <2>1
<1>3. ASSUME NEW c \in Channels, Playback(c) \/ Hangup(c) \/ StopPlayback(c)
      PROVE  slighted \subseteq slighted'
  <2>1. Refused(c) \/ Granted \/ Commanded(c)
    BY <1>3, Zenon DEF Playback, Hangup, StopPlayback
  <2>2. QED
    BY <1>1, <2>1
<1>4. ASSUME (\E p \in playing : PlaybackEnds(p)) \/ HandleEvent \/ Drain \/ DrainWakes \/ DrainTimesOut
             \/ LiveChannels \/ rehydrateChannel \/ Reanchor \/ BootOver \/ UNCHANGED vars
      PROVE  slighted \subseteq slighted'
  <2>1. slighted' = slighted
    BY <1>4, Zenon DEF PlaybackEnds, HandleEvent, Drain, DrainWakes, DrainTimesOut, LiveChannels,
                       rehydrateChannel, Found, Reanchor, BootOver, history, vars
  <2>2. QED
    BY <2>1
<1>5. ASSUME LetGo
      PROVE  slighted \subseteq slighted'
  BY <1>1, <1>5 DEF LetGo
<1>6. QED
  BY <1>2, <1>3, <1>4, <1>5, Zenon DEF Next

\* What is settled stays settled.
LEMMA StaysSettled ==
  ASSUME TypeInv, [Next]_vars, slighted \subseteq slighted', NEW c \in Channels,
         channel[c] # "none", Settled(c), boot'.report[c] = boot.report[c]
  PROVE  Settled(c)'
<1>1. channel'[c] = "up" => channel[c] = "up"
  BY ChannelsAge
<1>2. QED
  BY <1>1 DEF Settled

\* The recovery's own steps keep the invariant.
LEMMA MovesKeep ==
  ASSUME SilenceInv, [Next]_vars, BootMoves, slighted \subseteq slighted'
  PROVE  ListInv' /\ Answered'
<1>0. /\ TypeInv /\ ListInv /\ Answered /\ boot \in Boots
      /\ boot.listed \in SUBSET Channels /\ boot.todo \in SUBSET Channels
      /\ boot.report \in [Channels -> Reports] /\ channel \in [Channels -> {"none", "up", "gone"}]
  BY DEF SilenceInv, TypeInv, LineTypes, Boots
<1>1. \A c \in boot.listed : channel'[c] # "none"
  BY <1>0, ChannelsAge DEF ListInv
<1>2. ASSUME NEW c \in boot.listed, Settled(c), boot'.report[c] = boot.report[c]
      PROVE  Settled(c)'
  BY <1>0, <1>2, StaysSettled DEF ListInv
<1>3. CASE Lists
  <2>1. \A c \in boot'.listed : channel'[c] # "none"
    BY <1>0, <1>3, ChannelsAge DEF Lists
  <2>2. ListInv'
    BY <1>3, <2>1 DEF ListInv, Lists
  <2>3. Answered'
    BY <1>3 DEF Answered, Lists
  <2>4. QED
    BY <2>2, <2>3
<1>4. ASSUME NEW c \in Channels, Picks(c)
      PROVE  ListInv' /\ Answered'
  <2>1. ListInv'
    BY <1>0, <1>1, <1>4 DEF ListInv, Picks
  <2>2. AtHand' = {c} /\ AtHand = {}
    BY <1>4 DEF AtHand, Picks
  <2>3. Answered'
    <3>1. SUFFICES ASSUME NEW d \in boot'.listed \ (boot'.todo \cup AtHand')
                   PROVE  Settled(d)'
      BY DEF Answered
    <3>2. d \in boot.listed \ (boot.todo \cup AtHand)
      BY <1>4, <2>2, <3>1 DEF Picks
    <3>3. QED
      BY <1>0, <1>2, <1>4, <3>2 DEF Answered, Picks
  <2>4. QED
    BY <2>1, <2>3
<1>5. ASSUME NEW c \in Channels, Answers(c)
      PROVE  ListInv' /\ Answered'
  <2>1. ListInv'
    BY <1>0, <1>1, <1>5 DEF ListInv, Answers
  <2>2. AtHand' = {} /\ AtHand = {c}
    BY <1>0, <1>5 DEF AtHand, Answers, ListInv
  <2>3. PICK r \in {"resumed", "orphan", "stale"} :
          /\ boot'.report = [boot.report EXCEPT ![c] = r]
          /\ channel'[c] = "up" => r = "resumed" \/ c \in slighted'
    BY <1>5 DEF Answers
  <2>4. Answered'
    <3>1. SUFFICES ASSUME NEW d \in boot'.listed \ (boot'.todo \cup AtHand')
                   PROVE  Settled(d)'
      BY DEF Answered
    <3>2. CASE d = c
      BY <1>0, <2>3, <3>2 DEF Settled
    <3>3. CASE d # c
      <4>1. d \in boot.listed \ (boot.todo \cup AtHand)
        BY <1>5, <2>2, <3>1, <3>3 DEF Answers
      <4>2. boot'.report[d] = boot.report[d]
        BY <1>0, <2>3, <3>3, <4>1
      <4>3. QED
        BY <1>0, <1>2, <4>1, <4>2 DEF Answered
    <3>4. QED
      BY <3>2, <3>3
  <2>5. QED
    BY <2>1, <2>4
<1>6. CASE HandsOver
  <2>1. ListInv'
    BY <1>0, <1>1, <1>6 DEF ListInv, HandsOver
  <2>2. AtHand' = AtHand
    BY <1>6 DEF AtHand, HandsOver
  <2>3. Answered'
    BY <1>0, <1>2, <1>6, <2>2 DEF Answered, HandsOver
  <2>4. QED
    BY <2>1, <2>3
<1>7. CASE Finishes
  <2>1. ListInv'
    BY <1>0, <1>1, <1>7 DEF ListInv, Finishes
  <2>2. AtHand' = {} /\ AtHand = {}
    BY <1>7 DEF AtHand, Finishes
  <2>3. Answered'
    BY <1>0, <1>2, <1>7, <2>2 DEF Answered, Finishes
  <2>4. QED
    BY <2>1, <2>3
<1>8. CASE GivesUp
  <2>1. boot'.at = "failed" /\ boot'.listed = {} /\ boot'.todo = {}
    BY <1>0, <1>8 DEF GivesUp, ListInv
  <2>2. QED
    BY <2>1 DEF ListInv, Answered
<1>9. QED
  BY <1>3, <1>4, <1>5, <1>6, <1>7, <1>8, Zenon DEF BootMoves

\* A channel is judged once, by what was found stored of its call.
LEMMA MovesJudge ==
  ASSUME boot \in Boots, boot' \in Boots, JudgeInv, BootMoves
  PROVE  JudgeInv'
<1>0. /\ boot.report \in [Channels -> Reports] /\ boot.found \in [Channels -> Statuses]
      /\ boot.todo \subseteq Channels /\ boot.ch \subseteq Channels
  BY DEF Boots
<1>1. CASE Lists
  <2>1. /\ boot'.at = "next" /\ boot'.todo \subseteq Channels /\ boot'.ch = {}
        /\ boot'.report = boot.report /\ \A c \in Channels : boot.report[c] = ""
    BY <1>1 DEF Lists, JudgeInv
  <2>2. \A c \in Channels : Judged(c)'
    BY <2>1 DEF Judged
  <2>3. QED
    BY <2>1, <2>2 DEF JudgeInv
<1>2. CASE GivesUp \/ Finishes
  BY <1>2 DEF JudgeInv, Judged, GivesUp, Finishes
<1>3. CASE HandsOver
  BY <1>3 DEF JudgeInv, Judged, HandsOver
<1>4. ASSUME NEW c \in Channels, Picks(c)
      PROVE  JudgeInv'
  <2>1. PICK status \in Statuses :
          Fits(boot'.at, status) /\ boot'.found = [boot.found EXCEPT ![c] = status]
    BY <1>4 DEF Picks
  <2>2. boot'.found[c] = status /\ \A d \in Channels \ {c} : boot'.found[d] = boot.found[d]
    BY <1>0, <2>1
  <2>3. /\ boot'.at \in {"clip", "orphan", "stale"} /\ boot'.ch = {c} /\ boot'.report = boot.report
        /\ boot'.todo = boot.todo \ {c} /\ boot.report[c] = ""
    BY <1>4 DEF Picks, JudgeInv
  <2>4. \A d \in Channels : Judged(d)'
    <3>1. Judged(c)'
      BY <2>3 DEF Judged
    <3>2. ASSUME NEW d \in Channels \ {c}
          PROVE  Judged(d)'
      <4>1. Judged(d) /\ boot'.report[d] = boot.report[d] /\ boot'.found[d] = boot.found[d]
        BY <2>2, <2>3 DEF JudgeInv
      <4>2. QED
        BY <4>1 DEF Judged
    <3>3. QED
      BY <3>1, <3>2
  <2>5. /\ boot'.at = "clip" => boot'.found[c] = "active"
        /\ boot'.at = "stale" => boot'.found[c] = "finished"
        /\ boot'.at = "orphan" => boot'.found[c] # "finished"
    BY <2>1, <2>2 DEF Fits
  <2>6. boot'.todo \cap boot'.ch = {} /\ \A d \in boot'.todo : boot'.report[d] = ""
    BY <2>3 DEF JudgeInv
  <2>7. QED
    BY <2>3, <2>4, <2>5, <2>6 DEF JudgeInv
<1>5. ASSUME NEW c \in Channels, Answers(c)
      PROVE  JudgeInv'
  <2>1. PICK r \in {"resumed", "orphan", "stale"} :
          /\ r = IF boot.at = "clip" THEN "resumed" ELSE boot.at
          /\ boot'.report = [boot.report EXCEPT ![c] = r]
    BY <1>5 DEF Answers
  <2>2. boot'.report[c] = r /\ \A d \in Channels \ {c} : boot'.report[d] = boot.report[d]
    BY <1>0, <2>1
  <2>3. /\ boot.at \in {"clip", "orphan", "stale"} /\ c \in boot.ch /\ boot'.at = "next"
        /\ boot'.todo = boot.todo /\ boot'.ch = boot.ch /\ boot'.found = boot.found /\ c \notin boot.todo
    BY <1>5 DEF Answers, JudgeInv
  <2>4. Judged(c)'
    BY <2>1, <2>2, <2>3 DEF JudgeInv, Judged
  <2>5. \A d \in Channels : Judged(d)'
    <3>1. ASSUME NEW d \in Channels \ {c}
          PROVE  Judged(d)'
      <4>1. Judged(d) /\ boot'.report[d] = boot.report[d] /\ boot'.found[d] = boot.found[d]
        BY <2>2, <2>3 DEF JudgeInv
      <4>2. QED
        BY <4>1 DEF Judged
    <3>2. QED
      BY <2>4, <3>1
  <2>6. QED
    BY <1>0, <2>2, <2>3, <2>5 DEF JudgeInv
<1>6. QED
  BY <1>1, <1>2, <1>3, <1>4, <1>5, Zenon DEF BootMoves

\* SilenceInv is inductive.
THEOREM SilenceInvTheorem == Spec => []SilenceInv
<1>1. Init => SilenceInv
  <2>1. ASSUME Init
        PROVE  /\ boot.at = "over" /\ boot.listed = {} /\ boot.todo = {} /\ boot.ch = {}
               /\ \A c \in Channels : boot.report[c] = ""
    BY <2>1 DEF Init, Booted, Unknown
  <2>2. QED
    BY <2>1, InitTyped DEF SilenceInv, ListInv, Answered, JudgeInv, Judged
<1>2. ASSUME SilenceInv, [Next]_vars
      PROVE  SilenceInv'
  <2>0. TypeInv /\ ListInv /\ Answered /\ boot.listed \in SUBSET Channels
    BY <1>2 DEF SilenceInv, TypeInv, Boots
  <2>1. TypeInv'
    BY <1>2, <2>0, StepTyped
  <2>2. CASE Crash
    <3>1. boot' = [Booted EXCEPT !.at = "list"]
      BY <2>2, Zenon DEF Crash
    <3>2. /\ boot'.at = "list" /\ boot'.listed = {} /\ boot'.todo = {} /\ boot'.ch = {}
          /\ \A c \in Channels : boot'.report[c] = ""
      BY <3>1 DEF Booted, Unknown
    <3>3. ListInv' /\ Answered' /\ JudgeInv'
      BY <3>2 DEF ListInv, Answered, JudgeInv, Judged
    <3>4. QED
      BY <2>1, <3>3, Zenon DEF SilenceInv
  <2>3. CASE ~Crash /\ BootMoves
    <3>1. JudgeInv'
      BY <1>2, <2>1, <2>3, MovesJudge DEF SilenceInv, TypeInv
    <3>2. QED
      BY <1>2, <2>1, <2>3, <3>1, SlightsStay, MovesKeep, Zenon DEF SilenceInv
  <2>4. CASE ~Crash /\ UNCHANGED boot
    <3>1. slighted \subseteq slighted'
      BY <1>2, <2>4, SlightsStay
    <3>2. \A c \in boot.listed : channel[c] # "none" /\ channel'[c] # "none"
      BY <1>2, <2>0, ChannelsAge DEF ListInv
    <3>3. ListInv'
      BY <2>0, <2>4, <3>2 DEF ListInv
    <3>4. AtHand' = AtHand
      BY <2>4, Zenon DEF AtHand
    <3>5. \A c \in boot.listed : Settled(c) => Settled(c)'
      BY <1>2, <2>0, <2>4, <3>1, <3>2, StaysSettled
    <3>6. Answered'
      BY <2>0, <2>4, <3>4, <3>5 DEF Answered
    <3>7. JudgeInv'
      BY <1>2, <2>4 DEF SilenceInv, JudgeInv, Judged
    <3>8. QED
      BY <2>1, <3>3, <3>6, <3>7, Zenon DEF SilenceInv
  <2>5. QED
    BY <1>2, <2>0, <2>2, <2>3, <2>4, BootShape
<1>3. QED
  BY <1>1, <1>2, PTL DEF Spec

\* Once a recovery that could list the channels is over, every channel that was
\* alive has its answer, or had a command refused; and only calls with a state
\* to resume are resumed, only finished ones hung up (rehydrate.go:119-128,
\* 163-182).
THEOREM NobodyInSilenceTheorem == Spec => []NobodyInSilence
<1>1. SilenceInv => NobodyInSilence
  BY DEF SilenceInv, ListInv, Answered, AtHand, Settled, JudgeInv, Judged, NobodyInSilence
<1>2. QED
  BY <1>1, SilenceInvTheorem, PTL
-----------------------------------------------------------------------------
(* What a barge-in can stop.  An id is given out once per process, and a   *)
(* playback reported finished is over, so the report never untracks one    *)
(* that still plays - except across a restart, when ids repeat.            *)

Played(p) ==
  /\ channel[p.ch] = "up" /\ p.by <= crashes
  /\ p.by = crashes => p.id <= pbSeq
  /\ p.by # crashes => [ch |-> p.ch, id |-> p.id] \in earlier

PlayInv == \A p \in playing : Played(p)

Over(c, id) ==
  \/ [ch |-> c, id |-> id] \in earlier
  \/ id <= pbSeq /\ \A p \in playing : p.ch = c /\ p.id = id => p.by # crashes

FinishedOnce == \A i \in 1..Len(events) :
  events[i].type = "PlaybackFinished" => Over(events[i].ch, events[i].id)

CutsInv == \A c \in Channels : ~cuts[c].on => cuts[c].ids = {}

StopInv == TypeInv /\ PlayInv /\ FinishedOnce /\ CutsInv /\ Stoppable

\* Within a process ids only grow.
LEMMA IdsGrow ==
  ASSUME [Next]_vars, ~Crash, pbSeq \in Nat
  PROVE  crashes' = crashes /\ earlier' = earlier /\ pbSeq' \in {pbSeq, pbSeq + 1}
<1>1. ASSUME NEW c \in Channels,
             \/ StasisStart(c) \/ CallerHangsUp(c) \/ Track(c) \/ Release(c) \/ Hangup(c)
             \/ FlushPlayback(c) \/ FlushReturns(c) \/ StopPlayback(c)
      PROVE  crashes' = crashes /\ earlier' = earlier /\ pbSeq' = pbSeq
  BY <1>1, Zenon DEF StasisStart, CallerHangsUp, Track, Release, Hangup, FlushPlayback, FlushReturns,
                     StopPlayback, history, bounds, control
<1>2. ASSUME NEW c \in Channels, Playback(c)
      PROVE  crashes' = crashes /\ earlier' = earlier /\ pbSeq' = pbSeq + 1
  BY <1>2, Zenon DEF Playback
<1>3. ASSUME (\E p \in playing : PlaybackEnds(p)) \/ HandleEvent \/ Drain \/ DrainWakes \/ DrainTimesOut
             \/ UNCHANGED vars
      PROVE  crashes' = crashes /\ earlier' = earlier /\ pbSeq' = pbSeq
  BY <1>3, Zenon DEF PlaybackEnds, HandleEvent, Drain, DrainWakes, DrainTimesOut, history, bounds, control, vars
<1>4. ASSUME LiveChannels \/ rehydrateChannel \/ Reanchor \/ LetGo \/ BootOver
      PROVE  crashes' = crashes /\ earlier' = earlier /\ pbSeq' = pbSeq
  BY <1>4, Zenon DEF LiveChannels, rehydrateChannel, Found, Reanchor, LetGo, BootOver, Recovering
<1>5. \/ crashes' = crashes /\ earlier' = earlier /\ pbSeq' = pbSeq
      \/ crashes' = crashes /\ earlier' = earlier /\ pbSeq' = pbSeq + 1
  BY <1>1, <1>2, <1>3, <1>4, Zenon DEF Next
<1>6. QED
  BY <1>5

\* Playing channels are up, and their ids were given out by this process or
\* are known from the ones before.
LEMMA PlayKeeps ==
  ASSUME TypeInv, PlayInv, [Next]_vars
  PROVE  PlayInv'
<1>0. /\ pbSeq \in Nat /\ crashes \in Nat /\ playing \in SUBSET Playbacks
      /\ channel \in [Channels -> {"none", "up", "gone"}] /\ boot \in Boots /\ LineTypes
  BY DEF TypeInv, LineTypes, ControlTypes
<1>1. \A p \in playing : p.ch \in Channels /\ p.id \in Nat /\ p.by \in Nat /\ Played(p)
  BY <1>0 DEF Playbacks, PlayInv
<1>2. ASSUME ~Crash, NEW p \in playing, channel'[p.ch] = "up"
      PROVE  Played(p)'
  <2>1. crashes' = crashes /\ earlier' = earlier /\ pbSeq' \in {pbSeq, pbSeq + 1}
    BY <1>0, <1>2, IdsGrow
  <2>2. p.id \in Nat /\ p.by \in Nat /\ p.by <= crashes /\ (p.by = crashes => p.id <= pbSeq)
        /\ (p.by # crashes => [ch |-> p.ch, id |-> p.id] \in earlier)
    BY <1>1 DEF Played
  <2>3. p.by = crashes => p.id <= pbSeq'
    BY <1>0, <2>1, <2>2
  <2>4. QED
    BY <1>2, <2>1, <2>2, <2>3 DEF Played
<1>3. CASE ~Crash /\ Grows
  <2>1. CASE UNCHANGED asterisk
    BY <1>1, <1>2, <1>3, <2>1 DEF asterisk, PlayInv, Played
  <2>2. ASSUME NEW c \in Channels, Starts(c)
        PROVE  PlayInv'
    <3>1. \A p \in playing : channel'[p.ch] = "up"
      BY <1>0, <1>1, <2>2 DEF Starts, Played
    <3>2. QED
      BY <1>2, <1>3, <2>2, <3>1 DEF Starts, PlayInv
  <2>3. ASSUME NEW c \in Channels, Leaves(c)
        PROVE  PlayInv'
    <3>1. \A p \in playing' : p \in playing /\ channel'[p.ch] = "up"
      BY <1>0, <1>1, <2>3 DEF Leaves, Played
    <3>2. QED
      BY <1>2, <1>3, <3>1 DEF PlayInv
  <2>4. ASSUME NEW c \in Channels, Plays(c)
        PROVE  PlayInv'
    <3>1. \A p \in playing : channel'[p.ch] = "up"
      BY <1>1, <2>4 DEF Plays, Played
    <3>a. [ch |-> c, id |-> pbSeq + 1, by |-> crashes] \in Playbacks
      BY <1>0 DEF Playbacks
    <3>2. PICK n \in Playbacks : n = [ch |-> c, id |-> pbSeq + 1, by |-> crashes]
      BY <3>a, Zenon
    <3>3. Played(n)'
      <4>1. n.ch = c /\ n.id = pbSeq + 1 /\ n.by = crashes
        BY <3>2
      <4>2. crashes' = crashes /\ pbSeq' = pbSeq + 1 /\ channel'[c] = "up"
        BY <1>0, <1>3, <2>4, IdsGrow DEF Plays
      <4>3. QED
        BY <1>0, <4>1, <4>2 DEF Played
    <3>4. \A p \in playing' : p \in playing \/ p = n
      BY <2>4, <3>2 DEF Plays
    <3>5. QED
      BY <1>2, <1>3, <3>1, <3>3, <3>4 DEF PlayInv
  <2>5. ASSUME NEW c \in Channels, NEW id \in Nat, Ends(c, id)
        PROVE  PlayInv'
    <3>1. \A p \in playing' : p \in playing /\ channel'[p.ch] = "up"
      BY <1>1, <2>5 DEF Ends, Played
    <3>2. QED
      BY <1>2, <1>3, <3>1 DEF PlayInv
  <2>6. QED
    BY <1>3, <2>1, <2>2, <2>3, <2>4, <2>5, Zenon DEF Grows
<1>4. CASE Crash
  <2>1. /\ crashes' = crashes + 1 /\ UNCHANGED <<channel, playing>>
        /\ earlier' = earlier \cup {[ch |-> p.ch, id |-> p.id] : p \in playing}
    BY <1>4, Zenon DEF Crash
  <2>2. ASSUME NEW p \in playing
        PROVE  Played(p)'
    <3>1. channel'[p.ch] = "up" /\ p.by \in Nat /\ p.by <= crashes
      BY <1>1, <2>1 DEF Played
    <3>2. p.by # crashes' /\ p.by <= crashes'
      BY <1>0, <2>1, <3>1
    <3>3. [ch |-> p.ch, id |-> p.id] \in earlier'
      BY <2>1
    <3>4. QED
      BY <3>1, <3>2, <3>3 DEF Played
  <2>3. QED
    BY <2>1, <2>2 DEF PlayInv
<1>5. CASE ~Crash /\ (HandleEvent \/ Drain \/ DrainWakes \/ DrainTimesOut)
  <2>1. UNCHANGED <<channel, playing>>
    BY <1>5, Zenon DEF HandleEvent, Drain, DrainWakes, DrainTimesOut, asterisk
  <2>2. QED
    BY <1>1, <1>2, <1>5, <2>1 DEF PlayInv, Played
<1>6. QED
  BY <1>0, <1>3, <1>4, <1>5, StepShape

\* What is over stays over: a new playback has a new id.
LEMMA StaysOver ==
  ASSUME TypeInv, PlayInv, [Next]_vars, ~Crash,
         Grows \/ UNCHANGED playing,
         NEW c \in Channels, NEW id \in Nat, Over(c, id)
  PROVE  Over(c, id)'
<1>0. /\ pbSeq \in Nat /\ crashes \in Nat /\ playing \in SUBSET Playbacks
      /\ crashes' = crashes /\ earlier' = earlier /\ pbSeq' \in {pbSeq, pbSeq + 1}
  BY IdsGrow DEF TypeInv, LineTypes, ControlTypes
<1>1. CASE [ch |-> c, id |-> id] \in earlier
  BY <1>0, <1>1 DEF Over
<1>2. CASE id <= pbSeq /\ \A p \in playing : p.ch = c /\ p.id = id => p.by # crashes
  <2>1. id <= pbSeq'
    BY <1>0, <1>2
  <2>2. CASE playing' \in SUBSET playing
    BY <1>0, <1>2, <2>1, <2>2 DEF Over
  <2>3. CASE \E d \in Channels : playing' = playing \cup {[ch |-> d, id |-> pbSeq + 1, by |-> crashes]}
    <3>1. ASSUME NEW p \in playing', p \notin playing
          PROVE  p.id = pbSeq + 1
      BY <2>3, <3>1
    <3>2. ASSUME NEW p \in playing', p.ch = c, p.id = id
          PROVE  p.by # crashes
      <4>1. p \in playing
        BY <1>0, <1>2, <3>1, <3>2
      <4>2. QED
        BY <1>2, <3>2, <4>1
    <3>3. QED
      BY <1>0, <2>1, <3>2 DEF Over
  <2>4. playing' \in SUBSET playing
        \/ \E d \in Channels : playing' = playing \cup {[ch |-> d, id |-> pbSeq + 1, by |-> crashes]}
    <3>1. ASSUME NEW d \in Channels, NEW k \in Nat, Starts(d) \/ Leaves(d) \/ Ends(d, k)
          PROVE  playing' \in SUBSET playing
      BY <3>1 DEF Starts, Leaves, Ends
    <3>2. ASSUME NEW d \in Channels, Plays(d)
          PROVE  playing' = playing \cup {[ch |-> d, id |-> pbSeq + 1, by |-> crashes]}
      BY <3>2, Zenon DEF Plays
    <3>3. UNCHANGED playing => playing' \in SUBSET playing
      OBVIOUS
    <3>4. QED
      BY <3>1, <3>2, <3>3, Zenon DEF Grows, asterisk
  <2>5. QED
    BY <2>2, <2>3, <2>4
<1>3. QED
  BY <1>1, <1>2 DEF Over

\* Every end is announced once its playback is over.
LEMMA FinishedKeeps ==
  ASSUME TypeInv, PlayInv, FinishedOnce, [Next]_vars
  PROVE  FinishedOnce'
<1>0. /\ pbSeq \in Nat /\ crashes \in Nat /\ playing \in SUBSET Playbacks /\ events \in Seq(Events)
      /\ boot \in Boots /\ LineTypes /\ Len(events) \in Nat
  BY LenProperties DEF TypeInv, LineTypes, ControlTypes
<1>1. \A i \in 1..Len(events) : events[i] \in Events /\ events[i].ch \in Channels /\ events[i].id \in Nat
  <2>1. \A i \in 1..Len(events) : events[i] \in Events
    BY <1>0, ElementOfSeq
  <2>2. QED
    BY <2>1 DEF Events
<1>2. ASSUME ~Crash, Grows \/ UNCHANGED playing, NEW i \in 1..Len(events),
             events[i].type = "PlaybackFinished", NEW c \in Channels, NEW id \in Nat,
             c = events[i].ch, id = events[i].id
      PROVE  Over(c, id)'
  <2>1. Over(c, id)
    BY <1>2 DEF FinishedOnce
  <2>2. QED
    BY <1>2, <2>1, StaysOver
<1>3. ASSUME ~Crash, Grows, NEW e \in Events, events' = Append(events, e),
             NEW c \in Channels, NEW id \in Nat, c = e.ch, id = e.id,
             e.type = "PlaybackFinished" => Over(c, id)'
      PROVE  FinishedOnce'
  <2>1. /\ Len(events') = Len(events) + 1 /\ events'[Len(events) + 1] = e
        /\ \A i \in 1..Len(events) : events'[i] = events[i]
    BY <1>0, <1>3, Announced
  <2>2. SUFFICES ASSUME NEW i \in 1..Len(events'), events'[i].type = "PlaybackFinished"
                 PROVE  Over(events[i].ch, events[i].id)'
    BY DEF FinishedOnce
  <2>3. CASE i \in 1..Len(events)
    <3>1. events'[i] = events[i]
      BY <2>1, <2>3
    <3>2. PICK d \in Channels, k \in Nat : d = events[i].ch /\ k = events[i].id
      BY <1>1, <2>3
    <3>3. Over(d, k)'
      BY <1>2, <1>3, <2>2, <2>3, <3>1, <3>2
    <3>4. events'[i].ch = d /\ events'[i].id = k
      BY <3>1, <3>2
    <3>5. QED
      BY <3>3, <3>4, Zenon DEF Over
  <2>4. CASE i \notin 1..Len(events)
    <3>1. events'[i] = e
      BY <1>0, <2>1, <2>2, <2>4
    <3>2. Over(c, id)' /\ events'[i].ch = c /\ events'[i].id = id
      BY <1>3, <2>2, <3>1
    <3>3. QED
      BY <3>2, Zenon DEF Over
  <2>5. QED
    BY <2>3, <2>4
<1>4. ASSUME ~Crash, Grows \/ UNCHANGED playing, events' = events
      PROVE  FinishedOnce'
  <2>1. SUFFICES ASSUME NEW i \in 1..Len(events'), events'[i].type = "PlaybackFinished"
                 PROVE  Over(events[i].ch, events[i].id)'
    BY DEF FinishedOnce
  <2>2. events'[i] = events[i] /\ i \in 1..Len(events)
    BY <1>4, <2>1
  <2>3. PICK d \in Channels, k \in Nat : d = events[i].ch /\ k = events[i].id
    BY <1>1, <2>2
  <2>4. Over(d, k)'
    BY <1>2, <1>4, <2>1, <2>2, <2>3
  <2>5. events'[i].ch = d /\ events'[i].id = k
    BY <2>2, <2>3
  <2>6. QED
    BY <2>4, <2>5, Zenon DEF Over
<1>5. CASE ~Crash /\ Grows
  <2>0. "StasisStart" \in Types /\ "StasisEnd" \in Types /\ "PlaybackFinished" \in Types /\ 0 \in Nat
        /\ "StasisStart" # "PlaybackFinished" /\ "StasisEnd" # "PlaybackFinished"
    BY DEF Types
  <2>1. ASSUME NEW c \in Channels, Starts(c) \/ Leaves(c)
        PROVE  FinishedOnce'
    <3>1. \E e \in Events : events' = Append(events, e) /\ e.ch = c /\ e.id = 0 /\ e.type # "PlaybackFinished"
      <4>1. /\ Event("StasisStart", c, 0) \in Events /\ Event("StasisStart", c, 0).type # "PlaybackFinished"
            /\ Event("StasisStart", c, 0).ch = c /\ Event("StasisStart", c, 0).id = 0
        BY <2>0, EventTyped
      <4>2. /\ Event("StasisEnd", c, 0) \in Events /\ Event("StasisEnd", c, 0).type # "PlaybackFinished"
            /\ Event("StasisEnd", c, 0).ch = c /\ Event("StasisEnd", c, 0).id = 0
        BY <2>0, EventTyped
      <4>3. QED
        BY <2>1, <4>1, <4>2, Zenon DEF Starts, Leaves
    <3>2. QED
      BY <1>3, <1>5, <2>0, <3>1
  <2>2. ASSUME NEW c \in Channels, NEW id \in Nat, Ends(c, id)
        PROVE  FinishedOnce'
    <3>1. PICK e \in Events : events' = Append(events, e) /\ e.ch = c /\ e.id = id
      BY <2>0, <2>2, EventTyped DEF Ends
    <3>2. PICK p \in playing : p.ch = c /\ p.id = id /\ playing' \in SUBSET (playing \ {p})
      BY <2>2 DEF Ends
    <3>3. Played(p) /\ p.by \in Nat /\ crashes' = crashes /\ earlier' = earlier /\ pbSeq' \in {pbSeq, pbSeq + 1}
      BY <1>0, <1>5, IdsGrow DEF PlayInv, Playbacks
    <3>4. Over(c, id)'
      <4>1. CASE p.by # crashes
        BY <3>2, <3>3, <4>1 DEF Played, Over
      <4>2. CASE p.by = crashes
        <5>1. id <= pbSeq'
          BY <1>0, <3>2, <3>3, <4>2 DEF Played
        <5>2. ASSUME NEW q \in playing', q.ch = c, q.id = id
              PROVE  q.by # crashes
          <6>1. q \in Playbacks /\ p \in Playbacks /\ q # p
            BY <1>0, <3>2, <5>2
          <6>2. QED
            BY <3>2, <4>2, <5>2, <6>1 DEF Playbacks
        <5>3. QED
          BY <3>3, <5>1, <5>2 DEF Over
      <4>3. QED
        BY <4>1, <4>2
    <3>5. QED
      BY <1>3, <1>5, <3>1, <3>4
  <2>3. ASSUME NEW c \in Channels, Plays(c)
        PROVE  FinishedOnce'
    BY <1>4, <1>5, <2>3 DEF Plays
  <2>4. CASE UNCHANGED asterisk
    BY <1>4, <1>5, <2>4 DEF asterisk
  <2>5. QED
    BY <1>5, <2>1, <2>2, <2>3, <2>4, Zenon DEF Grows
<1>6. CASE ~Crash /\ HandleEvent
  <2>1. /\ UNCHANGED playing /\ Len(events') = Len(events) - 1
        /\ \A i \in 1..Len(events') : events'[i] = events[i + 1]
    BY <1>0, <1>6, Handled, Taken DEF Takes
  <2>2. SUFFICES ASSUME NEW i \in 1..Len(events'), events'[i].type = "PlaybackFinished"
                 PROVE  Over(events[i].ch, events[i].id)'
    BY DEF FinishedOnce
  <2>3. events'[i] = events[i + 1] /\ i + 1 \in 1..Len(events)
    BY <1>0, <2>1, <2>2
  <2>4. PICK j \in 1..Len(events) : j = i + 1
    BY <2>3
  <2>5. PICK d \in Channels, k \in Nat : d = events[j].ch /\ k = events[j].id
    BY <1>1
  <2>6. Over(d, k)'
    BY <1>2, <1>6, <2>1, <2>2, <2>3, <2>4, <2>5
  <2>7. events'[i].ch = d /\ events'[i].id = k
    BY <2>3, <2>4, <2>5
  <2>8. QED
    BY <2>6, <2>7, Zenon DEF Over
<1>7. CASE Crash
  <2>1. events' = << >>
    BY <1>7, Zenon DEF Crash
  <2>2. QED
    BY <2>1, FreshDrain DEF FinishedOnce
<1>8. CASE ~Crash /\ (Drain \/ DrainWakes \/ DrainTimesOut)
  BY <1>4, <1>8, Zenon DEF Drain, DrainWakes, DrainTimesOut, asterisk
<1>9. QED
  BY <1>0, <1>5, <1>6, <1>7, <1>8, StepShape

\* A flush that is not under way has nothing left to stop.
LEMMA CutsKeep ==
  ASSUME TypeInv, CutsInv, [Next]_vars
  PROVE  CutsInv'
<1>0. cuts \in [Channels -> Cuts]
  BY DEF TypeInv, ControlTypes
<1>1. ASSUME NEW c \in Channels, FlushPlayback(c) \/ StopPlayback(c) \/ FlushReturns(c)
      PROVE  CutsInv'
  <2>1. \A d \in Channels : d # c => cuts'[d] = cuts[d]
    BY <1>0, <1>1 DEF FlushPlayback, StopPlayback, FlushReturns
  <2>2. cuts'[c].on \/ cuts'[c].ids = {}
    <3>1. CASE FlushPlayback(c)
      <4>1. PICK on \in BOOLEAN : on = TRUE
        OBVIOUS
      <4>2. cuts' = [cuts EXCEPT ![c] = [on |-> on, ids |-> tracked[c]]]
        BY <3>1, <4>1, Zenon DEF FlushPlayback
      <4>3. cuts'[c].on = on
        BY <1>0, <4>2
      <4>4. QED
        BY <4>1, <4>3, Zenon
    <3>2. CASE StopPlayback(c)
      <4>1. PICK id : cuts' = [cuts EXCEPT ![c].ids = @ \ {id}]
        BY <3>2, Zenon DEF StopPlayback
      <4>2. cuts'[c].on = cuts[c].on
        BY <1>0, <4>1 DEF Cuts
      <4>3. cuts[c].on
        BY <3>2 DEF StopPlayback
      <4>4. QED
        BY <4>2, <4>3, Zenon
    <3>3. CASE FlushReturns(c)
      <4>1. PICK on \in BOOLEAN : cuts' = [cuts EXCEPT ![c].on = on]
        <5>1. FALSE \in BOOLEAN
          OBVIOUS
        <5>2. QED
          BY <3>3, <5>1, Zenon DEF FlushReturns
      <4>2. cuts[c].ids = {}
        BY <3>3 DEF FlushReturns
      <4>3. cuts'[c].ids = {}
        BY <1>0, <4>1, <4>2 DEF Cuts
      <4>4. QED
        BY <4>3, Zenon
    <3>4. QED
      BY <1>1, <3>1, <3>2, <3>3
  <2>3. \A d \in Channels : d # c => (cuts'[d].on \/ cuts'[d].ids = {})
    BY <2>1, Zenon DEF CutsInv
  <2>4. QED
    BY <2>2, <2>3, Zenon DEF CutsInv
<1>2. ASSUME Crash
      PROVE  CutsInv'
  <2>1. cuts' = NoCuts
    BY <1>2, Zenon DEF Crash
  <2>2. \A f \in BOOLEAN : \A d \in Channels : [c \in Channels |-> [on |-> f, ids |-> {}]][d].ids = {}
    OBVIOUS
  <2>3. FALSE \in BOOLEAN
    OBVIOUS
  <2>4. \A d \in Channels : NoCuts[d].ids = {}
    BY <2>2, <2>3, Zenon DEF NoCuts
  <2>5. QED
    BY <2>1, <2>4, Zenon DEF CutsInv
<1>3. ASSUME UNCHANGED cuts
      PROVE  CutsInv'
  BY <1>3, Zenon DEF CutsInv
<1>4. ASSUME NEW c \in Channels,
             StasisStart(c) \/ CallerHangsUp(c) \/ Playback(c) \/ Track(c) \/ Release(c) \/ Hangup(c)
      PROVE  UNCHANGED cuts
  BY <1>4, Zenon DEF StasisStart, CallerHangsUp, Playback, Track, Release, Hangup, control
<1>5. ASSUME (\E p \in playing : PlaybackEnds(p)) \/ HandleEvent \/ Drain \/ DrainWakes \/ DrainTimesOut
             \/ UNCHANGED vars
      PROVE  UNCHANGED cuts
  BY <1>5, Zenon DEF PlaybackEnds, HandleEvent, Drain, DrainWakes, DrainTimesOut, control, vars
<1>6. ASSUME LiveChannels \/ rehydrateChannel \/ Reanchor \/ LetGo \/ BootOver
      PROVE  UNCHANGED cuts
  BY <1>6, Zenon DEF LiveChannels, rehydrateChannel, Found, Reanchor, LetGo, BootOver, Recovering
<1>7. QED
  BY <1>1, <1>2, <1>3, <1>4, <1>5, <1>6, Zenon DEF Next

\* Stoppable, playback by playback: who could stop it.
Within(p) == \/ p.id \in tracked[p.ch] \/ p.id \in cuts[p.ch].ids
             \/ calls[p.ch] = [does |-> "play", id |-> p.id] \/ calls[p.ch].does = "release"
Held(p) == p.by = crashes /\ p.ch \notin slighted /\ [ch |-> p.ch, id |-> p.id] \notin earlier => Within(p)

\* A playback that can be stopped is held by somebody, before and after a step.
LEMMA StoppableHeld == /\ Stoppable <=> \A p \in playing : Held(p)
                       /\ Stoppable' <=> \A p \in playing' : Held(p)'
<1>1. Stoppable <=> \A p \in playing : Held(p)
  BY DEF Stoppable, Held, Within
<1>2. Stoppable' <=> \A p \in playing' : Held(p)'
  BY DEF Stoppable, Held, Within
<1>3. QED
  BY <1>1, <1>2

\* A playback that goes on stays held if what holds it does.
LEMMA HoldsOn ==
  ASSUME TypeInv, [Next]_vars, ~Crash, NEW p, Held(p),
         p.by = crashes /\ p.ch \notin slighted' /\ [ch |-> p.ch, id |-> p.id] \notin earlier
           /\ Within(p) => Within(p)'
  PROVE  Held(p)'
<1>1. crashes' = crashes /\ earlier' = earlier
  BY IdsGrow DEF TypeInv, ControlTypes
<1>2. slighted \subseteq slighted'
  BY SlightsStay
<1>3. QED
  BY <1>1, <1>2 DEF Held

\* Steps that touch neither the ids nor the goroutines and start no playback.
LEMMA HoldFrame ==
  ASSUME TypeInv, Stoppable, [Next]_vars, ~Crash, UNCHANGED <<tracked, cuts, calls>>,
         playing' \in SUBSET playing
  PROVE  Stoppable'
<1>1. \A p : Within(p) => Within(p)'
  BY Zenon DEF Within
<1>2. \A p \in playing : Held(p) => Held(p)'
  BY <1>1, HoldsOn
<1>3. QED
  BY <1>2, StoppableHeld

\* A command sent to a channel leaves no playback on it, or was refused.
LEMMA CommandedEnds ==
  ASSUME TypeInv, PlayInv, NEW c \in Channels, Commanded(c)
  PROVE  /\ playing' \in SUBSET playing
         /\ \A p \in playing' : p.ch = c => c \in slighted'
<1>1. \A p \in playing : channel[p.ch] = "up"
  BY DEF PlayInv, Played
<1>2. CASE Leaves(c)
  BY <1>2 DEF Leaves
<1>3. CASE channel[c] # "up" /\ UNCHANGED asterisk
  BY <1>1, <1>3 DEF asterisk
<1>4. CASE Refused(c) /\ UNCHANGED asterisk
  BY <1>4 DEF asterisk, Refused
<1>5. QED
  BY <1>2, <1>3, <1>4, Zenon DEF Commanded

\* A new playback is known to its caller, or its channel had the command refused.
LEMMA PlaybackHeld ==
  ASSUME StopInv, [Next]_vars, ~Crash, NEW c \in Channels, Playback(c)
  PROVE  Stoppable'
<1>0. /\ TypeInv /\ Stoppable /\ pbSeq \in Nat /\ crashes \in Nat /\ playing \in SUBSET Playbacks
      /\ calls \in [Channels -> Calls] /\ crashes' = crashes /\ earlier' = earlier
  BY IdsGrow DEF StopInv, TypeInv, LineTypes, ControlTypes
<1>1. UNCHANGED <<tracked, cuts>> /\ calls[c].does = "nothing"
  BY Zenon DEF Playback
<1>2. \/ UNCHANGED <<playing, calls>>
      \/ /\ playing' = playing \cup {[ch |-> c, id |-> pbSeq + 1, by |-> crashes]}
         /\ \/ calls' = [calls EXCEPT ![c] = [does |-> "play", id |-> pbSeq + 1]]
            \/ c \in slighted' /\ UNCHANGED calls
  <2>1. Refused(c) => c \in slighted'
    BY DEF Refused
  <2>2. QED
    BY <2>1, Zenon DEF Playback
<1>3. ASSUME NEW p \in playing
      PROVE  Held(p)'
  <2>1. p.ch \in Channels /\ Held(p)
    BY <1>0, StoppableHeld DEF Playbacks
  <2>2. calls[p.ch].does # "nothing" => calls'[p.ch] = calls[p.ch]
    BY <1>0, <1>1, <1>2, <2>1
  <2>3. calls[p.ch] = [does |-> "play", id |-> p.id] => calls[p.ch].does = "play"
    OBVIOUS
  <2>4. Within(p) => Within(p)'
    BY <1>1, <2>2, <2>3 DEF Within
  <2>5. QED
    BY <1>0, <2>1, <2>4, HoldsOn
<1>4. ASSUME NEW p \in playing', p \notin playing
      PROVE  Held(p)'
  <2>1. p = [ch |-> c, id |-> pbSeq + 1, by |-> crashes]
    BY <1>2, <1>4
  <2>2. p.ch = c /\ p.id = pbSeq + 1
    BY <2>1
  <2>3. c \in slighted' \/ calls' = [calls EXCEPT ![c] = [does |-> "play", id |-> pbSeq + 1]]
    BY <1>2, <1>4
  <2>4. CASE c \in slighted'
    BY <2>2, <2>4 DEF Held
  <2>5. CASE calls' = [calls EXCEPT ![c] = [does |-> "play", id |-> pbSeq + 1]]
    <3>1. calls'[c] = [does |-> "play", id |-> pbSeq + 1]
      BY <1>0, <2>5
    <3>2. QED
      BY <2>2, <3>1, Zenon DEF Held, Within
  <2>6. QED
    BY <2>3, <2>4, <2>5
<1>5. QED
  BY <1>3, <1>4, StoppableHeld

\* Tracking, releasing and taking the ids out for a flush pass a playback
\* from one holder to the next.
LEMMA HandedOn ==
  ASSUME StopInv, [Next]_vars, ~Crash, NEW c \in Channels,
         Track(c) \/ Release(c) \/ FlushPlayback(c) \/ FlushReturns(c)
  PROVE  Stoppable'
<1>0. /\ TypeInv /\ Stoppable /\ CutsInv /\ playing \in SUBSET Playbacks
      /\ tracked \in [Channels -> SUBSET Nat]
      /\ calls \in [Channels -> Calls] /\ cuts \in [Channels -> Cuts]
  BY DEF StopInv, TypeInv, LineTypes, ControlTypes
<1>1. UNCHANGED playing
  BY Zenon DEF Track, Release, FlushPlayback, FlushReturns, asterisk
<1>2. ASSUME NEW p \in playing, Within(p)
      PROVE  Within(p)'
  <2>0. p.ch \in Channels
    BY <1>0 DEF Playbacks
  <2>1. CASE Track(c)
    <3>1. /\ tracked' = [tracked EXCEPT ![c] = @ \cup {calls[c].id}]
          /\ calls' = [calls EXCEPT ![c] = Quiet[c]] /\ calls[c].does = "play" /\ UNCHANGED cuts
      BY <2>1, Zenon DEF Track
    <3>2. calls[p.ch] = [does |-> "play", id |-> p.id] => calls[p.ch].id = p.id
      OBVIOUS
    <3>3. QED
      BY <1>0, <1>2, <2>0, <3>1, <3>2 DEF Within
  <2>2. CASE Release(c)
    <3>1. /\ tracked' = [tracked EXCEPT ![c] = {}] /\ calls' = [calls EXCEPT ![c].does = "release"]
          /\ UNCHANGED cuts
      BY <2>2, Zenon DEF Release, forget
    <3>2. calls'[c].does = "release"
      BY <1>0, <3>1 DEF Calls
    <3>3. p.ch # c => calls'[p.ch] = calls[p.ch] /\ tracked'[p.ch] = tracked[p.ch]
      BY <1>0, <2>0, <3>1
    <3>4. QED
      BY <1>2, <3>1, <3>2, <3>3 DEF Within
  <2>3. CASE FlushPlayback(c)
    <3>1. PICK on \in BOOLEAN :
            /\ cuts' = [cuts EXCEPT ![c] = [on |-> on, ids |-> tracked[c]]]
            /\ tracked' = [tracked EXCEPT ![c] = {}] /\ UNCHANGED calls
      <4>1. TRUE \in BOOLEAN
        OBVIOUS
      <4>2. QED
        BY <2>3, <4>1, Zenon DEF FlushPlayback, forget
    <3>2. cuts[c].ids = {}
      BY <1>0, <2>3 DEF FlushPlayback, CutsInv
    <3>3. cuts'[c].ids = tracked[c]
      BY <1>0, <3>1
    <3>4. p.ch # c => cuts'[p.ch] = cuts[p.ch] /\ tracked'[p.ch] = tracked[p.ch]
      BY <1>0, <2>0, <3>1
    <3>5. QED
      BY <1>2, <3>1, <3>2, <3>3, <3>4 DEF Within
  <2>4. CASE FlushReturns(c)
    <3>1. PICK on \in BOOLEAN : cuts' = [cuts EXCEPT ![c].on = on] /\ UNCHANGED <<tracked, calls>>
      <4>1. FALSE \in BOOLEAN
        OBVIOUS
      <4>2. QED
        BY <2>4, <4>1, Zenon DEF FlushReturns
    <3>2. \A d \in Channels : cuts'[d].ids = cuts[d].ids
      BY <1>0, <3>1 DEF Cuts
    <3>3. QED
      BY <1>2, <2>0, <3>1, <3>2 DEF Within
  <2>5. QED
    BY <2>1, <2>2, <2>3, <2>4
<1>3. \A p \in playing : Held(p) => Held(p)'
  BY <1>0, <1>2, HoldsOn
<1>4. QED
  BY <1>0, <1>1, <1>3, StoppableHeld

\* The release of a call, and the recovery's, forget ids only of a channel
\* on which nothing plays afterwards, or had the command refused.
LEMMA ReleasedHeld ==
  ASSUME StopInv, [Next]_vars, ~Crash,
         NEW c \in Channels, Hangup(c) \/ (LetGo /\ Commanded(c) /\ forget(c))
  PROVE  Stoppable'
<1>0. /\ TypeInv /\ PlayInv /\ Stoppable /\ playing \in SUBSET Playbacks
      /\ tracked \in [Channels -> SUBSET Nat] /\ calls \in [Channels -> Calls]
  BY DEF StopInv, TypeInv, LineTypes, ControlTypes
<1>1. Commanded(c)
  BY DEF Hangup
<1>2. playing' \in SUBSET playing /\ \A p \in playing' : p.ch = c => c \in slighted'
  BY <1>0, <1>1, CommandedEnds
<1>3. /\ tracked' = tracked \/ tracked' = [tracked EXCEPT ![c] = {}]
      /\ calls' = calls \/ calls' = [calls EXCEPT ![c] = Quiet[c]]
      /\ UNCHANGED cuts
  BY Zenon DEF Hangup, LetGo, Recovering, forget
<1>4. ASSUME NEW p \in playing', Held(p)
      PROVE  Held(p)'
  <2>1. p \in playing /\ p.ch \in Channels
    BY <1>0, <1>2 DEF Playbacks
  <2>2. CASE p.ch = c
    BY <1>2, <2>2 DEF Held
  <2>3. CASE p.ch # c
    <3>1. tracked'[p.ch] = tracked[p.ch] /\ calls'[p.ch] = calls[p.ch]
      BY <1>0, <1>3, <2>1, <2>3
    <3>2. Within(p) => Within(p)'
      BY <1>3, <3>1 DEF Within
    <3>3. QED
      BY <1>0, <1>4, <3>2, HoldsOn
  <2>4. QED
    BY <2>2, <2>3
<1>5. QED
  BY <1>0, <1>2, <1>4, StoppableHeld

\* A flush lets go of an id only when nothing plays under it any more, or
\* Asterisk refused the stop.
LEMMA StopHeld ==
  ASSUME StopInv, [Next]_vars, ~Crash, NEW c \in Channels, StopPlayback(c)
  PROVE  Stoppable'
<1>0. /\ TypeInv /\ Stoppable /\ playing \in SUBSET Playbacks /\ cuts \in [Channels -> Cuts]
  BY DEF StopInv, TypeInv, LineTypes, ControlTypes
<1>1. PICK id \in cuts[c].ids :
        LET here == {p \in playing : p.ch = c /\ p.id = id} IN
        /\ cuts' = [cuts EXCEPT ![c].ids = @ \ {id}]
        /\ \/ playing' = playing \ here
           \/ here = {} /\ UNCHANGED playing
           \/ Refused(c) /\ UNCHANGED playing
  BY Zenon DEF StopPlayback
<1>2. UNCHANGED <<tracked, calls>>
  BY DEF StopPlayback
<1>3. playing' \in SUBSET playing
  BY <1>1
<1>4. \A p \in playing' : p.ch = c /\ p.id = id => c \in slighted'
  BY <1>1 DEF Refused
<1>5. /\ \A d \in Channels : d # c => cuts'[d] = cuts[d]
      /\ cuts'[c].ids = cuts[c].ids \ {id}
  BY <1>0, <1>1 DEF Cuts
<1>6. ASSUME NEW p \in playing', Held(p)
      PROVE  Held(p)'
  <2>1. p.ch \in Channels
    BY <1>0, <1>3 DEF Playbacks
  <2>2. CASE p.ch = c /\ p.id = id
    BY <1>4, <2>2 DEF Held
  <2>3. CASE ~(p.ch = c /\ p.id = id)
    <3>1. Within(p) => Within(p)'
      BY <1>2, <1>5, <2>1, <2>3 DEF Within
    <3>2. QED
      BY <1>0, <1>6, <3>1, HoldsOn
  <2>4. QED
    BY <2>2, <2>3
<1>7. QED
  BY <1>0, <1>3, <1>6, StoppableHeld

\* The end of a playback untracks an id under which nothing of this process
\* plays.
LEMMA HandledHeld ==
  ASSUME StopInv, [Next]_vars, ~Crash, HandleEvent
  PROVE  Stoppable'
<1>0. /\ TypeInv /\ FinishedOnce /\ Stoppable /\ playing \in SUBSET Playbacks
      /\ tracked \in [Channels -> SUBSET Nat] /\ events \in Seq(Events)
      /\ UNCHANGED <<playing, calls, cuts>> /\ crashes' = crashes /\ earlier' = earlier
  BY IdsGrow DEF StopInv, TypeInv, LineTypes, ControlTypes, HandleEvent
<1>1. PICK e \in Events : e = Head(events)
  BY <1>0, Handled
<1>2. e = events[1] /\ Len(events) \in Nat \ {0} /\ e.ch \in Channels /\ e.id \in Nat
  BY <1>0, <1>1, Handled, Taken
<1>3. CASE UNCHANGED tracked
  BY <1>0, <1>3, HoldFrame
<1>4. CASE e.type = "PlaybackFinished" /\ PlaybackFinished(e.ch, e.id)
  <2>1. tracked' = [tracked EXCEPT ![e.ch] = @ \ {e.id}]
    BY <1>4 DEF PlaybackFinished
  <2>2. Over(e.ch, e.id)
    BY <1>0, <1>2, <1>4 DEF FinishedOnce
  <2>3. ASSUME NEW p \in playing, Held(p)
        PROVE  Held(p)'
    <3>1. p.ch \in Channels /\ p.id \in Nat
      BY <1>0 DEF Playbacks
    <3>2. CASE p.ch = e.ch /\ p.id = e.id
      <4>1. p.by # crashes \/ [ch |-> p.ch, id |-> p.id] \in earlier
        BY <2>2, <3>2 DEF Over
      <4>2. QED
        BY <1>0, <4>1 DEF Held
    <3>3. CASE ~(p.ch = e.ch /\ p.id = e.id)
      <4>1. Within(p) => Within(p)'
        BY <1>0, <1>2, <2>1, <3>1, <3>3 DEF Within
      <4>2. QED
        BY <1>0, <2>3, <4>1, HoldsOn
    <3>4. QED
      BY <3>2, <3>3
  <2>4. QED
    BY <1>0, <2>3, StoppableHeld
<1>5. QED
  BY <1>1, <1>3, <1>4, Zenon DEF HandleEvent

\* StopInv is inductive.
THEOREM StopInvTheorem == Spec => []StopInv
<1>1. Init => StopInv
  <2>1. SUFFICES ASSUME Init
                 PROVE  PlayInv /\ FinishedOnce /\ CutsInv /\ Stoppable
    BY InitTyped, Zenon DEF StopInv
  <2>2. playing = {} /\ events = << >> /\ cuts = NoCuts
    BY <2>1, Zenon DEF Init
  <2>3. CutsInv
    <3>1. \A f \in BOOLEAN : \A d \in Channels : [c \in Channels |-> [on |-> f, ids |-> {}]][d].ids = {}
      OBVIOUS
    <3>2. FALSE \in BOOLEAN
      OBVIOUS
    <3>3. \A d \in Channels : NoCuts[d].ids = {}
      BY <3>1, <3>2, Zenon DEF NoCuts
    <3>4. QED
      BY <2>2, <3>3, Zenon DEF CutsInv
  <2>4. QED
    BY <2>2, <2>3, FreshDrain DEF PlayInv, FinishedOnce, Stoppable
<1>2. ASSUME StopInv, [Next]_vars
      PROVE  StopInv'
  <2>0. TypeInv /\ PlayInv /\ FinishedOnce /\ CutsInv /\ Stoppable /\ boot \in Boots
    BY <1>2 DEF StopInv, TypeInv
  <2>1. TypeInv' /\ PlayInv' /\ FinishedOnce' /\ CutsInv'
    BY <1>2, <2>0, StepTyped, PlayKeeps, FinishedKeeps, CutsKeep
  <2>2. ASSUME Crash
        PROVE  Stoppable'
    <3>1. playing' = playing /\ crashes' = crashes + 1
      BY <2>2, Zenon DEF Crash
    <3>2. \A p \in playing : p.by <= crashes /\ p.by \in Nat /\ crashes \in Nat
      BY <2>0 DEF PlayInv, Played, TypeInv, LineTypes, ControlTypes, Playbacks
    <3>3. \A p \in playing : p.by # crashes'
      BY <3>1, <3>2
    <3>4. QED
      BY <3>1, <3>3, StoppableHeld DEF Held
  <2>3. ASSUME ~Crash, NEW c \in Channels, StasisStart(c) \/ CallerHangsUp(c)
        PROVE  Stoppable'
    <3>1. UNCHANGED <<tracked, cuts, calls>> /\ playing' \in SUBSET playing
      BY <2>3 DEF StasisStart, CallerHangsUp, Leaves, control
    <3>2. QED
      BY <1>2, <2>0, <2>3, <3>1, HoldFrame
  <2>4. ASSUME ~Crash, NEW p \in playing, PlaybackEnds(p)
        PROVE  Stoppable'
    <3>1. UNCHANGED <<tracked, cuts, calls>> /\ playing' \in SUBSET playing
      BY <2>4 DEF PlaybackEnds, control
    <3>2. QED
      BY <1>2, <2>0, <2>4, <3>1, HoldFrame
  <2>5. ASSUME ~Crash, \/ Drain \/ DrainWakes \/ DrainTimesOut \/ UNCHANGED vars
                       \/ LiveChannels \/ rehydrateChannel \/ Reanchor \/ BootOver
        PROVE  Stoppable'
    <3>1. UNCHANGED <<tracked, cuts, calls>> /\ UNCHANGED playing
      BY <2>5, Zenon DEF Drain, DrainWakes, DrainTimesOut, vars, control, asterisk,
                  LiveChannels, rehydrateChannel, Found, Reanchor, BootOver, Recovering
    <3>2. playing' \in SUBSET playing
      BY <3>1
    <3>3. QED
      BY <1>2, <2>0, <2>5, <3>1, <3>2, HoldFrame
  <2>6. ASSUME ~Crash, LetGo
        PROVE  Stoppable'
    <3>1. PICK c \in boot.ch : forget(c) /\ Commanded(c)
      BY <2>6, Zenon DEF LetGo
    <3>2. c \in Channels
      BY <2>0 DEF Boots
    <3>3. QED
      BY <1>2, <2>6, <3>1, <3>2, ReleasedHeld
  <2>7. ASSUME ~Crash, NEW c \in Channels,
               \/ Playback(c) \/ Track(c) \/ Release(c) \/ Hangup(c)
               \/ FlushPlayback(c) \/ StopPlayback(c) \/ FlushReturns(c)
        PROVE  Stoppable'
    BY <1>2, <2>7, PlaybackHeld, HandedOn, ReleasedHeld, StopHeld
  <2>8. ASSUME ~Crash, HandleEvent
        PROVE  Stoppable'
    BY <1>2, <2>8, HandledHeld
  <2>9. Stoppable'
    BY <1>2, <2>2, <2>3, <2>4, <2>5, <2>6, <2>7, <2>8, Zenon DEF Next
  <2>10. QED
    BY <2>1, <2>9, Zenon DEF StopInv
<1>3. QED
  BY <1>1, <1>2, PTL DEF Spec

\* A barge-in can silence whatever this process plays (callcontrol.go:25-27,
\* 86-89).
THEOREM StoppableTheorem == Spec => []Stoppable
<1>1. StopInv => Stoppable
  BY DEF StopInv
<1>2. QED
  BY <1>1, StopInvTheorem, PTL
=============================================================================
