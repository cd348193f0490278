------------------------------ MODULE Asterisk ------------------------------
(***************************************************************************)
(* The Asterisk backend (go/internal/asterisk): call control with its      *)
(* playback bookkeeping (callcontrol.go), the blue/green drain (drain.go)  *)
(* and the boot recovery (rehydrate.go), in a process that may crash and   *)
(* start again while Asterisk (external) keeps its channels.               *)
(*                                                                         *)
(* Asterisk takes commands, any of which it may refuse or, for Play, leave *)
(* unconfirmed, and reports what happens in order over one event socket;   *)
(* a crash loses the events under way.  A playback's id is its channel and *)
(* a number, counted per process.  The goroutine of a call commands one    *)
(* thing at a time; its barge-in may flush meanwhile.                      *)
(***************************************************************************)
EXTENDS Naturals, Sequences, FiniteSets

CONSTANTS
  Channels,
  MaxPlays,    \* bound: playbacks
  MaxRefusals, \* bound: commands refused or unconfirmed, loads and clips that fail
  MaxCrashes,  \* bound: crashes
  MaxDrains    \* bound: processes that drain, the first ones

ASSUME AsteriskAssumption == {MaxPlays, MaxRefusals, MaxCrashes, MaxDrains} \subseteq Nat

VARIABLES
  channel,  \* [Channels -> "none", "up", or "gone": hung up or back in the dialplan]
  playing,  \* playbacks under way: channel, number, process that started it
  events,   \* the event socket
  pbSeq, tracked,  \* CallControl: ids given out, [Channels -> tracked ids]
  calls,    \* [Channels -> the call's goroutine: what it is doing, the id at hand]
  cuts,     \* [Channels -> FlushPlayback: running, ids still to stop]
  drainer,  \* active channels, draining flag, the empty channel, Drain's progress
  boot,     \* the recovery: step, channels listed and to do, the one at hand, the
            \* status found stored of each, the report on each
  plays, refusals, crashes,
  slighted, \* history: channels on which this process had a command refused
  earlier   \* history: ids of earlier processes

asterisk == <<channel, playing, events>>
control  == <<pbSeq, tracked, calls, cuts>>
bounds   == <<plays, refusals, crashes>>
history  == <<slighted, earlier>>
vars     == <<asterisk, control, drainer, boot, bounds, history>>

Quiet      == [c \in Channels |-> [does |-> "nothing", id |-> 0]]
NoCuts     == [c \in Channels |-> [on |-> FALSE, ids |-> {}]]
NewDrainer == [active |-> {}, draining |-> FALSE, empty |-> "none", at |-> "no", before |-> {}]
Unknown    == [c \in Channels |-> ""]
Booted     == [at |-> "over", listed |-> {}, todo |-> {}, ch |-> {}, found |-> Unknown, report |-> Unknown]

Init ==
  /\ channel = [c \in Channels |-> "none"] /\ playing = {} /\ events = <<>>
  /\ pbSeq = 0 /\ tracked = [c \in Channels |-> {}] /\ calls = Quiet /\ cuts = NoCuts
  /\ drainer = NewDrainer /\ boot = Booted
  /\ plays = 0 /\ refusals = 0 /\ crashes = 0 /\ slighted = {} /\ earlier = {}

Event(type, c, id) == [type |-> type, ch |-> c, id |-> id]

Refused(c) ==
  /\ refusals < MaxRefusals /\ refusals' = refusals + 1
  /\ slighted' = slighted \cup {c}
Granted == UNCHANGED <<refusals, slighted>>

(* A channel leaves: its playbacks end with it. *)
Leaves(c) ==
  /\ channel[c] = "up"
  /\ channel' = [channel EXCEPT ![c] = "gone"]
  /\ playing' = {p \in playing : p.ch # c}
  /\ events' = Append(events, Event("StasisEnd", c, 0))

-----------------------------------------------------------------------------
(* Asterisk: calls come and go, playbacks end. *)
StasisStart(c) ==
  /\ channel[c] = "none"
  /\ channel' = [channel EXCEPT ![c] = "up"]
  /\ events' = Append(events, Event("StasisStart", c, 0))
  /\ UNCHANGED <<playing, control, drainer, boot, bounds, history>>

CallerHangsUp(c) ==
  /\ Leaves(c)
  /\ UNCHANGED <<control, drainer, boot, bounds, history>>

PlaybackEnds(p) ==
  /\ playing' = playing \ {p}
  /\ events' = Append(events, Event("PlaybackFinished", p.ch, p.id))
  /\ UNCHANGED <<channel, control, drainer, boot, bounds, history>>

-----------------------------------------------------------------------------
(* The call has a goroutine: it started here, or the recovery resumed it. *)
Served(c) == c \in drainer.active \/ boot.report[c] = "resumed"

(* Playback: Asterisk plays under a new id, and only then is the id tracked. *)
Playback(c) ==
  LET id == pbSeq + 1 IN
  /\ calls[c].does = "nothing" /\ Served(c) /\ plays < MaxPlays
  /\ plays' = plays + 1 /\ pbSeq' = id
  /\ \/ /\ channel[c] = "up" /\ ~\E p \in playing : p.ch = c /\ p.id = id
        /\ playing' = playing \cup {[ch |-> c, id |-> id, by |-> crashes]}
        /\ \/ calls' = [calls EXCEPT ![c] = [does |-> "play", id |-> id]] /\ Granted
           \/ Refused(c) /\ UNCHANGED calls
     \/ /\ Refused(c) \/ ((channel[c] # "up" \/ \E p \in playing : p.ch = c /\ p.id = id) /\ Granted)
        /\ UNCHANGED <<playing, calls>>
  /\ UNCHANGED <<channel, events, tracked, cuts, drainer, boot, crashes, earlier>>

Track(c) ==
  /\ calls[c].does = "play"
  /\ tracked' = [tracked EXCEPT ![c] = @ \cup {calls[c].id}]
  /\ calls' = [calls EXCEPT ![c] = Quiet[c]]
  /\ UNCHANGED <<asterisk, pbSeq, cuts, drainer, boot, bounds, history>>

(* Hangup and Transfer forget the channel's playbacks, then command.  Which *)
(* of the two makes no difference here: the channel leaves the app.         *)
forget(c) == tracked' = [tracked EXCEPT ![c] = {}]

Release(c) ==
  /\ calls[c].does = "nothing" /\ Served(c)
  /\ forget(c)
  /\ calls' = [calls EXCEPT ![c].does = "release"]
  /\ UNCHANGED <<asterisk, pbSeq, cuts, drainer, boot, bounds, history>>

Commanded(c) ==
  \/ Leaves(c) /\ Granted
  \/ channel[c] # "up" /\ Granted /\ UNCHANGED asterisk
  \/ channel[c] = "up" /\ Refused(c) /\ UNCHANGED asterisk

Hangup(c) ==
  /\ calls[c].does = "release"
  /\ Commanded(c)
  /\ calls' = [calls EXCEPT ![c] = Quiet[c]]
  /\ UNCHANGED <<pbSeq, tracked, cuts, drainer, boot, plays, crashes, earlier>>

(* FlushPlayback takes the tracked ids out and stops each one; a playback   *)
(* that is over already is an error like a refusal.                         *)
FlushPlayback(c) ==
  /\ ~cuts[c].on /\ tracked[c] # {}
  /\ cuts' = [cuts EXCEPT ![c] = [on |-> TRUE, ids |-> tracked[c]]]
  /\ forget(c)
  /\ UNCHANGED <<asterisk, pbSeq, calls, drainer, boot, bounds, history>>

StopPlaybackGivesUp(c) ==  \* Variant of StopPlayback.
  /\ cuts[c].on
  /\ \E id \in cuts[c].ids :
       LET here == {p \in playing : p.ch = c /\ p.id = id} IN
       /\ cuts' = [cuts EXCEPT ![c].ids = IF here = {} THEN {} ELSE @ \ {id}]
       /\ playing' = playing \ here
       /\ events' = IF here = {} THEN events ELSE Append(events, Event("PlaybackFinished", c, id))
  /\ UNCHANGED <<channel, pbSeq, tracked, calls, drainer, boot, plays, crashes, refusals, history>>

StopPlayback(c) ==
  /\ cuts[c].on
  /\ \E id \in cuts[c].ids :
       LET here == {p \in playing : p.ch = c /\ p.id = id} IN
       /\ cuts' = [cuts EXCEPT ![c].ids = @ \ {id}]
       /\ \/ here # {} /\ Granted
             /\ playing' = playing \ here
             /\ events' = Append(events, Event("PlaybackFinished", c, id))
          \/ here = {} /\ Granted /\ UNCHANGED <<playing, events>>
          \/ here # {} /\ Refused(c) /\ UNCHANGED <<playing, events>>
  /\ UNCHANGED <<channel, pbSeq, tracked, calls, drainer, boot, plays, crashes, earlier>>

FlushReturns(c) ==
  /\ cuts[c].on /\ cuts[c].ids = {}
  /\ cuts' = [cuts EXCEPT ![c].on = FALSE]
  /\ UNCHANGED <<asterisk, pbSeq, tracked, calls, drainer, boot, bounds, history>>

-----------------------------------------------------------------------------
(* The events, in order. *)
CallStarted(c) == drainer' = [drainer EXCEPT !.active = @ \cup {c}]

CallEndedReleases(c) ==  \* Variant of CallEnded.
  drainer' = [drainer EXCEPT !.active = @ \ {c},
                !.empty = IF drainer.draining /\ @ = "open" THEN "closed" ELSE @]

(* The last call to end releases a waiting drain. *)
CallEnded(c) ==
  LET active == drainer.active \ {c} IN
  drainer' = [drainer EXCEPT !.active = active,
                !.empty = IF drainer.draining /\ active = {} /\ @ = "open" THEN "closed" ELSE @]

PlaybackFinished(c, id) == tracked' = [tracked EXCEPT ![c] = @ \ {id}]

HandleEvent ==
  /\ events # <<>> /\ events' = Tail(events)
  /\ LET e == Head(events) IN
     \/ e.type = "StasisStart" /\ CallStarted(e.ch) /\ UNCHANGED tracked
     \/ e.type = "StasisEnd" /\ CallEnded(e.ch) /\ UNCHANGED tracked
     \/ e.type = "PlaybackFinished" /\ PlaybackFinished(e.ch, e.id) /\ UNCHANGED drainer
  /\ UNCHANGED <<channel, playing, pbSeq, calls, cuts, boot, bounds, history>>

(* Drain, once per process: with nothing active it is over, else it waits   *)
(* for the last call to end, the ceiling or its context.                    *)
Drain ==
  /\ drainer.at = "no" /\ crashes < MaxDrains
  /\ drainer' = [drainer EXCEPT !.draining = TRUE, !.before = drainer.active,
                   !.at = IF drainer.active = {} THEN "drained" ELSE "waiting",
                   !.empty = IF drainer.active = {} THEN @ ELSE "open"]
  /\ UNCHANGED <<asterisk, control, boot, bounds, history>>

DrainWakes ==
  /\ drainer.at = "waiting" /\ drainer.empty = "closed"
  /\ drainer' = [drainer EXCEPT !.at = "drained"]
  /\ UNCHANGED <<asterisk, control, boot, bounds, history>>

DrainTimesOut ==
  /\ drainer.at = "waiting"
  /\ drainer' = [drainer EXCEPT !.at = "timed out"]
  /\ UNCHANGED <<asterisk, control, boot, bounds, history>>

-----------------------------------------------------------------------------
(* The process dies or is replaced; the next one starts with the recovery. *)
Crash ==
  /\ crashes < MaxCrashes /\ crashes' = crashes + 1
  /\ events' = <<>> /\ pbSeq' = 0 /\ tracked' = [c \in Channels |-> {}]
  /\ calls' = Quiet /\ cuts' = NoCuts /\ drainer' = NewDrainer /\ slighted' = {}
  /\ boot' = [Booted EXCEPT !.at = "list"]
  /\ earlier' = earlier \cup {[ch |-> p.ch, id |-> p.id] : p \in playing}
  /\ UNCHANGED <<channel, playing, plays, refusals>>

BootFaults == refusals < MaxRefusals /\ refusals' = refusals + 1
Recovering(new) ==
  /\ boot' = new
  /\ UNCHANGED <<pbSeq, calls, cuts, drainer, plays, crashes, earlier>>

(* Rehydrate: the channels alive now, one after the other.  If they cannot  *)
(* be listed the recovery gives up, and nobody is recovered.                *)
LiveChannels ==
  LET live == {c \in Channels : channel[c] = "up"} IN
  /\ boot.at = "list"
  /\ \/ Recovering([boot EXCEPT !.at = "next", !.listed = live, !.todo = live])
        /\ UNCHANGED refusals
     \/ Recovering([boot EXCEPT !.at = "failed"]) /\ BootFaults
  /\ UNCHANGED <<asterisk, tracked, slighted>>

(* What is stored of the channel's call decides: nothing (or it fails to    *)
(* load), a call that is finished - ended or transferred - or one to resume *)
(* with the re-anchoring phrase.  Projections lag behind calls: any of the  *)
(* three may be found.                                                      *)
Found(c, status, step) ==
  Recovering([boot EXCEPT !.at = step, !.todo = @ \ {c}, !.ch = {c}, !.found[c] = status])

rehydrateTransferred ==  \* Variant: a call that was transferred is not finished.
  /\ boot.at = "next"
  /\ \E c \in boot.todo :
       \/ Found(c, "none", "orphan") \/ Found(c, "active", "clip")
       \/ Found(c, "finished", "stale") \/ Found(c, "finished", "clip")
  /\ UNCHANGED <<asterisk, tracked, refusals, slighted>>

rehydrateChannel ==
  /\ boot.at = "next"
  /\ \E c \in boot.todo :
       \/ Found(c, "none", "orphan") \/ Found(c, "active", "clip") \/ Found(c, "finished", "stale")
  /\ UNCHANGED <<asterisk, tracked, refusals, slighted>>

(* Without the clip, or a channel that takes it, the call goes to a human. *)
Reanchor ==
  /\ boot.at = "clip"
  /\ \E c \in boot.ch :
       \/ /\ channel[c] = "up" /\ UNCHANGED refusals
          /\ Recovering([boot EXCEPT !.at = "next", !.report[c] = "resumed"])
       \/ channel[c] # "up" /\ UNCHANGED refusals /\ Recovering([boot EXCEPT !.at = "orphan"])
       \/ channel[c] = "up" /\ BootFaults /\ Recovering([boot EXCEPT !.at = "orphan"])
  /\ UNCHANGED <<asterisk, tracked, slighted>>

(* The transfer of an orphan and the hangup of a leftover, through          *)
(* CallControl; a refusal is reported and the next channel follows.         *)
LetGo ==
  /\ boot.at \in {"orphan", "stale"}
  /\ \E c \in boot.ch :
       /\ forget(c) /\ Commanded(c)
       /\ Recovering([boot EXCEPT !.at = "next", !.report[c] = boot.at])

BootOver ==
  /\ boot.at = "next" /\ boot.todo = {}
  /\ Recovering([boot EXCEPT !.at = "over", !.ch = {}])
  /\ UNCHANGED <<asterisk, tracked, refusals, slighted>>

Next ==
  \/ \E c \in Channels :
       \/ StasisStart(c) \/ CallerHangsUp(c)
       \/ Playback(c) \/ Track(c) \/ Release(c) \/ Hangup(c)
       \/ FlushPlayback(c) \/ StopPlayback(c) \/ FlushReturns(c)
  \/ \E p \in playing : PlaybackEnds(p)
  \/ HandleEvent \/ Drain \/ DrainWakes \/ DrainTimesOut
  \/ Crash \/ LiveChannels \/ rehydrateChannel \/ Reanchor \/ LetGo \/ BootOver

Spec == Init /\ [][Next]_vars

-----------------------------------------------------------------------------
(* A barge-in can silence whatever this process is playing: each playback   *)
(* is tracked, or its Playback call has not returned, or a flush or the     *)
(* channel's release is under way - unless Asterisk refused a command on    *)
(* the channel, or the id repeats one of the process before                 *)
(* (callcontrol.go:25-27, 86-89).                                           *)
Stoppable ==
  \A p \in playing :
    p.by = crashes /\ p.ch \notin slighted /\ [ch |-> p.ch, id |-> p.id] \notin earlier =>
      \/ p.id \in tracked[p.ch] \cup cuts[p.ch].ids
      \/ calls[p.ch] = [does |-> "play", id |-> p.id] \/ calls[p.ch].does = "release"

(* A drain that reports success has seen every call end that was active     *)
(* when it began, and one that waits has a call to wait for: no end of a    *)
(* call is missed, repeated or late (drain.go:42-52, 70-72).                *)
DrainIsHonest ==
  /\ drainer.at = "drained" => \A c \in drainer.before : c \notin drainer.active
  /\ drainer.at = "waiting" /\ drainer.empty = "open" => drainer.active # {}

(* No call sits in silence after a recovery that could list the channels:   *)
(* when it is over, every channel that was alive is resumed, handed to a    *)
(* human or released, unless Asterisk refused that.  And it does so to the  *)
(* right ones: only a call with a state to resume is resumed, a finished    *)
(* one never; and only a finished one is hung up, a live call never         *)
(* (rehydrate.go:119-128, 163-182).                                         *)
NobodyInSilence ==
  /\ boot.at = "over" => \A c \in boot.listed :
       /\ boot.report[c] \in {"resumed", "orphan", "stale"}
       /\ channel[c] = "up" => boot.report[c] = "resumed" \/ c \in slighted
  /\ \A c \in Channels :
       /\ boot.report[c] = "resumed" => boot.found[c] = "active"
       /\ boot.report[c] \in {"orphan", "stale"} =>
            (boot.report[c] = "stale" <=> boot.found[c] = "finished")
=============================================================================
