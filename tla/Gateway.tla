------------------------------- MODULE Gateway -------------------------------
(***************************************************************************)
(* The telephony gateway's per-call sessions                               *)
(* (go/cmd/telephony-gw/gateway.go) and its graceful shutdown (main.go):   *)
(* webhooks served concurrently, one goroutine per started call, the       *)
(* registry keyed by call id, and the drain.                               *)
(*                                                                         *)
(* The carrier is external: it posts call.initiated, perhaps again, and    *)
(* call.hangup when the caller hangs up, in no order.  A session stands    *)
(* for the call.initiated webhook that started it.                         *)
(***************************************************************************)
EXTENDS Naturals, FiniteSets

CONSTANTS
  Calls,
  Routed,     \* the calls whose DID has a tenant (cfg.TenantByDID)
  OwnerPhone, \* cfg.OwnerPhone is set
  Sessions    \* bound: the call.initiated posts <<c, n>>, the n-th of a call c

ASSUME GatewayAssumption ==
  /\ Routed \subseteq Calls /\ IsFiniteSet(Calls)
  /\ OwnerPhone \in BOOLEAN /\ Sessions \subseteq Calls \X (Nat \ {0})

Of(c)    == {s \in Sessions : s[1] = c}
Running  == {"answer", "transfer", "held", "remove"}
Phases   == Running \cup {"none", "gone"}
Posts    == {"none", "handler", "done"}
Carrier  == {"idle", "ringing", "answered", "transferred", "ended"}
Servers  == {"serving", "shutdown", "draining", "cancelling",
             "drained", "timedout", "failed"}

VARIABLES
  call,       \* [Calls -> Carrier]: the calls at the carrier (external)
  initiated,  \* [Sessions -> Posts]: call.initiated webhooks
  hangup,     \* [Calls -> Posts]: call.hangup webhooks
  registry,   \* sessionRegistry.sessions, an entry per call
  phase,      \* [Sessions -> Phases]: the session goroutines
  cancelled,  \* sessions whose callCtx is cancelled
  expired,    \* sessions whose answerCtx is past its 2 s
  server,     \* run(): what the main goroutine waits for, then drain's answer
  timeUp,     \* shutdownCtx is done
  displaced,  \* history: sessions whose entry another session overwrote or removed
  refused     \* history: calls whose transfer the carrier refused

hooks    == <<initiated, hangup>>
contexts == <<cancelled, expired>>
main     == <<server, timeUp>>
vars == <<call, hooks, registry, phase, contexts, main, displaced, refused>>

Stopped == server \in {"drained", "timedout", "failed"}
wg      == {s \in Sessions : phase[s] \in Running}
Done(s) == s \in cancelled \cup expired
-----------------------------------------------------------------------------
(* The carrier (external).                                                 *)

\* New calls come only while the gateway listens.
Ring(c) ==
  /\ call[c] = "idle" /\ server = "serving"
  /\ call' = [call EXCEPT ![c] = "ringing"]
  /\ initiated' = [initiated EXCEPT ![<<c, 1>>] = "handler"]
  /\ UNCHANGED hangup

\* A post without a timely 200 is posted again.
Retry(s) ==
  /\ s[2] > 1 /\ initiated[s] = "none" /\ server = "serving"
  /\ \E t \in Of(s[1]) : t[2] = s[2] - 1 /\ initiated[t] # "none"
  /\ initiated' = [initiated EXCEPT ![s] = "handler"]
  /\ UNCHANGED <<call, hangup>>

\* The HTTP server takes the webhook until Shutdown closes its listeners.
CallerHangsUp(c) ==
  /\ call[c] \in {"ringing", "answered", "transferred"}
  /\ call' = [call EXCEPT ![c] = "ended"]
  /\ hangup' = [hangup EXCEPT ![c] = IF server = "serving" THEN "handler" ELSE "done"]
  /\ UNCHANGED initiated

Telnyx ==
  /\ ~Stopped
  /\ \/ \E c \in Calls : Ring(c) \/ CallerHangsUp(c)
     \/ \E s \in Sessions : Retry(s)
  /\ UNCHANGED <<registry, phase, contexts, main, displaced, refused>>
-----------------------------------------------------------------------------
(* sessionRegistry.                                                        *)

add(s) ==
  /\ registry' = (registry \ Of(s[1])) \cup {s}
  /\ displaced' = displaced \cup ((registry \cap Of(s[1])) \ {s})

\* Variant: the entry is left behind.
removeNever(s) == UNCHANGED <<registry, displaced>>

\* remove(id): whichever session holds the entry of the call.
remove(s) ==
  /\ registry' = registry \ Of(s[1])
  /\ displaced' = displaced \cup ((registry \cap Of(s[1])) \ {s})

\* Variant: the entry is found, its context left alone.
endForgets(c) == UNCHANGED cancelled

\* end(id): cancel the session found, if any.
end(c) == cancelled' = cancelled \cup (registry \cap Of(c))

-----------------------------------------------------------------------------
(* handleWebhook, one goroutine per request.                               *)

\* Unknown DID: control.Hangup, which may fail; no session.
HangupUnknown(s) ==
  /\ initiated[s] = "handler" /\ s[1] \notin Routed
  /\ initiated' = [initiated EXCEPT ![s] = "done"]
  /\ call' = [call EXCEPT ![s[1]] = "ended"] \/ UNCHANGED call
  /\ UNCHANGED <<hangup, registry, phase, cancelled, displaced>>

\* startCall: sessions.add, then sessions.wg.Go; a hangup or a deadline in
\* between cancels the entry as it would the goroutine.
startCall(s) ==
  /\ initiated[s] = "handler" /\ s[1] \in Routed
  /\ initiated' = [initiated EXCEPT ![s] = "done"]
  /\ phase' = [phase EXCEPT ![s] = "answer"]
  /\ add(s)
  /\ UNCHANGED <<call, hangup, cancelled>>

HandleHangup(c) ==
  /\ hangup[c] = "handler"
  /\ hangup' = [hangup EXCEPT ![c] = "done"]
  /\ end(c)
  /\ UNCHANGED <<call, initiated, registry, phase, displaced>>

handleWebhook ==
  /\ ~Stopped
  /\ \/ \E s \in Sessions : HangupUnknown(s) \/ startCall(s)
     \/ \E c \in Calls : HandleHangup(c)
  /\ UNCHANGED <<expired, main, refused>>
-----------------------------------------------------------------------------
(* The goroutine of a session.                                             *)

Go(s, from, to) == phase[s] = from /\ phase' = [phase EXCEPT ![s] = to]

\* Answered; call.started is published, a publish error is only logged.
AnswerOk(s) ==
  /\ Go(s, "answer", "held") /\ ~Done(s)
  /\ call[s[1]] \in {"ringing", "answered"}
  /\ call' = [call EXCEPT ![s[1]] = "answered"]
  /\ UNCHANGED <<registry, expired, displaced, refused>>

\* Answer or Transfer returns an error: the carrier refused, or the context
\* was cancelled or ran out of its two seconds.
Errs(s) ==
  /\ expired' \in {expired, expired \cup {s}}
  /\ UNCHANGED <<registry, displaced>>

\* Variant: no failover.
AnswerFailsQuietly(s) ==
  /\ Go(s, "answer", "remove") /\ Errs(s)
  /\ UNCHANGED <<call, refused>>

\* A request given up may have been answered all the same.
AnswerFails(s) ==
  /\ Go(s, "answer", IF OwnerPhone THEN "transfer" ELSE "remove") /\ Errs(s)
  /\ \/ UNCHANGED call
     \/ /\ s \in cancelled \cup expired' /\ call[s[1]] = "ringing"
        /\ call' = [call EXCEPT ![s[1]] = "answered"]
  /\ UNCHANGED refused

\* The failover runs under the same answerCtx.
TransferOk(s) ==
  /\ Go(s, "transfer", "remove") /\ ~Done(s)
  /\ call[s[1]] \in {"ringing", "answered"}
  /\ call' = [call EXCEPT ![s[1]] = "transferred"]
  /\ UNCHANGED <<registry, expired, displaced, refused>>

TransferFails(s) ==
  /\ Go(s, "transfer", "remove") /\ Errs(s)
  /\ refused' = IF s \in cancelled \cup expired' THEN refused ELSE refused \cup {s[1]}
  /\ UNCHANGED call

\* <-callCtx.Done()
Released(s) ==
  /\ Go(s, "held", "remove") /\ s \in cancelled
  /\ UNCHANGED <<call, registry, expired, displaced, refused>>

Remove(s) ==
  Go(s, "remove", "gone") /\ remove(s) /\ UNCHANGED <<call, expired, refused>>

Session(s) ==
  /\ ~Stopped
  /\ \/ AnswerOk(s) \/ AnswerFails(s) \/ TransferOk(s) \/ TransferFails(s)
     \/ Released(s) \/ Remove(s)
  /\ UNCHANGED <<hooks, cancelled, main>>
-----------------------------------------------------------------------------
(* run(): shutdown and drain.                                              *)

InFlight == \/ \E s \in Sessions : initiated[s] = "handler"
            \/ \E c \in Calls : hangup[c] = "handler"

\* A listener fails: run returns at once, draining nobody.
ListenFails == server = "serving" /\ server' = "failed" /\ UNCHANGED <<timeUp, cancelled>>

\* The signal: srv.Shutdown stops accepting webhooks.
Signal == server = "serving" /\ server' = "shutdown" /\ UNCHANGED <<timeUp, cancelled>>

TimeUp ==
  /\ server \in {"shutdown", "draining"}
  /\ timeUp' = TRUE /\ UNCHANGED <<server, cancelled>>

\* Shutdown returns when the handlers are done, or on its deadline.
ShutdownReturns ==
  /\ server = "shutdown" /\ (~InFlight \/ timeUp)
  /\ server' = "draining" /\ UNCHANGED <<timeUp, cancelled>>

\* Variant: the registry decides, not the goroutines.
DrainedWhenUnlisted ==
  /\ server = "draining" /\ registry \subseteq cancelled
  /\ server' = "drained" /\ UNCHANGED <<timeUp, cancelled>>

\* drain: wg.Wait is over before the deadline.
Drained ==
  /\ server = "draining" /\ wg = {}
  /\ server' = "drained" /\ UNCHANGED <<timeUp, cancelled>>

\* Variant: the deadline is noticed and nothing is cancelled.
CancelNobody ==
  /\ server = "draining" /\ timeUp
  /\ server' = "cancelling" /\ UNCHANGED <<timeUp, cancelled>>

\* On the deadline: cancel the sessions in the registry.
CancelStragglers ==
  /\ server = "draining" /\ timeUp
  /\ server' = "cancelling" /\ cancelled' = cancelled \cup registry
  /\ UNCHANGED timeUp

\* <-done
StragglersGone ==
  /\ server = "cancelling" /\ wg = {}
  /\ server' = "timedout" /\ UNCHANGED <<timeUp, cancelled>>

Shutdown ==
  /\ \/ ListenFails \/ Signal \/ TimeUp \/ ShutdownReturns
     \/ Drained \/ CancelStragglers \/ StragglersGone
  /\ UNCHANGED <<call, hooks, registry, phase, expired, displaced, refused>>
-----------------------------------------------------------------------------
Init ==
  /\ call = [c \in Calls |-> "idle"]
  /\ initiated = [s \in Sessions |-> "none"] /\ hangup = [c \in Calls |-> "none"]
  /\ registry = {} /\ phase = [s \in Sessions |-> "none"]
  /\ cancelled = {} /\ expired = {}
  /\ server = "serving" /\ timeUp = FALSE
  /\ displaced = {} /\ refused = {}

Next == \/ Telnyx \/ handleWebhook
        \/ (\E s \in Sessions : Session(s)) \/ Shutdown

Spec == Init /\ [][Next]_vars

\* Handlers and session goroutines keep running; a deadline, once set, comes
\* (the contexts' timers); the main goroutine goes on.  Nothing makes the
\* carrier post, the caller hang up or the operator stop the process.
FairSpec ==
  /\ Spec
  /\ WF_vars(handleWebhook)
  /\ \A s \in Sessions : WF_vars(Session(s))
  /\ WF_vars(Shutdown /\ server # "serving")
-----------------------------------------------------------------------------
(* Properties.                                                             *)

\* Shapes; an entry is held by a session that was added and has not removed
\* itself, one per call (gateway.go:140).
TypeOK ==
  /\ call \in [Calls -> Carrier] /\ initiated \in [Sessions -> Posts]
  /\ hangup \in [Calls -> Posts]
  /\ phase \in [Sessions -> Phases]
  /\ {registry, cancelled, expired, displaced} \subseteq SUBSET Sessions
  /\ \A s \in registry : /\ phase[s] \notin {"none", "gone"}
                         /\ \A t \in registry \cap Of(s[1]) : t = s
  /\ server \in Servers /\ timeUp \in BOOLEAN
  /\ refused \in SUBSET Calls

\* gateway.go:168, main.go:264: drain answers true only when the calls are
\* over: no answered call is still up, but for one whose Answer timed out.
DrainedMeansQuiet ==
  server = "drained" =>
    \A c \in Calls : call[c] = "answered" => Of(c) \cap expired # {}

\* gateway.go:94: a session that cannot take its call does not leave it
\* ringing, unless the carrier refused the transfer or the context both
\* attempts share was already done.
RingingOnlyLate ==
  \A s \in Sessions :
    OwnerPhone /\ phase[s] = "gone" /\ call[s[1]] = "ringing"
      => Done(s) \/ s[1] \in refused

\* gateway.go:152: the hangup webhook of a call ends the session it finds,
\* with its registry entry, whatever the session is doing.
HangupEndsSession ==
  \A s \in Sessions :
    (~Stopped /\ hangup[s[1]] = "handler" /\ s \in registry)
      ~> (Stopped \/ s \in displaced \/ (phase[s] = "gone" /\ s \notin registry))

\* gateway.go:168: a shutdown ends, its stragglers cancelled at the deadline,
\* unless a second call.initiated took a running session off the registry or
\* a handler outlived Shutdown's deadline and may start a session later still.
DrainEnds ==
  (server = "shutdown")
    ~> (Stopped \/ displaced # {} \/ (server = "draining" /\ InFlight))
=============================================================================
