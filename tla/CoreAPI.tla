------------------------------ MODULE CoreAPI -------------------------------
(***************************************************************************)
(* The core API: its HTTP handlers (go/internal/api) over the Postgres     *)
(* store, with the payment gateway (go/internal/billing).  A handler runs  *)
(* between its store calls; requests of several clients run concurrently,  *)
(* and the process may restart.                                            *)
(*                                                                         *)
(* A client holds the keys it was handed out and no other.  Ids are fresh  *)
(* (domain.NewID: time and random bits): the request's number.  A body     *)
(* that does not decode or does not validate is `bad`.                     *)
(***************************************************************************)
EXTENDS PGStore

CONSTANTS
  MaxRequests,   \* bound: requests and projections of onboarded tenants
  MaxTenants,    \* bound: onboardings
  MaxFaults,     \* bound: failing transactions and subscriptions, restarts
  Routes,        \* the routes clients use
  Numbers,       \* phone numbers
  CallIds,       \* call ids
  Minutes        \* the length of a call in minutes

(* Server.Router. *)
APIRoutes ==
  {"POST /tenants", "GET /tenants/me", "PUT /tenants/me/mode", "POST /dids", "GET /dids",
   "GET /calls", "GET /calls/{callID}", "POST /appointments", "GET /appointments",
   "POST /messages", "GET /messages", "GET /usage"}

ASSUME CoreAPIAssumption ==
  /\ {MaxRequests, MaxTenants, MaxFaults} \cup Minutes \subseteq Nat
  /\ Routes \subseteq APIRoutes

VARIABLES
  http,    \* [Requests -> the request: its phase and what it asks]
  reply,   \* the response this step sends: the key it answers, status, rows, invoice total
  subs,    \* FakeStripe's subscriptions
  served, onboardings, faults,
  keysOut, \* history: keys clients were handed out
  acked    \* history: rows clients were told are stored

storeVars == <<db, tx>>
history   == <<keysOut, acked>>
clocks    == <<served, onboardings, faults>>
apiVars   == <<http, reply, subs, clocks, history>>
vars      == <<storeVars, apiVars>>

NoKey == 0
Query(route, key, id, mode) == [route |-> route, key |-> key, id |-> id, mode |-> mode]
Unused == [phase |-> "idle", q |-> Query("", NoKey, 0, "")]

Silent == [key |-> NoKey, status |-> 0, rows |-> {}, bill |-> 0]

Init ==
  /\ StoreInit
  /\ http = [r \in Requests |-> Unused]
  /\ reply = Silent
  /\ subs = {} /\ served = 0 /\ onboardings = 0 /\ faults = 0
  /\ keysOut = {} /\ acked = {}

NewId == onboardings + served + 1
Fault == faults < MaxFaults /\ faults' = faults + 1

-----------------------------------------------------------------------------
(* The store call each handler makes for the tenant t of its context.  Only *)
(* the by column looks at the key: it is history, not code.                 *)
Own(q, t, id) == Row(t, id, q.key)

(* Without delay, overflow gets 15 seconds. *)
Moded(row, mode) == [row EXCEPT !.mode = mode, !.secs = IF mode = "overflow" THEN 15 ELSE 0]

handleCreateTenant(q, id) == [name |-> "CreateTenant", row |-> Moded(Row(id, id, id), q.mode)]
handleGetTenant(q, t)     == [name |-> "CurrentTenant", row |-> Own(q, t, 0)]
handleUpdateModeAsSent(q, t) ==  \* Variant of handleUpdateMode.
  [name |-> "UpdateTenantMode", row |-> [Own(q, t, 0) EXCEPT !.mode = q.mode]]
handleUpdateMode(q, t)    == [name |-> "UpdateTenantMode", row |-> Moded(Own(q, t, 0), q.mode)]
handleAddDID(q, t)        == [name |-> "AddDID", row |-> Own(q, t, q.id)]
handleListDIDs(q, t)      == [name |-> "ListDIDs", row |-> Own(q, t, 0)]
handleListCalls(q, t)     == [name |-> "ListCalls", row |-> Own(q, t, 0)]
handleGetCall(q, t)       == [name |-> "GetCall", row |-> Own(q, t, q.id)]
handleCreateAppointment(q, t) == [name |-> "CreateAppointment", row |-> Own(q, t, q.id)]
handleListAppointments(q, t)  == [name |-> "ListAppointments", row |-> Own(q, t, 0)]
handleCreateMessage(q, t) == [name |-> "CreateMessage", row |-> Own(q, t, q.id)]
handleListMessages(q, t)  == [name |-> "ListMessages", row |-> Own(q, t, 0)]
handleGetUsage(q, t)      == [name |-> "CurrentTenant", row |-> Own(q, t, 0)]

Handler(q, t) ==
  CASE q.route = "GET /tenants/me"      -> handleGetTenant(q, t)
    [] q.route = "PUT /tenants/me/mode" -> handleUpdateMode(q, t)
    [] q.route = "POST /dids"           -> handleAddDID(q, t)
    [] q.route = "GET /dids"            -> handleListDIDs(q, t)
    [] q.route = "GET /calls"           -> handleListCalls(q, t)
    [] q.route = "GET /calls/{callID}"  -> handleGetCall(q, t)
    [] q.route = "POST /appointments"   -> handleCreateAppointment(q, t)
    [] q.route = "GET /appointments"    -> handleListAppointments(q, t)
    [] q.route = "POST /messages"       -> handleCreateMessage(q, t)
    [] q.route = "GET /messages"        -> handleListMessages(q, t)
    [] q.route = "GET /usage"           -> handleGetUsage(q, t)

Stored == [ CreateTenant |-> "tenants", AddDID |-> "dids", UpdateTenantMode |-> "tenants",
            CreateAppointment |-> "appointments", CreateMessage |-> "messages" ]

(* What a client may ask: a route, a key it holds, a wrong one or none, and *)
(* the body.                                                                *)
WrongKey == -1
Bodies(route) ==
  CASE route = "POST /tenants"         -> {0} \X {"overflow", "bad"}
    [] route = "PUT /tenants/me/mode"  -> {0} \X (Modes \cup {"bad"})
    [] route = "POST /dids"          -> Numbers \X {"", "bad"}
    [] route = "GET /calls/{callID}" -> CallIds \X {""}
    [] route \in {"POST /appointments", "POST /messages"} -> {NewId} \X {"", "bad"}
    [] OTHER -> {0} \X {""}
Queries ==
  UNION {{Query(route, key, b[1], b[2]) : b \in Bodies(route),
             key \in IF route = "POST /tenants" THEN {NoKey} ELSE keysOut \cup {NoKey, WrongKey}}
           : route \in Routes}

-----------------------------------------------------------------------------
(* The response goes out, and the client takes note of it. *)
Replies(q, status, rows, bill) ==
  reply' = [key |-> q.key, status |-> status, rows |-> rows, bill |-> bill]
Sent(r, status, rows, bill) ==
  /\ Replies(http[r].q, status, rows, bill)
  /\ http' = [http EXCEPT ![r] = Unused] /\ tx' = [tx EXCEPT ![r] = Idle] /\ UNCHANGED db
Refused(r, status) == Sent(r, status, {}, 0) /\ UNCHANGED <<history, subs>>

writeStoreError(r, code) ==
  Refused(r, CASE code = "not_found" -> 404 [] code = "conflict" -> 409 [] OTHER -> 500)

Calls(r, op) == tx' = [tx EXCEPT ![r] = Opened(op)]

(* A request comes in.  Onboarding needs no credential; everything else is  *)
(* resolved by its key first (withTenant).                                  *)
Arrive(r) ==
  /\ http[r].phase = "idle"
  /\ UNCHANGED <<db, subs, history, faults>>
  /\ \E q \in Queries :
       LET signup == q.route = "POST /tenants"
           entered(phase, op) ==
             /\ http' = [http EXCEPT ![r] = [phase |-> phase, q |-> q]]
             /\ Calls(r, op) /\ reply' = Silent
           turnedAway(status) == Replies(q, status, {}, 0) /\ UNCHANGED <<http, tx>>
       IN  /\ \/ signup /\ onboardings < MaxTenants
                 /\ onboardings' = onboardings + 1 /\ UNCHANGED served
              \/ ~signup /\ served < MaxRequests
                 /\ served' = served + 1 /\ UNCHANGED onboardings
           /\ \/ signup /\ q.mode = "bad" /\ turnedAway(400)
              \/ signup /\ q.mode # "bad" /\ entered("serve", handleCreateTenant(q, NewId))
              \/ ~signup /\ q.key = NoKey /\ turnedAway(401)
              \/ /\ ~signup /\ q.key # NoKey
                 /\ entered("auth", [name |-> "TenantByAPIKeyHash", row |-> Row(0, q.key, q.key)])

Answered(r, phase) == http[r].phase = phase /\ tx[r].phase = "closed"
Code(r) == tx[r].answer.code
Route(r) == http[r].q.route

(* The key is resolved: the handler runs as its tenant. *)
withTenant(r) ==
  /\ Answered(r, "auth")
  /\ UNCHANGED clocks
  /\ \/ Code(r) = "not_found" /\ Refused(r, 401)
     \/ Code(r) = "error" /\ Refused(r, 500)
     \/ Code(r) = "ok" /\ http[r].q.mode = "bad" /\ Refused(r, 400)
     \/ /\ Code(r) = "ok" /\ http[r].q.mode # "bad"
        /\ \E tenant \in tx[r].answer.rows : Calls(r, Handler(http[r].q, tenant.id))
        /\ http' = [http EXCEPT ![r].phase = "serve"]
        /\ reply' = Silent /\ UNCHANGED <<db, history, subs>>

(* The store has answered the handler's first call.  An update is read      *)
(* back, and usage needs the calls: each by a second transaction.           *)
TwoCalls == {"PUT /tenants/me/mode", "GET /usage"}

HandlerFails(r) ==
  /\ Answered(r, "serve") /\ Code(r) # "ok"
  /\ writeStoreError(r, Code(r)) /\ UNCHANGED clocks

Acked(r) ==
  IF tx[r].op.name \in {"AddDID", "CreateAppointment", "CreateMessage"}
  THEN {[table |-> Stored[tx[r].op.name], row |-> tx[r].op.row]} ELSE {}

HandlerReplies(r) ==
  /\ Answered(r, "serve") /\ Code(r) = "ok"
  /\ Route(r) \notin TwoCalls \cup {"POST /tenants"}
  /\ Sent(r, IF Acked(r) = {} THEN 200 ELSE 201, tx[r].answer.rows, 0)
  /\ acked' = acked \cup Acked(r)
  /\ UNCHANGED <<subs, keysOut, clocks>>

(* Onboarding starts the trial subscription, and only then shows the key:   *)
(* its hash is all the store keeps.                                         *)
CreateSubscription(r) ==
  /\ Answered(r, "serve") /\ Code(r) = "ok" /\ Route(r) = "POST /tenants"
  /\ LET tenant == tx[r].op.row IN
     \/ Fault /\ Refused(r, 500)
     \/ /\ tenant.id \notin subs
        /\ subs' = subs \cup {tenant.id}
        /\ keysOut' = keysOut \cup {tenant.id}
        /\ acked' = acked \cup {[table |-> "keys", row |-> tenant]}
        /\ Sent(r, 201, {tenant}, 0)
        /\ UNCHANGED faults
  /\ UNCHANGED <<served, onboardings>>

HandlerGoesOn(r) ==
  /\ Answered(r, "serve") /\ Code(r) = "ok" /\ Route(r) \in TwoCalls
  /\ Calls(r, [name |-> IF Route(r) = "GET /usage" THEN "ListCalls" ELSE "CurrentTenant",
               row |-> Own(http[r].q, tx[r].op.row.tenant, 0)])
  /\ http' = [http EXCEPT ![r].phase = "again"]
  /\ reply' = Silent /\ UNCHANGED <<db, subs, history, clocks>>

(* The second call: the tenant as it is now, or the invoice (handleGetUsage). *)
HandlerEnds(r) ==
  /\ Answered(r, "again")
  /\ UNCHANGED clocks
  /\ \/ Code(r) # "ok" /\ writeStoreError(r, Code(r))
     \/ /\ Code(r) = "ok" /\ Route(r) # "GET /usage"
        /\ Sent(r, 200, tx[r].answer.rows, 0)
        /\ UNCHANGED <<history, subs>>
     \/ /\ Code(r) = "ok" /\ Route(r) = "GET /usage"
        /\ \E inTrial \in BOOLEAN :
             Sent(r, 200, tx[r].answer.rows, Compute(SumUsage(tx[r].answer.rows), inTrial))
        /\ UNCHANGED <<history, subs>>

(* The calls' projector stores the fold of a call's events (PutCall). *)
Project(r) ==
  /\ http[r].phase = "idle" /\ served < MaxRequests
  /\ served' = served + 1
  /\ \E tenant \in db["tenants"], c \in CallIds, m \in Minutes :
       Calls(r, [name |-> "PutCall",
                 row |-> [Row(tenant.id, c, tenant.id) EXCEPT !.minutes = m]])
  /\ http' = [http EXCEPT ![r] = [Unused EXCEPT !.phase = "project"]]
  /\ reply' = Silent /\ UNCHANGED <<db, subs, history, onboardings, faults>>

Projected(r) ==
  /\ Answered(r, "project")
  /\ http' = [http EXCEPT ![r] = Unused] /\ tx' = [tx EXCEPT ![r] = Idle]
  /\ reply' = Silent /\ UNCHANGED <<db, subs, history, clocks>>

(* The process restarts: requests break off, open transactions are rolled   *)
(* back, and FakeStripe forgets.                                            *)
Restart ==
  /\ Fault
  /\ http' = [r \in Requests |-> Unused] /\ tx' = [r \in Requests |-> Idle]
  /\ subs' = {}
  /\ reply' = Silent /\ UNCHANGED <<db, history, served, onboardings>>

Next ==
  \/ \E r \in Requests :
       \/ StoreStep(r) /\ reply' = Silent /\ UNCHANGED <<http, subs, clocks, history>>
       \/ StoreFault(r) /\ Fault /\ reply' = Silent
          /\ UNCHANGED <<http, subs, served, onboardings, history>>
       \/ Arrive(r) \/ withTenant(r) \/ HandlerFails(r) \/ HandlerReplies(r)
       \/ CreateSubscription(r) \/ HandlerGoesOn(r) \/ HandlerEnds(r)
       \/ Project(r) \/ Projected(r)
  \/ Restart

Spec == Init /\ [][Next]_vars

-----------------------------------------------------------------------------
(* What the API's handlers see of Postgres, whose transactions interleave,  *)
(* fail half-way and may commit unheard, is what memstore.go promises: each *)
(* method happens at once or not at all (store/memstore.go:23).             *)
StoreIsMem == Mem!Spec

(* A response only ever holds rows that the client's own tenant wrote, or   *)
(* that were projected for it, whatever runs beside it on the same pool     *)
(* (pgstore.go:22, ADR-005): the tenant goes from the key through the       *)
(* context into app.tenant_id, twice in two-call handlers.                  *)
Isolation ==
  reply.key # NoKey =>
    \A row \in reply.rows : row.by = reply.key /\ row.tenant = reply.key

(* What a client was told is stored stays stored, and a key it was handed   *)
(* out opens its tenant from then on: no 401, through failing transactions  *)
(* and restarts (handlers.go:91-109, auth.go:39).                           *)
AckedStays ==
  /\ \A a \in acked : a.row \in db[a.table]
  /\ \A key \in keysOut : \E t \in db["tenants"] : t.id = key /\ ValidTenant(t)
  /\ reply.key \in keysOut => reply.status # 401
=============================================================================
