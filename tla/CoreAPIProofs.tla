---------------------------- MODULE CoreAPIProofs ----------------------------
(***************************************************************************)
(* Proofs about the core API over the Postgres store, for every set of     *)
(* concurrent requests, phone numbers and call ids, and every price:       *)
(*   - a response holds only the rows of the client's own tenant           *)
(*     (Isolation);                                                        *)
(*   - what a client was told is stored stays stored, and its key opens    *)
(*     its tenant from then on (AckedStays);                               *)
(*   - the store's transactions, which interleave, fail half-way and may   *)
(*     commit unheard, implement the one-step methods of memstore.go       *)
(*     (StoreIsMem).                                                       *)
(*                                                                         *)
(* One inductive invariant carries all three (StoreInv): what each open    *)
(* transaction was asked, what it has staged, and how both relate to the   *)
(* committed rows.                                                         *)
(***************************************************************************)
EXTENDS CoreAPI, TLAPS

-----------------------------------------------------------------------------
(* Types.                                                                  *)

Ids      == Int \cup Numbers \cup CallIds
RowType  == [tenant : Int, id : Ids, by : Int, mode : Modes \cup {""}, secs : Nat, minutes : Nat]
OpNames  == {"", "CreateTenant", "TenantByAPIKeyHash", "CurrentTenant", "UpdateTenantMode",
             "AddDID", "ListDIDs", "PutCall", "ListCalls", "GetCall", "CreateAppointment",
             "ListAppointments", "CreateMessage", "ListMessages"}
OpType   == [name : OpNames, row : RowType]
Codes    == {"", "ok", "error", "not_found", "conflict"}
Answers  == [code : Codes, rows : SUBSET RowType]
Writes   == [table : Tables, row : RowType]
TxPhases == {"idle", "open", "found", "executed", "closed"}
TxType   == [phase : TxPhases, op : OpType, tenant : Int, answer : Answers, staged : SUBSET Writes]
QType    ==
  {q \in [route : APIRoutes \cup {""}, key : Int, id : Ids, mode : Modes \cup {"", "bad"}] :
     q.route = "PUT /tenants/me/mode" => q.mode # ""}
HttpType == [phase : {"idle", "auth", "serve", "again", "project"}, q : QType]

Typed ==
  /\ db \in [Tables -> SUBSET RowType]
  /\ tx \in [Requests -> TxType]
  /\ http \in [Requests -> HttpType]
  /\ served \in Nat /\ onboardings \in Nat
  /\ keysOut \subseteq Nat
  /\ acked \subseteq Writes

-----------------------------------------------------------------------------
(* The inductive invariant.                                                *)

\* A row belongs to the tenant that asked for it; a tenant, and its key, have
\* an id handed out before.
Good(k, x) ==
  /\ x.by = x.tenant
  /\ k \in {"tenants", "keys"} => x.id = x.tenant /\ x.id \in Nat /\ 0 < x.id /\ x.id < NewId
  /\ k = "tenants" => ValidTenant(x)

DBInv ==
  /\ \A k \in Tables : \A x \in db[k] : Good(k, x)
  /\ \A x, y \in db["tenants"] : x.id = y.id => x = y
  /\ \A y \in db["keys"] : \E x \in db["tenants"] : x.id = y.id

\* A key that was handed out opens its tenant.
KeysInv == \A key \in keysOut : key # NoKey /\ \E y \in db["keys"] : y.id = key

\* What each request has asked of the store.
Asked(h, op) ==
  \/ /\ h.phase = "auth" /\ h.q.key \in keysOut \cup {WrongKey} /\ h.q.route \in APIRoutes \ {"POST /tenants"}
     /\ op = [name |-> "TenantByAPIKeyHash", row |-> Row(0, h.q.key, h.q.key)]
  \/ /\ h.phase = "serve" /\ h.q.route = "POST /tenants" /\ h.q.key = NoKey
     /\ op.name = "CreateTenant" /\ Good("tenants", op.row)
  \/ /\ h.phase = "serve" /\ h.q.route \in APIRoutes \ {"POST /tenants"} /\ h.q.key \in keysOut
     /\ op = Handler(h.q, h.q.key) /\ h.q.mode # "bad"
  \/ /\ h.phase = "again" /\ h.q.route \in TwoCalls /\ h.q.key \in keysOut
     /\ op = [name |-> IF h.q.route = "GET /usage" THEN "ListCalls" ELSE "CurrentTenant",
              row |-> Own(h.q, h.q.key, 0)]
  \/ /\ h.phase = "project" /\ h.q.key = NoKey /\ op.name = "PutCall" /\ Good("calls", op.row)

Inserts == {"AddDID", "CreateAppointment", "CreateMessage"}

\* What the transaction of r has staged.
Stages(r) ==
  CASE tx[r].op.name = "CreateTenant" -> {[table |-> t, row |-> Op(r)] : t \in {"tenants", "keys"}}
    [] tx[r].op.name \in Inserts -> {[table |-> Stored[tx[r].op.name], row |-> Op(r)]}
    [] tx[r].op.name = "PutCall" -> {[table |-> "calls", row |-> Op(r)]}
    [] tx[r].op.name = "UpdateTenantMode" ->
         {[table |-> "tenants", row |-> [x EXCEPT !.mode = Op(r).mode, !.secs = Op(r).secs, !.by = Op(r).by]]
            : x \in Visible(r, "tenants")}

\* Whose rows the answer of a request may hold.
Owner(r) == http[r].q.key

\* A request in progress has made the call its handler makes.
InUse(r) ==
  /\ http[r].phase = "idle" => tx[r] = Idle
  /\ http[r].phase # "idle" => tx[r].phase # "idle" /\ Asked(http[r], tx[r].op)

\* Its transaction runs as the tenant of the call, or of the key it has found.
RunsAs(r) ==
  /\ tx[r].phase \in {"open", "executed"} => tx[r].tenant = Op(r).tenant
  /\ tx[r].phase = "found" => /\ tx[r].op.name = "TenantByAPIKeyHash" /\ tx[r].tenant = Owner(r)
                              /\ tx[r].tenant \in {y.id : y \in db["keys"]}

\* Only a write has rows staged, and those of its call.
StagedInv(r) ==
  /\ tx[r].phase # "executed" => tx[r].staged = {}
  /\ tx[r].phase = "executed" =>
       /\ tx[r].op.name \in Inserts \cup {"CreateTenant", "PutCall", "UpdateTenantMode"}
       /\ tx[r].staged = Stages(r) /\ tx[r].staged # {} /\ tx[r].answer = [code |-> "ok", rows |-> {}]

\* An answer holds the rows of the request's tenant, and a key is refused
\* only if nobody was handed it.
AnswerInv(r) ==
  /\ tx[r].phase \in {"idle", "open", "found"} => tx[r].answer = Nothing
  /\ tx[r].phase = "closed" => \A x \in tx[r].answer.rows : x.tenant = Owner(r) /\ x.by = Owner(r)
  /\ tx[r].phase = "closed" /\ tx[r].op.name = "TenantByAPIKeyHash"
       => \/ tx[r].answer.code = "ok" /\ \A x \in tx[r].answer.rows : x.id = Owner(r) /\ Owner(r) \in keysOut
          \/ tx[r].answer.code = "not_found" /\ Owner(r) \notin keysOut
          \/ tx[r].answer.code = "error"

\* A write that succeeded is stored; an insert in progress meets no row with
\* its key.
HoldsInv(r) ==
  LET name == tx[r].op.name IN
  /\ tx[r].phase = "closed" /\ tx[r].answer.code = "ok" /\ name \in Inserts
       => Op(r) \in db[Stored[name]]
  /\ tx[r].phase = "closed" /\ tx[r].answer.code = "ok" /\ name = "CreateTenant"
       => Op(r) \in db["keys"]
  /\ tx[r].phase = "executed" /\ name \in Inserts => ~Taken(Stored[name], db[Stored[name]], Op(r))
  /\ tx[r].phase \in {"open", "executed"} /\ name = "CreateTenant" =>
       \A k \in {"tenants", "keys"} : ~Taken(k, db[k], Op(r))

TxInv(r) == InUse(r) /\ RunsAs(r) /\ StagedInv(r) /\ AnswerInv(r) /\ HoldsInv(r)

\* Two transactions never stage the same key; two onboardings never share an id.
LockInv ==
  \A r, s \in Requests : r # s =>
    /\ \A v \in tx[r].staged, w \in tx[s].staged :
         v.table = w.table => ~SameKey(v.table, v.row, w.row)
    /\ tx[r].op.name = "CreateTenant" /\ tx[s].op.name = "CreateTenant" => Op(r).id # Op(s).id

AckedInv ==
  \A a \in acked : a.table \in {"keys", "dids", "appointments", "messages"} /\ a.row \in db[a.table]

StoreInv == Typed /\ DBInv /\ KeysInv /\ (\A r \in Requests : TxInv(r)) /\ LockInv /\ AckedInv

-----------------------------------------------------------------------------
(* The steps of a transaction.                                             *)

\* Only the transaction of r, which is u from now on, changes.
Becomes(r, u) == u \in TxType /\ tx' = [tx EXCEPT ![r] = u] /\ u.op = tx[r].op

\* It ends with the answer a.
Ends(r, a) ==
  \E u : Becomes(r, u) /\ u.phase = "closed" /\ u.answer = a /\ u.staged = {}

\* It stages ws.
StagesRows(r, ws) ==
  \E u : /\ Becomes(r, u) /\ u.phase = "executed" /\ u.answer = [code |-> "ok", rows |-> {}]
         /\ u.staged = ws /\ u.tenant = tx[r].tenant

\* It has found the tenant of its key.
Finds(r, tenant) ==
  \E u : /\ Becomes(r, u) /\ u.phase = "found" /\ u.tenant = tenant
         /\ u.answer = tx[r].answer /\ u.staged = tx[r].staged

\* A row of a table, and what a transaction may see, are rows.
LEMMA VisibleRows ==
  ASSUME Typed, NEW r \in Requests, NEW k \in Tables
  PROVE  Visible(r, k) \subseteq db[k] /\ db[k] \subseteq RowType
BY DEF Typed, Visible

\* Statements that write nothing end the transaction (Executed).
LEMMA ExecutedReads ==
  ASSUME Typed, NEW r \in Requests, NEW code \in Codes, NEW rows \in SUBSET RowType,
         Executed(r, code, rows, {})
  PROVE  Ends(r, [code |-> code, rows |-> rows]) /\ db' = db
<1> DEFINE a == [code |-> code, rows |-> rows]
           u == [tx[r] EXCEPT !.phase = "closed", !.staged = {}, !.answer = a]
<1>1. tx' = [tx EXCEPT ![r].phase = "closed", ![r].staged = {}, ![r].answer = a] /\ db' = db
  BY DEF Executed
<1>2. tx[r] \in TxType /\ tx \in [Requests -> TxType]
  BY DEF Typed
<1>3. a \in Answers
  BY DEF Answers
<1> HIDE DEF a
<1>4. tx' = [tx EXCEPT ![r] = u]
  BY <1>1, <1>2 DEF TxType
<1>5. u \in TxType /\ u.op = tx[r].op /\ u.phase = "closed" /\ u.answer = a /\ u.staged = {}
  BY <1>2, <1>3 DEF TxType, TxPhases
<1> HIDE DEF u
<1>6. Ends(r, a)
  BY <1>4, <1>5 DEF Ends, Becomes
<1>7. QED
  BY <1>1, <1>6 DEF a

\* Statements that write leave the transaction open, with the rows staged.
LEMMA ExecutedStages ==
  ASSUME Typed, NEW r \in Requests, NEW ws \in SUBSET Writes, ws # {}, Executed(r, "ok", {}, ws)
  PROVE  StagesRows(r, ws) /\ db' = db
<1> DEFINE a == [code |-> "ok", rows |-> {}]
           u == [tx[r] EXCEPT !.phase = "executed", !.staged = ws, !.answer = a]
<1>1. tx' = [tx EXCEPT ![r].phase = "executed", ![r].staged = ws, ![r].answer = a] /\ db' = db
  BY DEF Executed
<1>2. tx[r] \in TxType /\ tx \in [Requests -> TxType]
  BY DEF Typed
<1>3. a \in Answers
  BY DEF Answers, Codes
<1> HIDE DEF a
<1>4. tx' = [tx EXCEPT ![r] = u]
  BY <1>1, <1>2 DEF TxType
<1>5. /\ u \in TxType /\ u.op = tx[r].op /\ u.phase = "executed" /\ u.answer = a /\ u.staged = ws
      /\ u.tenant = tx[r].tenant
  BY <1>2, <1>3 DEF TxType, TxPhases
<1> HIDE DEF u
<1>6. StagesRows(r, ws)
  BY <1>4, <1>5 DEF StagesRows, Becomes, a
<1>7. QED
  BY <1>1, <1>6

\* A commit, heard or not, and a rollback end the transaction.
LEMMA CommitEnds ==
  ASSUME Typed, NEW r \in Requests, Commit(r) \/ CommitUnheard(r)
  PROVE  /\ tx[r].phase = "executed" /\ db' = Published(r)
         /\ \E a \in {tx[r].answer, Failed} : Ends(r, a)
<1>1. tx[r] \in TxType /\ tx \in [Requests -> TxType] /\ Failed \in Answers
  BY DEF Typed, Failed, Answers, Codes
<1>2. CASE Commit(r)
  <2> DEFINE u == [tx[r] EXCEPT !.phase = "closed", !.staged = {}]
  <2>1. tx' = [tx EXCEPT ![r].phase = "closed", ![r].staged = {}] /\ tx[r].phase = "executed" /\ db' = Published(r)
    BY <1>2, Zenon DEF Commit
  <2>2. tx' = [tx EXCEPT ![r] = u]
    BY <1>1, <2>1 DEF TxType
  <2>3. u \in TxType /\ u.op = tx[r].op /\ u.phase = "closed" /\ u.answer = tx[r].answer /\ u.staged = {}
    BY <1>1 DEF TxType, TxPhases
  <2> HIDE DEF u
  <2>4. Ends(r, tx[r].answer)
    BY <2>2, <2>3 DEF Ends, Becomes
  <2>5. QED
    BY <2>1, <2>4, Zenon
<1>3. CASE CommitUnheard(r)
  <2> DEFINE u == [tx[r] EXCEPT !.phase = "closed", !.staged = {}, !.answer = Failed]
  <2>1. tx' = [tx EXCEPT ![r].phase = "closed", ![r].staged = {}, ![r].answer = Failed]
        /\ tx[r].phase = "executed" /\ db' = Published(r)
    BY <1>3, Zenon DEF CommitUnheard
  <2>2. tx' = [tx EXCEPT ![r] = u]
    BY <1>1, <2>1 DEF TxType
  <2>3. u \in TxType /\ u.op = tx[r].op /\ u.phase = "closed" /\ u.answer = Failed /\ u.staged = {}
    BY <1>1 DEF TxType, TxPhases
  <2> HIDE DEF u
  <2>4. Ends(r, Failed)
    BY <2>2, <2>3 DEF Ends, Becomes
  <2>5. QED
    BY <2>1, <2>4, Zenon
<1>4. QED
  BY <1>2, <1>3

\* A rollback ends it with an error.
LEMMA RollbackEnds ==
  ASSUME Typed, NEW r \in Requests, Rollback(r)
  PROVE  tx[r].phase \in {"open", "found", "executed"} /\ db' = db /\ Ends(r, Failed)
<1> DEFINE u == [tx[r] EXCEPT !.phase = "closed", !.staged = {}, !.answer = Failed]
<1>1. tx[r] \in TxType /\ tx \in [Requests -> TxType] /\ Failed \in Answers
  BY DEF Typed, Failed, Answers, Codes
<1>2. tx' = [tx EXCEPT ![r].phase = "closed", ![r].staged = {}, ![r].answer = Failed] /\ db' = db
      /\ tx[r].phase \in {"open", "found", "executed"}
  BY Zenon DEF Rollback
<1>3. tx' = [tx EXCEPT ![r] = u]
  BY <1>1, <1>2 DEF TxType
<1>4. u \in TxType /\ u.op = tx[r].op /\ u.phase = "closed" /\ u.answer = Failed /\ u.staged = {}
  BY <1>1 DEF TxType, TxPhases
<1> HIDE DEF u
<1>5. QED
  BY <1>2, <1>3, <1>4 DEF Ends, Becomes

\* The key is unknown, or its tenant is found.
LEMMA FindKeyFinds ==
  ASSUME Typed, NEW r \in Requests, FindKey(r)
  PROVE  /\ Runs(r, "TenantByAPIKeyHash") /\ db' = db
         /\ \/ /\ \A y \in db["keys"] : y.id # Op(r).id
               /\ Ends(r, [code |-> "not_found", rows |-> {}])
            \/ \E y \in db["keys"] : y.id = Op(r).id /\ Finds(r, y.tenant)
<1> DEFINE owners == {x.tenant : x \in {y \in db["keys"] : y.id = Op(r).id}}
<1>1. tx[r] \in TxType /\ tx \in [Requests -> TxType]
  BY DEF Typed
<1>2. CASE owners = {} /\ Executed(r, "not_found", {}, {})
  <2>1. Ends(r, [code |-> "not_found", rows |-> {}]) /\ db' = db
    BY <1>2, ExecutedReads DEF Codes
  <2>2. \A y \in db["keys"] : y.id # Op(r).id
    BY <1>2
  <2>3. QED
    BY <2>1, <2>2, Zenon DEF FindKey
<1>3. CASE owners # {} /\ UNCHANGED db
           /\ tx' = [tx EXCEPT ![r].phase = "found", ![r].tenant = CHOOSE t \in owners : TRUE]
  <2> DEFINE t == CHOOSE w \in owners : TRUE
             u == [tx[r] EXCEPT !.phase = "found", !.tenant = t]
  <2>1. t \in owners
    BY <1>3
  <2>2. tx' = [tx EXCEPT ![r].phase = "found", ![r].tenant = t]
    BY <1>3
  <2> HIDE DEF t
  <2>3. PICK y \in db["keys"] : y.id = Op(r).id /\ y.tenant = t
    BY <2>1
  <2>4. t \in Int
    BY <2>3 DEF Typed, RowType, Tables
  <2>5. tx' = [tx EXCEPT ![r] = u]
    BY <1>1, <2>2 DEF TxType
  <2>6. /\ u \in TxType /\ u.op = tx[r].op /\ u.phase = "found" /\ u.tenant = t
        /\ u.answer = tx[r].answer /\ u.staged = tx[r].staged
    BY <1>1, <2>4 DEF TxType, TxPhases
  <2> HIDE DEF u
  <2>7. Finds(r, y.tenant)
    BY <2>3, <2>5, <2>6 DEF Finds, Becomes
  <2>8. QED
    BY <1>3, <2>3, <2>7, Zenon DEF FindKey
<1>4. QED
  BY <1>2, <1>3, Zenon DEF FindKey

-----------------------------------------------------------------------------
(* What a step leaves alone.                                               *)

\* Counters and the histories only grow.
Grows ==
  /\ served' \in Nat /\ onboardings' \in Nat /\ NewId' >= NewId
  /\ keysOut \subseteq keysOut' /\ keysOut' \subseteq Nat

\* Ids stay used.
LEMMA GoodStays ==
  ASSUME Typed, Grows, NEW k, NEW x \in RowType, Good(k, x)
  PROVE  Good(k, x)'
<1>1. served \in Nat /\ onboardings \in Nat /\ served' \in Nat /\ onboardings' \in Nat
  BY DEF Typed, Grows
<1>2. onboardings' + served' + 1 >= onboardings + served + 1
  BY DEF Grows, NewId
<1>4. \A a, b, c, d, i \in Nat : a + b + 1 >= c + d + 1 /\ i < c + d + 1 => i < a + b + 1
  OBVIOUS
<1>3. \A i \in Nat : i < NewId => i < NewId'
  BY <1>1, <1>2, <1>4 DEF NewId
<1>5. x.id \in Nat /\ x.id < NewId => x.id < NewId'
  BY <1>3
<1>6. QED
  BY <1>5 DEF Good

\* A handler calls the store as the tenant it was given.
LEMMA HandlerCalls ==
  ASSUME NEW q, q.route \in APIRoutes \ {"POST /tenants"}, NEW t
  PROVE  /\ Handler(q, t).name \in OpNames \ {"", "CreateTenant", "TenantByAPIKeyHash", "PutCall"}
         /\ Handler(q, t).row.tenant = t /\ Handler(q, t).row.by = q.key
         /\ q.route \in TwoCalls => Handler(q, t).name \in {"UpdateTenantMode", "CurrentTenant"}
         /\ Handler(q, t).name = "UpdateTenantMode" =>
              q.route = "PUT /tenants/me/mode" /\ Handler(q, t).row = Moded(Own(q, t, 0), q.mode)
<1> USE DEF Own, Row, OpNames, TwoCalls
<1>1. CASE q.route = "GET /tenants/me"
  BY <1>1 DEF Handler, handleGetTenant
<1>2. CASE q.route = "PUT /tenants/me/mode"
  BY <1>2 DEF Handler, handleUpdateMode, Moded
<1>3. CASE q.route = "POST /dids"
  BY <1>3 DEF Handler, handleAddDID
<1>4. CASE q.route = "GET /dids"
  BY <1>4 DEF Handler, handleListDIDs
<1>5. CASE q.route = "GET /calls"
  BY <1>5 DEF Handler, handleListCalls
<1>6. CASE q.route = "GET /calls/{callID}"
  BY <1>6 DEF Handler, handleGetCall
<1>7. CASE q.route = "POST /appointments"
  BY <1>7 DEF Handler, handleCreateAppointment
<1>8. CASE q.route = "GET /appointments"
  BY <1>8 DEF Handler, handleListAppointments
<1>9. CASE q.route = "POST /messages"
  BY <1>9 DEF Handler, handleCreateMessage
<1>10. CASE q.route = "GET /messages"
  BY <1>10 DEF Handler, handleListMessages
<1>11. CASE q.route = "GET /usage"
  BY <1>11 DEF Handler, handleGetUsage
<1>12. QED
  BY <1>1, <1>2, <1>3, <1>4, <1>5, <1>6, <1>7, <1>8, <1>9, <1>10, <1>11 DEF APIRoutes

\* The fields of an unused transaction.
LEMMA IdleFields ==
  Idle.phase = "idle" /\ Idle.op = NoOp /\ NoOp.name = "" /\ Idle.staged = {} /\ Idle.answer = Nothing
BY DEF Idle, NoOp

\* Who makes which call, and as which tenant: a key lookup comes from
\* withTenant, and whatever reads or writes for a client runs as the client's
\* tenant, twice in two-call handlers.
LEMMA AskedCalls ==
  ASSUME NEW h, NEW op, Asked(h, op)
  PROVE  /\ op.name = "TenantByAPIKeyHash" =>
              h.phase = "auth" /\ h.q.key \in keysOut \cup {WrongKey} /\ op.row = Row(0, h.q.key, h.q.key)
         /\ op.name = "CreateTenant" => h.phase = "serve" /\ h.q.route = "POST /tenants" /\ Good("tenants", op.row)
         /\ op.name \notin {"TenantByAPIKeyHash", "CreateTenant", "PutCall"} =>
              h.q.key \in keysOut /\ op.row.tenant = h.q.key /\ op.row.by = h.q.key
         /\ op.name = "PutCall" => Good("calls", op.row)
         /\ op.name = "UpdateTenantMode" =>
              /\ h.q.route = "PUT /tenants/me/mode" /\ h.q.mode # "bad"
              /\ op.row = Moded(Own(h.q, h.q.key, 0), h.q.mode)
         /\ op.name \in OpNames \ {""}
<1>1. CASE /\ h.phase = "auth" /\ h.q.key \in keysOut \cup {WrongKey} /\ h.q.route \in APIRoutes \ {"POST /tenants"}
           /\ op = [name |-> "TenantByAPIKeyHash", row |-> Row(0, h.q.key, h.q.key)]
  <2>1. op.name = "TenantByAPIKeyHash" /\ op.row = Row(0, h.q.key, h.q.key)
    BY <1>1
  <2>2. QED
    BY <1>1, <2>1 DEF OpNames
<1>2. CASE /\ h.phase = "serve" /\ h.q.route = "POST /tenants" /\ h.q.key = NoKey
           /\ op.name = "CreateTenant" /\ Good("tenants", op.row)
  BY <1>2 DEF OpNames
<1>3. CASE /\ h.phase = "serve" /\ h.q.route \in APIRoutes \ {"POST /tenants"} /\ h.q.key \in keysOut
           /\ op = Handler(h.q, h.q.key) /\ h.q.mode # "bad"
  <2>1. /\ op.name \in OpNames \ {"", "CreateTenant", "TenantByAPIKeyHash", "PutCall"}
        /\ op.row.tenant = h.q.key /\ op.row.by = h.q.key
        /\ op.name = "UpdateTenantMode" =>
             h.q.route = "PUT /tenants/me/mode" /\ op.row = Moded(Own(h.q, h.q.key, 0), h.q.mode)
    BY <1>3, HandlerCalls, ZenonT(60)
  <2>2. QED
    BY <1>3, <2>1
<1>4. CASE /\ h.phase = "again" /\ h.q.route \in TwoCalls /\ h.q.key \in keysOut
           /\ op = [name |-> IF h.q.route = "GET /usage" THEN "ListCalls" ELSE "CurrentTenant",
                    row |-> Own(h.q, h.q.key, 0)]
  <2>1. op.name \in {"ListCalls", "CurrentTenant"} /\ op.row = Own(h.q, h.q.key, 0)
    <3>1. op.name = IF h.q.route = "GET /usage" THEN "ListCalls" ELSE "CurrentTenant"
      BY <1>4
    <3>2. op.row = Own(h.q, h.q.key, 0)
      BY <1>4
    <3>3. QED
      BY <3>1, <3>2
  <2>2. Own(h.q, h.q.key, 0).tenant = h.q.key /\ Own(h.q, h.q.key, 0).by = h.q.key
    BY DEF Own, Row
  <2>4. op.row.tenant = h.q.key /\ op.row.by = h.q.key
    BY <2>1, <2>2
  <2>3. QED
    BY <1>4, <2>1, <2>4 DEF OpNames
<1>5. CASE h.phase = "project" /\ h.q.key = NoKey /\ op.name = "PutCall" /\ Good("calls", op.row)
  BY <1>5 DEF OpNames
<1>6. QED
  BY <1>1, <1>2, <1>3, <1>4, <1>5, Zenon DEF Asked

\* The key withTenant looks up was handed out, or is wrong.
LEMMA KeyLookups ==
  ASSUME NEW h, NEW op, Asked(h, op), op.name = "TenantByAPIKeyHash"
  PROVE  h.phase = "auth" /\ h.q.key \in keysOut \cup {WrongKey} /\ op.row = Row(0, h.q.key, h.q.key)
BY AskedCalls

\* A request whose transaction has a call is in progress, and has asked for it.
LEMMA InUseAsked ==
  ASSUME NEW r \in Requests, InUse(r), tx[r].op.name # "" \/ tx[r].phase # "idle"
  PROVE  http[r].phase # "idle" /\ Asked(http[r], tx[r].op)
<1>1. http[r].phase # "idle"
  BY IdleFields DEF InUse
<1>2. QED
  BY <1>1 DEF InUse

\* What a handler asked for stays what it asked for.
LEMMA AskedStays ==
  ASSUME Typed, Grows, NEW h, NEW op \in OpType, Asked(h, op)
  PROVE  Asked(h, op)'
<1>1. keysOut \subseteq keysOut'
  BY DEF Grows
<1>2. op.row \in RowType
  BY DEF OpType
<1>3. \A k : Good(k, op.row) => Good(k, op.row)'
  BY <1>2, GoodStays
<1>4. QED
  BY <1>1, <1>3, Zenon DEF Asked, WrongKey, TwoCalls, Own, Handler, Row

\* Request q does not take part in the step, and no row is committed.
LEMMA OthersKeep ==
  ASSUME Typed, Grows, NEW q \in Requests, tx'[q] = tx[q], http'[q] = http[q], db' = db, TxInv(q)
  PROVE  TxInv(q)'
<1>1. tx[q].op \in OpType
  BY DEF Typed, TxType
<1>2. InUse(q)'
  BY <1>1, AskedStays DEF TxInv, InUse
<1>3. RunsAs(q)'
  BY DEF TxInv, RunsAs, Op, Owner
<1>4. StagedInv(q)'
  <2>1. Stages(q)' = Stages(q)
    <3>1. Op(q)' = Op(q) /\ Visible(q, "tenants")' = Visible(q, "tenants") /\ tx[q].op.name = tx'[q].op.name
      BY DEF Op, Visible
    <3>2. QED
      BY <3>1, Zenon DEF Stages
  <2>2. QED
    BY <2>1 DEF TxInv, StagedInv
<1>5. AnswerInv(q)'
  <2>1. ASSUME tx[q].op.name = "TenantByAPIKeyHash", Owner(q) \notin keysOut
        PROVE  Owner(q) \notin keysOut'
    <3>1. Owner(q) = -1
      <4>1. Asked(http[q], tx[q].op)
        BY <2>1, InUseAsked DEF TxInv
      <4>2. http[q].q.key \in keysOut \cup {WrongKey}
        BY <2>1, <4>1, KeyLookups
      <4>3. QED
        BY <2>1, <4>2 DEF WrongKey, Owner
    <3>2. QED
      BY <3>1 DEF Grows
  <2>2. Owner(q)' = Owner(q) /\ keysOut \subseteq keysOut'
    BY DEF Owner, Grows
  <2>3. QED
    BY <2>1, <2>2 DEF TxInv, AnswerInv
<1>6. HoldsInv(q)'
  BY DEF TxInv, HoldsInv, Op, Taken
<1>7. QED
  BY <1>2, <1>3, <1>4, <1>5, <1>6 DEF TxInv

\* Rows that are not written keep their properties.
LEMMA RowsKeep ==
  ASSUME Typed, Grows, db' = db, DBInv
  PROVE  DBInv'
<1>1. \A k \in Tables : \A x \in db[k] : Good(k, x)'
  <2>1. \A k \in Tables : \A x \in db[k] : x \in RowType
    BY DEF Typed
  <2>2. \A k \in Tables : \A x \in db[k] : Good(k, x)
    BY DEF DBInv
  <2>3. QED
    BY <2>1, <2>2, GoodStays
<1>2. QED
  BY <1>1 DEF DBInv

\* The transaction of r ends or stages nothing new: locks are only released.
LEMMA LocksKeep ==
  ASSUME LockInv, NEW r \in Requests, \A q \in Requests \ {r} : tx'[q] = tx[q],
         tx'[r].staged = {}, tx'[r].op = tx[r].op \/ tx'[r].op.name # "CreateTenant"
  PROVE  LockInv'
<1> SUFFICES ASSUME NEW p \in Requests, NEW s \in Requests, p # s
             PROVE  /\ \A v \in tx'[p].staged, w \in tx'[s].staged :
                         v.table = w.table => ~SameKey(v.table, v.row, w.row)
                    /\ tx'[p].op.name = "CreateTenant" /\ tx'[s].op.name = "CreateTenant"
                         => tx'[p].op.row.id # tx'[s].op.row.id
  BY DEF LockInv, Op
<1>1. /\ \A v \in tx[p].staged, w \in tx[s].staged :
           v.table = w.table => ~SameKey(v.table, v.row, w.row)
      /\ tx[p].op.name = "CreateTenant" /\ tx[s].op.name = "CreateTenant"
           => tx[p].op.row.id # tx[s].op.row.id
  BY DEF LockInv, Op
<1>2. QED
  BY <1>1

\* Only the store's side changes.
StoreFrame == UNCHANGED <<http, served, onboardings, keysOut, acked>>

\* A step of the store starts no request and hands out no key.
LEMMA FrameGrows ==
  ASSUME Typed, StoreFrame
  PROVE  Grows
BY DEF Typed, StoreFrame, Grows, NewId

\* The types after a step of the transaction of r that commits nothing.
LEMMA BecomesTyped ==
  ASSUME Typed, NEW r \in Requests, NEW u, Becomes(r, u), StoreFrame, db' = db
  PROVE  Typed' /\ tx'[r] = u /\ (\A q \in Requests \ {r} : tx'[q] = tx[q]) /\ http' = http
BY DEF Typed, StoreFrame, Becomes

\* Everything but the transaction's own part is kept by such a step.
LEMMA BecomesKeeps ==
  ASSUME StoreInv, NEW r \in Requests, NEW u, Becomes(r, u), StoreFrame, db' = db
  PROVE  /\ Typed' /\ DBInv' /\ KeysInv' /\ AckedInv'
         /\ \A q \in Requests \ {r} : TxInv(q)'
         /\ u.staged = {} => LockInv'
<1>1. Typed /\ Grows
  BY FrameGrows DEF StoreInv
<1>2. Typed' /\ tx'[r] = u /\ (\A q \in Requests \ {r} : tx'[q] = tx[q]) /\ http' = http
  BY <1>1, BecomesTyped
<1>3. DBInv'
  BY <1>1, RowsKeep DEF StoreInv
<1>4. KeysInv' /\ AckedInv'
  BY DEF StoreInv, KeysInv, AckedInv, StoreFrame
<1>5. ASSUME NEW q \in Requests \ {r}
      PROVE  TxInv(q)'
  BY <1>1, <1>2, OthersKeep DEF StoreInv
<1>6. ASSUME u.staged = {}
      PROVE  LockInv'
  <2>1. tx'[r].staged = {} /\ tx'[r].op = tx[r].op
    BY <1>2, <1>6 DEF Becomes
  <2>2. QED
    BY <1>2, <2>1, LocksKeep DEF StoreInv
<1>7. QED
  BY <1>2, <1>3, <1>4, <1>5, <1>6

\* A transaction that ends without a commit: its answer holds the rows of the
\* request's tenant, and no write has succeeded.
LEMMA EndsKeeps ==
  ASSUME StoreInv, NEW r \in Requests, NEW a \in Answers, Ends(r, a), StoreFrame, db' = db,
         tx[r].phase \in {"open", "found", "executed"},
         \A x \in a.rows : x.tenant = Owner(r) /\ x.by = Owner(r),
         tx[r].op.name = "TenantByAPIKeyHash" =>
           \/ a.code = "ok" /\ \A x \in a.rows : x.id = Owner(r) /\ Owner(r) \in keysOut
           \/ a.code = "not_found" /\ Owner(r) \notin keysOut
           \/ a.code = "error",
         a.code = "ok" => tx[r].op.name \notin Inserts \cup {"CreateTenant"}
  PROVE  StoreInv'
<1>1. PICK u : Becomes(r, u) /\ u.phase = "closed" /\ u.answer = a /\ u.staged = {}
  BY DEF Ends
<1>2. /\ Typed' /\ DBInv' /\ KeysInv' /\ AckedInv'
      /\ \A q \in Requests \ {r} : TxInv(q)'
      /\ LockInv'
  BY <1>1, BecomesKeeps
<1>3. /\ tx'[r].phase = "closed" /\ tx'[r].answer = a /\ tx'[r].staged = {} /\ tx'[r].op = tx[r].op
      /\ http' = http /\ keysOut' = keysOut
  <2>1. tx'[r] = u
    BY <1>1, BecomesTyped DEF StoreInv
  <2>2. QED
    BY <1>1, <2>1 DEF Becomes, StoreFrame
<1>4. Typed /\ Grows /\ TxInv(r)
  BY FrameGrows DEF StoreInv
<1>5. InUse(r)'
  <2>1. http[r].phase # "idle" /\ Asked(http[r], tx[r].op)
    BY <1>4, InUseAsked DEF TxInv
  <2>2. tx[r].op \in OpType
    BY <1>4 DEF Typed, TxType
  <2>3. Asked(http[r], tx[r].op)'
    BY <2>1, <2>2, <1>3, <1>4, AskedStays
  <2>4. QED
    BY <1>3, <2>1, <2>3 DEF InUse
<1>6. RunsAs(r)' /\ StagedInv(r)'
  BY <1>3 DEF RunsAs, StagedInv
<1>7. AnswerInv(r)'
  BY <1>3 DEF AnswerInv, Owner
<1>8. HoldsInv(r)'
  BY <1>3 DEF HoldsInv
<1>9. TxInv(r)'
  BY <1>5, <1>6, <1>7, <1>8 DEF TxInv
<1>10. QED
  BY <1>2, <1>9 DEF StoreInv

\* What a statement sees under the policy belongs to the request's tenant.
LEMMA VisibleOwn ==
  ASSUME StoreInv, NEW r \in Requests, NEW k \in Tables,
         \/ tx[r].phase = "found"
         \/ tx[r].phase = "open" /\ tx[r].op.name \notin {"TenantByAPIKeyHash", "CreateTenant", "PutCall"}
  PROVE  \A x \in Visible(r, k) : /\ x.tenant = Owner(r) /\ x.by = Owner(r)
                                  /\ k = "tenants" => x.id = Owner(r)
<1>1. tx[r].tenant = Owner(r)
  <2>1. CASE tx[r].phase = "found"
    BY <2>1 DEF StoreInv, TxInv, RunsAs
  <2>2. CASE tx[r].phase = "open" /\ tx[r].op.name \notin {"TenantByAPIKeyHash", "CreateTenant", "PutCall"}
    <3>1. Asked(http[r], tx[r].op)
      BY <2>2, InUseAsked DEF StoreInv, TxInv
    <3>2. tx[r].op.row.tenant = http[r].q.key
      BY <2>2, <3>1, AskedCalls
    <3>3. QED
      BY <2>2, <3>2 DEF StoreInv, TxInv, RunsAs, Owner, Op
  <2>3. QED
    BY <2>1, <2>2
<1>2. \A x \in db[k] : Good(k, x)
  BY DEF StoreInv, DBInv
<1>3. QED
  BY <1>1, <1>2 DEF Visible, Good

\* A key has been found: its tenant is the request's.
LEMMA FindsKeeps ==
  ASSUME StoreInv, NEW r \in Requests, Runs(r, "TenantByAPIKeyHash"), StoreFrame, db' = db,
         NEW y \in db["keys"], y.id = Op(r).id, Finds(r, y.tenant)
  PROVE  StoreInv'
<1>1. PICK u : /\ Becomes(r, u) /\ u.phase = "found" /\ u.tenant = y.tenant
               /\ u.answer = tx[r].answer /\ u.staged = tx[r].staged
  BY DEF Finds
<1>2. TxInv(r) /\ tx[r].phase = "open" /\ tx[r].op.name = "TenantByAPIKeyHash"
  BY DEF StoreInv, Runs
<1>3. tx[r].staged = {} /\ tx[r].answer = Nothing
  BY <1>2 DEF TxInv, StagedInv, AnswerInv
<1>4. /\ Typed' /\ DBInv' /\ KeysInv' /\ AckedInv'
      /\ \A q \in Requests \ {r} : TxInv(q)'
      /\ LockInv'
  BY <1>1, <1>3, BecomesKeeps
<1>5. /\ tx'[r].phase = "found" /\ tx'[r].answer = Nothing /\ tx'[r].staged = {} /\ tx'[r].op = tx[r].op
      /\ tx'[r].tenant = y.tenant /\ http' = http /\ keysOut' = keysOut
  <2>1. tx'[r] = u
    BY <1>1, BecomesTyped DEF StoreInv
  <2>2. QED
    BY <1>1, <1>3, <2>1 DEF Becomes, StoreFrame
<1>6. Typed /\ Grows
  BY FrameGrows DEF StoreInv
<1>7. http[r].phase # "idle" /\ Asked(http[r], tx[r].op)
  BY <1>2, InUseAsked DEF TxInv
<1>8. InUse(r)'
  <2>1. tx[r].op \in OpType
    BY <1>6 DEF Typed, TxType
  <2>2. Asked(http[r], tx[r].op)'
    BY <1>5, <1>6, <1>7, <2>1, AskedStays
  <2>3. QED
    BY <1>5, <1>7, <2>2 DEF InUse
<1>9. y.tenant = Owner(r) /\ y.tenant = y.id
  <2>1. tx[r].op.row = Row(0, Owner(r), Owner(r))
    BY <1>2, <1>7, KeyLookups DEF Owner
  <2>2. Row(0, Owner(r), Owner(r)).id = Owner(r)
    BY DEF Row
  <2>3. Good("keys", y)
    BY DEF StoreInv, DBInv, Tables
  <2>4. QED
    BY <2>1, <2>2, <2>3 DEF Op, Good
<1>10. RunsAs(r)'
  BY <1>2, <1>5, <1>9 DEF RunsAs, Owner
<1>11. StagedInv(r)' /\ AnswerInv(r)' /\ HoldsInv(r)'
  BY <1>5 DEF StagedInv, AnswerInv, HoldsInv
<1>12. QED
  BY <1>4, <1>8, <1>10, <1>11 DEF StoreInv, TxInv

\* The operations that write.
Writers == Inserts \cup {"CreateTenant", "PutCall", "UpdateTenantMode"}

\* A transaction that has written: nobody else has written rows with the same
\* keys and not ended.
LEMMA StagesKeeps ==
  ASSUME StoreInv, NEW r \in Requests, tx[r].phase = "open", tx[r].op.name \in Writers,
         StagesRows(r, Stages(r)), Stages(r) # {}, StoreFrame, db' = db,
         tx[r].op.name \in Inserts => ~Taken(Stored[tx[r].op.name], db[Stored[tx[r].op.name]], Op(r)),
         \A v \in Stages(r) : ~Locked(r, v.table, v.row)
  PROVE  StoreInv'
<1>1. PICK u : /\ Becomes(r, u) /\ u.phase = "executed" /\ u.answer = [code |-> "ok", rows |-> {}]
               /\ u.staged = Stages(r) /\ u.tenant = tx[r].tenant
  BY DEF StagesRows
<1>2. TxInv(r)
  BY DEF StoreInv
<1>3. /\ Typed' /\ DBInv' /\ KeysInv' /\ AckedInv'
      /\ \A q \in Requests \ {r} : TxInv(q)'
  BY <1>1, BecomesKeeps
<1>4. /\ tx'[r].phase = "executed" /\ tx'[r].answer = [code |-> "ok", rows |-> {}]
      /\ tx'[r].staged = Stages(r) /\ tx'[r].op = tx[r].op
      /\ tx'[r].tenant = tx[r].tenant /\ http' = http /\ keysOut' = keysOut
      /\ \A q \in Requests \ {r} : tx'[q] = tx[q]
  <2>1. tx'[r] = u /\ \A q \in Requests \ {r} : tx'[q] = tx[q]
    BY <1>1, BecomesTyped DEF StoreInv
  <2>2. QED
    BY <1>1, <2>1 DEF Becomes, StoreFrame
<1>5. Typed /\ Grows
  BY FrameGrows DEF StoreInv
<1>6. InUse(r)'
  <2>1. http[r].phase # "idle" /\ Asked(http[r], tx[r].op)
    BY <1>2, InUseAsked DEF TxInv
  <2>2. tx[r].op \in OpType
    BY <1>5 DEF Typed, TxType
  <2>3. Asked(http[r], tx[r].op)'
    BY <1>4, <1>5, <2>1, <2>2, AskedStays
  <2>4. QED
    BY <1>4, <2>1, <2>3 DEF InUse
<1>7. RunsAs(r)'
  BY <1>2, <1>4 DEF TxInv, RunsAs, Op
<1>8. StagedInv(r)'
  <2>1. Op(r)' = Op(r) /\ Visible(r, "tenants")' = Visible(r, "tenants") /\ tx'[r].op.name = tx[r].op.name
    BY <1>4 DEF Op, Visible
  <2>2. Stages(r)' = Stages(r)
    BY <2>1, Zenon DEF Stages
  <2>3. QED
    BY <1>4, <2>2 DEF StagedInv, Writers
<1>9. AnswerInv(r)'
  BY <1>4 DEF AnswerInv
<1>10. HoldsInv(r)'
  BY <1>2, <1>4 DEF TxInv, HoldsInv, Op, Taken
<1>11. LockInv'
  <2> SUFFICES ASSUME NEW p \in Requests, NEW s \in Requests, p # s
               PROVE  /\ \A v \in tx'[p].staged, w \in tx'[s].staged :
                           v.table = w.table => ~SameKey(v.table, v.row, w.row)
                      /\ tx'[p].op.name = "CreateTenant" /\ tx'[s].op.name = "CreateTenant"
                           => tx'[p].op.row.id # tx'[s].op.row.id
    BY DEF LockInv, Op
  <2>1. /\ \A v \in tx[p].staged, w \in tx[s].staged :
             v.table = w.table => ~SameKey(v.table, v.row, w.row)
        /\ tx[p].op.name = "CreateTenant" /\ tx[s].op.name = "CreateTenant"
             => tx[p].op.row.id # tx[s].op.row.id
    BY DEF StoreInv, LockInv, Op
  <2>2. \A q \in Requests \ {r} : \A v \in Stages(r), w \in tx[q].staged :
           v.table = w.table => ~SameKey(v.table, w.row, v.row)
    BY DEF Locked
  <2>3. \A k, x, y : SameKey(k, x, y) <=> SameKey(k, y, x)
    BY DEF SameKey
  <2>4. QED
    BY <1>4, <2>1, <2>2, <2>3
<1>12. QED
  BY <1>3, <1>6, <1>7, <1>8, <1>9, <1>10, <1>11 DEF StoreInv, TxInv

-----------------------------------------------------------------------------
(* The commit.                                                             *)

\* What an update makes of a tenant.
Updated(x, row) == [x EXCEPT !.mode = row.mode, !.secs = row.secs, !.by = row.by]

\* A staged row is the row of the call, whose key is free if the call is an
\* insert, or the updated tenant.
StagedRow(r, v) ==
  \/ /\ tx[r].op.name = "CreateTenant" /\ v.table \in {"tenants", "keys"} /\ v.row = Op(r)
     /\ ~Taken(v.table, db[v.table], v.row)
  \/ /\ tx[r].op.name \in Inserts /\ v.table = Stored[tx[r].op.name] /\ v.row = Op(r)
     /\ v.table \in {"dids", "appointments", "messages"} /\ ~Taken(v.table, db[v.table], v.row)
  \/ tx[r].op.name = "PutCall" /\ v.table = "calls" /\ v.row = Op(r)
  \/ /\ tx[r].op.name = "UpdateTenantMode" /\ v.table = "tenants"
     /\ \E x \in Visible(r, "tenants") : v.row = Updated(x, Op(r))

\* The tables of the inserts.
LEMMA StoredTables ==
  ASSUME NEW r \in Requests, tx[r].op.name \in Inserts
  PROVE  Stored[tx[r].op.name] \in {"dids", "appointments", "messages"}
BY DEF Inserts, Stored

\* What a transaction has staged is the rows of its call.
LEMMA StagedRows ==
  ASSUME StoreInv, NEW r \in Requests, tx[r].phase = "executed"
  PROVE  \A v \in tx[r].staged : StagedRow(r, v)
<1>1. /\ tx[r].op.name \in Inserts \cup {"CreateTenant", "PutCall", "UpdateTenantMode"}
      /\ tx[r].staged = Stages(r)
  BY DEF StoreInv, TxInv, StagedInv
<1>2. HoldsInv(r)
  BY DEF StoreInv, TxInv
<1>3. CASE tx[r].op.name = "CreateTenant"
  <2>1. tx[r].staged = {[table |-> t, row |-> Op(r)] : t \in {"tenants", "keys"}}
    BY <1>1, <1>3 DEF Stages, Inserts
  <2>2. \A k \in {"tenants", "keys"} : ~Taken(k, db[k], Op(r))
    BY <1>2, <1>3 DEF HoldsInv
  <2>3. QED
    BY <1>3, <2>1, <2>2 DEF StagedRow
<1>4. CASE tx[r].op.name \in Inserts
  <2>1. tx[r].staged = {[table |-> Stored[tx[r].op.name], row |-> Op(r)]}
    BY <1>1, <1>4 DEF Stages, Inserts
  <2>2. ~Taken(Stored[tx[r].op.name], db[Stored[tx[r].op.name]], Op(r))
    BY <1>2, <1>4 DEF HoldsInv
  <2>3. QED
    BY <1>4, <2>1, <2>2, StoredTables DEF StagedRow
<1>5. CASE tx[r].op.name = "PutCall"
  <2>1. tx[r].staged = {[table |-> "calls", row |-> Op(r)]}
    BY <1>1, <1>5 DEF Stages, Inserts
  <2>2. QED
    BY <1>5, <2>1 DEF StagedRow
<1>6. CASE tx[r].op.name = "UpdateTenantMode"
  <2>1. tx[r].staged = {[table |-> "tenants", row |-> Updated(x, Op(r))] : x \in Visible(r, "tenants")}
    BY <1>1, <1>6 DEF Stages, Inserts, Updated
  <2>2. QED
    BY <1>6, <2>1 DEF StagedRow
<1>7. QED
  BY <1>1, <1>3, <1>4, <1>5, <1>6

\* An update writes a valid tenant: with the mode of a request that was
\* checked, and the delay overflow needs.
LEMMA UpdateIsValid ==
  ASSUME StoreInv, NEW r \in Requests, tx[r].op.name = "UpdateTenantMode"
  PROVE  /\ Op(r).mode \in Modes /\ Op(r).secs \in Nat
         /\ Op(r).mode = "overflow" => Op(r).secs > 0
         /\ Op(r).tenant = Owner(r) /\ Op(r).by = Owner(r) /\ Owner(r) \in keysOut
<1> DEFINE q == http[r].q
<1>1. Asked(http[r], tx[r].op)
  BY InUseAsked DEF StoreInv, TxInv
<1>2. /\ q.route = "PUT /tenants/me/mode" /\ q.mode # "bad"
      /\ Op(r) = Moded(Own(q, q.key, 0), q.mode)
  BY <1>1, AskedCalls DEF Op
<1>3. Op(r).tenant = Owner(r) /\ Op(r).by = Owner(r) /\ Owner(r) \in keysOut
  BY <1>1, AskedCalls, ZenonT(60) DEF Op, Owner
<1>4. q \in QType
  BY DEF StoreInv, Typed, HttpType
<1>5. q.mode \in Modes
  BY <1>2, <1>4 DEF QType, Modes
<1> HIDE DEF q
<1>6. /\ Moded(Own(q, q.key, 0), q.mode).mode = q.mode
      /\ Moded(Own(q, q.key, 0), q.mode).secs = IF q.mode = "overflow" THEN 15 ELSE 0
  BY DEF Moded, Own, Row
<1>7. Op(r).mode = q.mode /\ Op(r).secs = IF q.mode = "overflow" THEN 15 ELSE 0
  BY <1>2, <1>6
<1>8. QED
  BY <1>3, <1>5, <1>7

\* The fields of an updated tenant.
LEMMA UpdatedFields ==
  ASSUME NEW x \in RowType, NEW row \in RowType
  PROVE  /\ Updated(x, row) \in RowType
         /\ Updated(x, row).id = x.id /\ Updated(x, row).tenant = x.tenant /\ Updated(x, row).by = row.by
         /\ Updated(x, row).mode = row.mode /\ Updated(x, row).secs = row.secs
BY DEF Updated, RowType

\* A staged row is good.
LEMMA StagedGood ==
  ASSUME StoreInv, NEW r \in Requests, tx[r].phase = "executed", NEW v \in tx[r].staged
  PROVE  v.table \in Tables /\ v.row \in RowType /\ Good(v.table, v.row)
<1>1. v.table \in Tables /\ v.row \in RowType
  BY DEF StoreInv, Typed, TxType, Writes
<1>2. StagedRow(r, v)
  BY StagedRows
<1>3. Asked(http[r], tx[r].op)
  BY InUseAsked DEF StoreInv, TxInv
<1>4. CASE tx[r].op.name = "CreateTenant" /\ v.row = Op(r)
  <2>1. Good("tenants", v.row)
    BY <1>3, <1>4, AskedCalls, ZenonT(60) DEF Op
  <2>2. QED
    BY <1>1, <2>1 DEF Good
<1>5. CASE /\ tx[r].op.name \in Inserts /\ v.row = Op(r)
           /\ v.table \in {"dids", "appointments", "messages"}
  <2>1. tx[r].op.name \notin {"TenantByAPIKeyHash", "CreateTenant", "PutCall"}
    BY <1>5 DEF Inserts
  <2>2. tx[r].op.row.tenant = http[r].q.key /\ tx[r].op.row.by = http[r].q.key
    BY <1>3, <2>1, AskedCalls
  <2>3. QED
    BY <1>1, <1>5, <2>2 DEF Good, Op
<1>6. CASE tx[r].op.name = "PutCall" /\ v.table = "calls" /\ v.row = Op(r)
  <2>1. Good("calls", tx[r].op.row)
    BY <1>3, <1>6, AskedCalls
  <2>2. QED
    BY <1>1, <1>6, <2>1 DEF Op
<1>7. CASE /\ tx[r].op.name = "UpdateTenantMode" /\ v.table = "tenants"
           /\ \E x \in Visible(r, "tenants") : v.row = Updated(x, Op(r))
  <2>1. PICK x \in Visible(r, "tenants") : v.row = Updated(x, Op(r))
    BY <1>7
  <2>2. x \in db["tenants"] /\ x.id = tx[r].tenant
    BY DEF Visible
  <2>3. x \in RowType /\ Op(r) \in RowType
    BY <2>2 DEF StoreInv, Typed, Tables, TxType, OpType, Op
  <2>4. Good("tenants", x)
    BY <2>2 DEF StoreInv, DBInv, Tables
  <2>5. tx[r].tenant = Owner(r)
    BY <1>7, UpdateIsValid DEF StoreInv, TxInv, RunsAs
  <2>6. /\ Op(r).mode \in Modes
        /\ Op(r).mode = "overflow" => Op(r).secs > 0
        /\ Op(r).by = Owner(r)
    BY <1>7, UpdateIsValid
  <2>7. /\ v.row.id = x.id /\ v.row.tenant = x.tenant /\ v.row.by = Owner(r)
        /\ v.row.mode = Op(r).mode /\ v.row.secs = Op(r).secs
    BY <2>1, <2>3, <2>6, UpdatedFields
  <2>8. x.id = Owner(r) /\ x.tenant = Owner(r)
    BY <2>2, <2>4, <2>5 DEF Good
  <2>9. ValidTenant(v.row)
    BY <2>6, <2>7 DEF ValidTenant
  <2>10. QED
    BY <1>1, <2>4, <2>7, <2>8, <2>9 DEF Good
<1>8. QED
  BY <1>2, <1>4, <1>5, <1>6, <1>7 DEF StagedRow

\* The rows after a commit: the staged ones, and those no staged row replaces.
LEMMA PublishedRows ==
  ASSUME StoreInv, NEW r \in Requests, tx[r].phase = "executed", db' = Published(r)
  PROVE  /\ db' \in [Tables -> SUBSET RowType]
         /\ \A v \in tx[r].staged : v.row \in db'[v.table]
         /\ \A k \in Tables : \A x \in db[k] :
              x \in db'[k] \/ \E v \in tx[r].staged : v.table = k /\ SameKey(k, v.row, x)
         /\ \A k \in Tables : \A x \in db'[k] :
              \/ x \in db[k] /\ \A v \in tx[r].staged : v.table = k => ~SameKey(k, v.row, x)
              \/ \E v \in tx[r].staged : v.table = k /\ v.row = x
<1> DEFINE new(k) == {w.row : w \in {v \in tx[r].staged : v.table = k}}
<1>1. \A v \in tx[r].staged : v.table \in Tables /\ v.row \in RowType
  BY StagedGood
<1>2. \A k \in Tables : db'[k] = {x \in db[k] : ~Taken(k, new(k), x)} \cup new(k)
  BY DEF Published, Written
<1>3. \A k \in Tables : db[k] \subseteq RowType /\ new(k) \subseteq RowType
  BY <1>1 DEF StoreInv, Typed
<1>4. \A k, x : Taken(k, new(k), x) <=> \E v \in tx[r].staged : v.table = k /\ SameKey(k, v.row, x)
  BY DEF Taken
<1>5. \A v \in tx[r].staged : v.row \in new(v.table)
  OBVIOUS
<1>6. \A k, x : x \in new(k) <=> \E v \in tx[r].staged : v.table = k /\ v.row = x
  OBVIOUS
<1> HIDE DEF new
<1>7. db' = [k \in Tables |-> db'[k]]
  BY DEF Published
<1>8. db' \in [Tables -> SUBSET RowType]
  BY <1>2, <1>3, <1>7
<1>9. \A v \in tx[r].staged : v.row \in db'[v.table]
  BY <1>1, <1>2, <1>5
<1>10. \A k \in Tables : \A x \in db[k] :
         x \in db'[k] \/ \E v \in tx[r].staged : v.table = k /\ SameKey(k, v.row, x)
  BY <1>2, <1>4
<1>11. \A k \in Tables : \A x \in db'[k] :
         \/ x \in db[k] /\ \A v \in tx[r].staged : v.table = k => ~SameKey(k, v.row, x)
         \/ \E v \in tx[r].staged : v.table = k /\ v.row = x
  BY <1>2, <1>4, <1>6
<1>12. QED
  BY <1>8, <1>9, <1>10, <1>11

\* A commit replaces no row but calls and an updated tenant.
LEMMA CommitKeepsRows ==
  ASSUME StoreInv, NEW r \in Requests, tx[r].phase = "executed", db' = Published(r)
  PROVE  /\ \A k \in {"keys", "dids", "appointments", "messages"} : db[k] \subseteq db'[k]
         /\ \A x \in db["tenants"] : \E y \in db'["tenants"] : y.id = x.id
<1>1. ASSUME NEW k \in {"keys", "dids", "appointments", "messages"}, NEW x \in db[k]
      PROVE  x \in db'[k]
  <2>1. k \in Tables
    BY DEF Tables
  <2>2. ASSUME NEW v \in tx[r].staged, v.table = k, SameKey(k, v.row, x)
        PROVE  FALSE
    <3>1. StagedRow(r, v)
      BY StagedRows
    <3>2. ~Taken(k, db[k], v.row)
      BY <2>2, <3>1 DEF StagedRow
    <3>3. SameKey(k, x, v.row)
      BY <2>2 DEF SameKey
    <3>4. QED
      BY <3>2, <3>3 DEF Taken
  <2>3. QED
    BY <2>1, <2>2, PublishedRows
<1>2. ASSUME NEW x \in db["tenants"]
      PROVE  \E y \in db'["tenants"] : y.id = x.id
  <2>1. x \in db'["tenants"] \/ \E v \in tx[r].staged : v.table = "tenants" /\ SameKey("tenants", v.row, x)
    BY PublishedRows DEF Tables
  <2>2. QED
    BY <2>1, PublishedRows DEF SameKey
<1>3. QED
  BY <1>1, <1>2

\* After a commit the rows are good, tenants are unique and every key has its
\* tenant.
LEMMA CommitKeepsDB ==
  ASSUME StoreInv, Grows, NEW r \in Requests, tx[r].phase = "executed", db' = Published(r)
  PROVE  DBInv'
<1>1. ASSUME NEW k \in Tables, NEW x \in db'[k]
      PROVE  Good(k, x)'
  <2>1. x \in db[k] \/ \E v \in tx[r].staged : v.table = k /\ v.row = x
    BY PublishedRows
  <2>2. Good(k, x) /\ x \in RowType
    <3>1. CASE x \in db[k]
      BY <3>1 DEF StoreInv, Typed, DBInv
    <3>2. CASE \E v \in tx[r].staged : v.table = k /\ v.row = x
      BY <3>2, StagedGood
    <3>3. QED
      BY <2>1, <3>1, <3>2
  <2>3. QED
    BY <2>2, GoodStays DEF StoreInv
<1>2. ASSUME NEW x \in db'["tenants"], NEW y \in db'["tenants"], x.id = y.id
      PROVE  x = y
  <2> DEFINE old(w)    == w \in db["tenants"] /\ \A v \in tx[r].staged :
                            v.table = "tenants" => ~SameKey("tenants", v.row, w)
             staged(w) == \E v \in tx[r].staged : v.table = "tenants" /\ v.row = w
  <2>1. (old(x) \/ staged(x)) /\ (old(y) \/ staged(y))
    BY PublishedRows DEF Tables
  <2>2. \A a, b : SameKey("tenants", a, b) <=> a.id = b.id
    BY DEF SameKey
  <2>3. \A a, b \in db["tenants"] : a.id = b.id => a = b
    BY DEF StoreInv, DBInv
  <2>4. ASSUME staged(x), staged(y)
        PROVE  x = y
    <3>1. PICK v \in tx[r].staged : v.table = "tenants" /\ v.row = x
      BY <2>4
    <3>2. PICK w \in tx[r].staged : w.table = "tenants" /\ w.row = y
      BY <2>4
    <3>3. StagedRow(r, v) /\ StagedRow(r, w)
      BY StagedRows
    <3>4. CASE tx[r].op.name # "UpdateTenantMode"
      BY <3>1, <3>2, <3>3, <3>4 DEF StagedRow
    <3>5. CASE tx[r].op.name = "UpdateTenantMode"
      <4>1. PICK a \in Visible(r, "tenants") : x = Updated(a, Op(r))
        BY <3>1, <3>3, <3>5 DEF StagedRow, Inserts
      <4>2. PICK b \in Visible(r, "tenants") : y = Updated(b, Op(r))
        BY <3>2, <3>3, <3>5 DEF StagedRow, Inserts
      <4>3. a \in db["tenants"] /\ b \in db["tenants"] /\ a.id = b.id
        BY DEF Visible
      <4>4. QED
        BY <2>3, <4>1, <4>2, <4>3
    <3>6. QED
      BY <3>4, <3>5
  <2>5. QED
    BY <1>2, <2>1, <2>2, <2>3, <2>4
<1>3. ASSUME NEW y \in db'["keys"]
      PROVE  \E x \in db'["tenants"] : x.id = y.id
  <2>1. CASE y \in db["keys"]
    <3>1. \E x \in db["tenants"] : x.id = y.id
      BY <2>1 DEF StoreInv, DBInv
    <3>2. QED
      BY <3>1, CommitKeepsRows
  <2>2. CASE \E v \in tx[r].staged : v.table = "keys" /\ v.row = y
    <3>1. PICK v \in tx[r].staged : v.table = "keys" /\ v.row = y
      BY <2>2
    <3>2. tx[r].op.name = "CreateTenant" /\ y = Op(r)
      <4>1. StagedRow(r, v)
        BY StagedRows
      <4>2. QED
        BY <3>1, <4>1 DEF StagedRow
    <3>3. [table |-> "tenants", row |-> Op(r)] \in tx[r].staged
      <4>1. tx[r].staged = Stages(r)
        BY DEF StoreInv, TxInv, StagedInv
      <4>2. Stages(r) = {[table |-> t, row |-> Op(r)] : t \in {"tenants", "keys"}}
        BY <3>2 DEF Stages, Inserts
      <4>3. QED
        BY <4>1, <4>2
    <3>4. Op(r) \in db'["tenants"]
      BY <3>3, PublishedRows
    <3>5. QED
      BY <3>2, <3>4
  <2>3. QED
    BY <2>1, <2>2, PublishedRows DEF Tables
<1>4. QED
  BY <1>1, <1>2, <1>3 DEF DBInv

\* While one transaction has an updated tenant staged, nobody else's commit
\* touches that tenant.
LEMMA CommitSparesUpdate ==
  ASSUME StoreInv, NEW r \in Requests, tx[r].phase = "executed", db' = Published(r),
         NEW q \in Requests \ {r}, tx[q].phase = "executed", tx[q].op.name = "UpdateTenantMode"
  PROVE  {x \in db'["tenants"] : x.id = tx[q].tenant} = Visible(q, "tenants")
<1>1. Visible(q, "tenants") = {x \in db["tenants"] : x.id = tx[q].tenant}
  BY DEF Visible
<1>2. tx[q].staged # {}
  BY DEF StoreInv, TxInv, StagedInv
<1>3. PICK w \in tx[q].staged : TRUE
  BY <1>2
<1>4. StagedRow(q, w)
  BY StagedRows
<1>5. PICK a \in Visible(q, "tenants") : w.table = "tenants" /\ w.row = Updated(a, Op(q))
  BY <1>4 DEF StagedRow, Inserts
<1>6. w.row.id = tx[q].tenant
  <2>1. a \in RowType /\ Op(q) \in RowType
    BY <1>1 DEF StoreInv, Typed, Tables, TxType, OpType, Op
  <2>2. QED
    BY <1>1, <1>5, <2>1, UpdatedFields
<1>7. \A v \in tx[r].staged : v.table = "tenants" => v.row.id # tx[q].tenant
  <2>1. \A v \in tx[r].staged : v.table = "tenants" => ~SameKey("tenants", v.row, w.row)
    BY <1>5 DEF StoreInv, LockInv
  <2>2. QED
    BY <1>6, <2>1 DEF SameKey
<1>8. ASSUME NEW x \in db["tenants"], x.id = tx[q].tenant
      PROVE  x \in db'["tenants"]
  BY <1>7, <1>8, PublishedRows DEF SameKey, Tables
<1>9. ASSUME NEW x \in db'["tenants"], x.id = tx[q].tenant
      PROVE  x \in db["tenants"]
  BY <1>7, <1>9, PublishedRows DEF Tables
<1>10. QED
  BY <1>1, <1>8, <1>9

\* A commit leaves the other transactions in order: their locks keep the rows
\* they have staged, or are about to insert, out of each other's way.
LEMMA CommitKeepsOthers ==
  ASSUME StoreInv, Grows, NEW r \in Requests, tx[r].phase = "executed", db' = Published(r),
         NEW q \in Requests \ {r}, tx'[q] = tx[q], http'[q] = http[q], keysOut' = keysOut
  PROVE  TxInv(q)'
<1>1. TxInv(q) /\ Typed
  BY DEF StoreInv
<1>2. InUse(q)'
  <2>1. tx[q].op \in OpType
    BY <1>1 DEF Typed, TxType
  <2>2. QED
    BY <1>1, <2>1, AskedStays DEF TxInv, InUse
<1>3. RunsAs(q)'
  <2>1. db["keys"] \subseteq db'["keys"]
    BY CommitKeepsRows
  <2>2. QED
    BY <1>1, <2>1 DEF TxInv, RunsAs, Op, Owner
<1>4. StagedInv(q)'
  <2>1. ASSUME tx[q].phase = "executed"
        PROVE  Stages(q)' = Stages(q)
    <3>1. Op(q)' = Op(q) /\ tx'[q].op.name = tx[q].op.name
      BY DEF Op
    <3>2. CASE tx[q].op.name = "UpdateTenantMode"
      <4>1. Visible(q, "tenants")' = Visible(q, "tenants")
        <5>1. Visible(q, "tenants")' = {x \in db'["tenants"] : x.id = tx[q].tenant}
          BY DEF Visible
        <5>2. QED
          BY <2>1, <3>2, <5>1, CommitSparesUpdate
      <4>2. QED
        BY <3>1, <4>1, Zenon DEF Stages
    <3>3. CASE tx[q].op.name \in Inserts \cup {"CreateTenant", "PutCall"}
      BY <3>1, <3>3 DEF Stages, Inserts
    <3>4. QED
      BY <1>1, <2>1, <3>2, <3>3 DEF TxInv, StagedInv
  <2>2. QED
    BY <1>1, <2>1 DEF TxInv, StagedInv
<1>5. AnswerInv(q)'
  BY <1>1 DEF TxInv, AnswerInv, Owner
<1>6. HoldsInv(q)'
  <2>1. \A k \in {"keys", "dids", "appointments", "messages"} : db[k] \subseteq db'[k]
    BY CommitKeepsRows
  <2>2. ASSUME tx[q].phase = "executed", tx[q].op.name \in Inserts
        PROVE  ~Taken(Stored[tx[q].op.name], db'[Stored[tx[q].op.name]], Op(q))
    <3> DEFINE k == Stored[tx[q].op.name]
    <3>1. k \in {"dids", "appointments", "messages"} /\ k \in Tables
      BY <2>2, StoredTables DEF Tables
    <3>2. [table |-> k, row |-> Op(q)] \in tx[q].staged
      <4>1. tx[q].staged = Stages(q)
        BY <1>1, <2>2 DEF TxInv, StagedInv
      <4>2. Stages(q) = {[table |-> k, row |-> Op(q)]}
        BY <2>2 DEF Stages, Inserts
      <4>3. QED
        BY <4>1, <4>2
    <3> HIDE DEF k
    <3>3. \A v \in tx[r].staged : v.table = k => ~SameKey(k, v.row, Op(q))
      BY <3>2 DEF StoreInv, LockInv
    <3>4. ~Taken(k, db[k], Op(q))
      BY <1>1, <2>2 DEF TxInv, HoldsInv, k
    <3>5. ~Taken(k, db'[k], Op(q))
      BY <3>1, <3>3, <3>4, PublishedRows DEF Taken
    <3>6. QED
      BY <3>5 DEF k
  <2>3. ASSUME tx[q].phase \in {"open", "executed"}, tx[q].op.name = "CreateTenant",
               NEW k \in {"tenants", "keys"}
        PROVE  ~Taken(k, db'[k], Op(q))
    <3>1. ~Taken(k, db[k], Op(q)) /\ ~Taken("tenants", db["tenants"], Op(q))
      BY <1>1, <2>3 DEF TxInv, HoldsInv
    <3>2. ASSUME NEW v \in tx[r].staged, v.table = k, SameKey(k, v.row, Op(q))
          PROVE  FALSE
      <4>1. StagedRow(r, v)
        BY StagedRows
      <4>2. v.row.id = Op(q).id
        BY <3>2 DEF SameKey
      <4>3. CASE tx[r].op.name = "CreateTenant" /\ v.row = Op(r)
        BY <2>3, <4>2, <4>3 DEF StoreInv, LockInv
      <4>4. CASE tx[r].op.name = "UpdateTenantMode" /\ \E x \in Visible(r, "tenants") : v.row = Updated(x, Op(r))
        <5>1. PICK x \in Visible(r, "tenants") : v.row = Updated(x, Op(r))
          BY <4>4
        <5>2. x \in db["tenants"]
          BY DEF Visible
        <5>3. x \in RowType /\ Op(r) \in RowType
          BY <1>1, <5>2 DEF Typed, Tables, TxType, OpType, Op
        <5>4. x.id = Op(q).id
          BY <4>2, <5>1, <5>3, UpdatedFields
        <5>5. QED
          BY <3>1, <5>2, <5>4 DEF Taken, SameKey
      <4>5. QED
        BY <3>2, <4>1, <4>3, <4>4 DEF StagedRow
    <3>3. QED
      BY <3>1, <3>2, PublishedRows DEF Taken, Tables
  <2>4. ASSUME tx[q].phase = "closed", tx[q].answer.code = "ok", tx[q].op.name \in Inserts
        PROVE  Op(q) \in db'[Stored[tx[q].op.name]]
    <3>1. Op(q) \in db[Stored[tx[q].op.name]]
      BY <1>1, <2>4 DEF TxInv, HoldsInv
    <3>2. QED
      BY <2>1, <2>4, <3>1, StoredTables
  <2>5. ASSUME tx[q].phase = "closed", tx[q].answer.code = "ok", tx[q].op.name = "CreateTenant"
        PROVE  Op(q) \in db'["keys"]
    BY <1>1, <2>1, <2>5 DEF TxInv, HoldsInv
  <2>6. QED
    BY <2>2, <2>3, <2>4, <2>5 DEF HoldsInv, Op
<1>7. QED
  BY <1>2, <1>3, <1>4, <1>5, <1>6 DEF TxInv

\* A commit, whether its acknowledgement arrives or not.
LEMMA CommitKeeps ==
  ASSUME StoreInv, NEW r \in Requests, tx[r].phase = "executed", db' = Published(r), StoreFrame,
         NEW a \in {tx[r].answer, Failed}, Ends(r, a)
  PROVE  StoreInv'
<1>1. PICK u : Becomes(r, u) /\ u.phase = "closed" /\ u.answer = a /\ u.staged = {}
  BY DEF Ends
<1>2. Typed /\ Grows /\ TxInv(r)
  BY FrameGrows DEF StoreInv
<1>3. /\ tx'[r].phase = "closed" /\ tx'[r].answer = a /\ tx'[r].staged = {} /\ tx'[r].op = tx[r].op
      /\ http' = http /\ keysOut' = keysOut /\ acked' = acked /\ tx' \in [Requests -> TxType]
      /\ \A q \in Requests \ {r} : tx'[q] = tx[q]
  BY <1>1, <1>2 DEF Becomes, StoreFrame, Typed
<1>4. Typed'
  BY <1>2, <1>3, PublishedRows DEF Typed, StoreFrame
<1>5. DBInv'
  BY <1>2, CommitKeepsDB
<1>6. KeysInv' /\ AckedInv'
  BY <1>3, CommitKeepsRows DEF StoreInv, KeysInv, AckedInv
<1>7. LockInv'
  BY <1>3, LocksKeep DEF StoreInv
<1>8. ASSUME NEW q \in Requests \ {r}
      PROVE  TxInv(q)'
  BY <1>2, <1>3, CommitKeepsOthers
<1>9. TxInv(r)'
  <2>1. InUse(r)'
    <3>1. http[r].phase # "idle" /\ Asked(http[r], tx[r].op)
      BY <1>2, InUseAsked DEF TxInv
    <3>2. tx[r].op \in OpType
      BY <1>2 DEF Typed, TxType
    <3>3. Asked(http[r], tx[r].op)'
      BY <1>2, <1>3, <3>1, <3>2, AskedStays
    <3>4. QED
      BY <1>3, <3>1, <3>3 DEF InUse
  <2>2. RunsAs(r)' /\ StagedInv(r)'
    BY <1>3 DEF RunsAs, StagedInv
  <2>3. a.rows = {} /\ tx[r].op.name \in Writers /\ tx[r].staged = Stages(r)
    BY <1>2 DEF TxInv, StagedInv, Failed, Writers
  <2>4. AnswerInv(r)'
    <3>1. tx[r].op.name # "TenantByAPIKeyHash"
      BY <2>3 DEF Writers, Inserts
    <3>2. QED
      BY <1>3, <2>3, <3>1 DEF AnswerInv
  <2>5. ASSUME tx[r].op.name \in Inserts
        PROVE  Op(r) \in db'[Stored[tx[r].op.name]]
    <3>1. Stages(r) = {[table |-> Stored[tx[r].op.name], row |-> Op(r)]}
      BY <2>5 DEF Stages, Inserts
    <3>2. [table |-> Stored[tx[r].op.name], row |-> Op(r)] \in tx[r].staged
      BY <2>3, <3>1
    <3>3. QED
      BY <3>2, PublishedRows
  <2>6. ASSUME tx[r].op.name = "CreateTenant"
        PROVE  Op(r) \in db'["keys"]
    <3>1. Stages(r) = {[table |-> t, row |-> Op(r)] : t \in {"tenants", "keys"}}
      BY <2>6 DEF Stages, Inserts
    <3>2. [table |-> "keys", row |-> Op(r)] \in tx[r].staged
      BY <2>3, <3>1
    <3>3. QED
      BY <3>2, PublishedRows
  <2>7. HoldsInv(r)'
    BY <1>3, <2>5, <2>6 DEF HoldsInv, Op
  <2>8. QED
    BY <2>1, <2>2, <2>4, <2>7 DEF TxInv
<1>10. QED
  BY <1>4, <1>5, <1>6, <1>7, <1>8, <1>9 DEF StoreInv

-----------------------------------------------------------------------------
(* The steps of the handlers.                                              *)

\* A handler makes the call op, as request h.
Asks(r, h, op) ==
  /\ h \in HttpType /\ h.phase # "idle" /\ op \in OpType
  /\ http' = [http EXCEPT ![r] = h] /\ tx' = [tx EXCEPT ![r] = Opened(op)]
  /\ UNCHANGED <<db, keysOut, acked>>
  /\ Grows /\ Asked(h, op)'
  /\ op.name = "CreateTenant" => op.row.id = NewId

\* The fields of a transaction just opened (inTxAs).
LEMMA OpenedFields ==
  ASSUME NEW op \in OpType
  PROVE  /\ Opened(op) \in TxType /\ Opened(op).phase = "open" /\ Opened(op).op = op
         /\ Opened(op).tenant = op.row.tenant /\ Opened(op).answer = Nothing /\ Opened(op).staged = {}
BY DEF Opened, TxType, OpType, RowType, TxPhases, Answers, Codes, Nothing

\* A new call finds the ids of the tenants there are, and of those being
\* onboarded, different from its own.
LEMMA AsksKeeps ==
  ASSUME StoreInv, NEW r \in Requests, NEW h, NEW op, Asks(r, h, op)
  PROVE  StoreInv'
<1>1. Typed /\ Grows /\ db' = db /\ keysOut' = keysOut /\ acked' = acked /\ op \in OpType
  BY DEF StoreInv, Asks
<1>2. Opened(op) \in TxType
  BY <1>1, OpenedFields
<1>3. /\ tx' \in [Requests -> TxType] /\ http' \in [Requests -> HttpType]
      /\ tx'[r] = Opened(op) /\ http'[r] = h
      /\ \A q \in Requests \ {r} : tx'[q] = tx[q] /\ http'[q] = http[q]
  BY <1>1, <1>2 DEF Typed, Asks
<1>4. /\ tx'[r].phase = "open" /\ tx'[r].op = op /\ tx'[r].tenant = op.row.tenant
      /\ tx'[r].answer = Nothing /\ tx'[r].staged = {}
  BY <1>1, <1>3, OpenedFields
<1>5. Typed'
  BY <1>1, <1>3 DEF Typed, Grows
<1>6. DBInv'
  BY <1>1, RowsKeep DEF StoreInv
<1>7. KeysInv' /\ AckedInv'
  BY <1>1 DEF StoreInv, KeysInv, AckedInv
<1>8. ASSUME NEW q \in Requests \ {r}
      PROVE  TxInv(q)'
  BY <1>1, <1>3, OthersKeep DEF StoreInv
<1>9. ASSUME op.name = "CreateTenant"
      PROVE  op.row.id = NewId /\ NewId \in Nat
  BY <1>1, <1>9 DEF Asks, Typed, NewId
<1>10. TxInv(r)'
  <2>1. InUse(r)'
    BY <1>3, <1>4 DEF Asks, InUse
  <2>2. RunsAs(r)' /\ StagedInv(r)' /\ AnswerInv(r)'
    BY <1>4 DEF RunsAs, StagedInv, AnswerInv, Op
  <2>3. ASSUME op.name = "CreateTenant", NEW k \in {"tenants", "keys"}
        PROVE  ~Taken(k, db[k], op.row)
    <3>1. ASSUME NEW x \in db[k]
          PROVE  x.id # op.row.id
      <4>1. Good(k, x)
        BY DEF StoreInv, DBInv, Tables
      <4>2. QED
        BY <1>9, <2>3, <4>1 DEF Good
    <3>2. QED
      BY <3>1 DEF Taken, SameKey
  <2>4. HoldsInv(r)'
    BY <1>1, <1>4, <2>3 DEF HoldsInv, Op
  <2>5. QED
    BY <2>1, <2>2, <2>4 DEF TxInv
<1>11. LockInv'
  <2>1. ASSUME op.name = "CreateTenant", NEW q \in Requests \ {r}, tx[q].op.name = "CreateTenant"
        PROVE  op.row.id # Op(q).id
    <3>1. Asked(http[q], tx[q].op)
      BY <2>1, InUseAsked DEF StoreInv, TxInv
    <3>2. Good("tenants", tx[q].op.row)
      BY <2>1, <3>1, AskedCalls
    <3>3. QED
      BY <1>9, <2>1, <3>2 DEF Good, Op
  <2> SUFFICES ASSUME NEW p \in Requests, NEW s \in Requests, p # s
               PROVE  /\ \A v \in tx'[p].staged, w \in tx'[s].staged :
                           v.table = w.table => ~SameKey(v.table, v.row, w.row)
                      /\ tx'[p].op.name = "CreateTenant" /\ tx'[s].op.name = "CreateTenant"
                           => tx'[p].op.row.id # tx'[s].op.row.id
    BY DEF LockInv, Op
  <2>2. /\ \A v \in tx[p].staged, w \in tx[s].staged :
             v.table = w.table => ~SameKey(v.table, v.row, w.row)
        /\ tx[p].op.name = "CreateTenant" /\ tx[s].op.name = "CreateTenant"
             => tx[p].op.row.id # tx[s].op.row.id
    BY DEF StoreInv, LockInv, Op
  <2>3. QED
    BY <1>3, <1>4, <2>1, <2>2 DEF Op
<1>12. QED
  BY <1>5, <1>6, <1>7, <1>8, <1>10, <1>11 DEF StoreInv

\* An unused transaction and an unused request are what every request starts
\* from.
LEMMA UnusedTyped ==
  Idle \in TxType /\ Unused \in HttpType /\ Unused.phase = "idle" /\ Unused.q.key = NoKey
<1>1. Nothing \in Answers
  BY DEF Nothing, Answers, Codes
<1>2. Row(0, 0, 0) \in RowType
  BY DEF Row, RowType, Ids
<1>3. NoOp \in OpType
  BY <1>2 DEF NoOp, OpType, OpNames
<1>4. Idle \in TxType
  BY <1>1, <1>3 DEF Idle, TxType, TxPhases
<1>5. Query("", NoKey, 0, "") \in QType /\ Query("", NoKey, 0, "").key = NoKey
  <2> DEFINE q == Query("", NoKey, 0, "")
  <2>1. q.route = "" /\ q.key = NoKey
    BY DEF Query
  <2>2. NoKey \in Int /\ 0 \in Ids
    BY DEF NoKey, Ids
  <2>3. q \in [route : APIRoutes \cup {""}, key : Int, id : Ids, mode : Modes \cup {"", "bad"}]
    BY <2>2 DEF Query
  <2>4. QED
    BY <2>1, <2>3 DEF QType
<1>6. Unused \in HttpType /\ Unused.phase = "idle" /\ Unused.q.key = NoKey
  BY <1>5 DEF Unused, HttpType
<1>7. QED
  BY <1>4, <1>6

\* The parts of the invariant hold for a request that is not in use.
LEMMA IdleTxInv ==
  ASSUME NEW r \in Requests, tx'[r] = Idle, http'[r] = Unused
  PROVE  TxInv(r)'
<1>1. InUse(r)'
  BY UnusedTyped DEF InUse
<1>2. /\ tx'[r].phase = "idle" /\ tx'[r].staged = {} /\ tx'[r].answer = Nothing
  BY IdleFields
<1>3. RunsAs(r)' /\ StagedInv(r)' /\ AnswerInv(r)' /\ HoldsInv(r)'
  BY <1>2 DEF RunsAs, StagedInv, AnswerInv, HoldsInv
<1>4. QED
  BY <1>1, <1>3 DEF TxInv

\* The response to r goes out: its request and its transaction are done.
Releases(r) ==
  /\ http' = [http EXCEPT ![r] = Unused] /\ tx' = [tx EXCEPT ![r] = Idle] /\ db' = db
  /\ Grows

\* A response may hand out a key, or acknowledge a row, that is stored (Sent).
LEMMA ReleasesKeeps ==
  ASSUME StoreInv, NEW r \in Requests, Releases(r), KeysInv', AckedInv', acked' \subseteq Writes
  PROVE  StoreInv'
<1>1. Typed /\ Grows /\ db' = db
  BY DEF StoreInv, Releases
<1>2. /\ tx' \in [Requests -> TxType] /\ http' \in [Requests -> HttpType]
      /\ tx'[r] = Idle /\ http'[r] = Unused
      /\ \A q \in Requests \ {r} : tx'[q] = tx[q] /\ http'[q] = http[q]
  BY <1>1, UnusedTyped DEF Typed, Releases
<1>3. Typed'
  BY <1>1, <1>2 DEF Typed, Grows
<1>4. DBInv'
  BY <1>1, RowsKeep DEF StoreInv
<1>5. \A q \in Requests \ {r} : TxInv(q)'
  BY <1>1, <1>2, OthersKeep DEF StoreInv
<1>6. TxInv(r)'
  BY <1>2, IdleTxInv
<1>7. LockInv'
  <2>1. tx'[r].staged = {} /\ tx'[r].op.name # "CreateTenant"
    BY <1>2, IdleFields
  <2>2. QED
    BY <1>2, <2>1, LocksKeep DEF StoreInv
<1>8. QED
  BY <1>3, <1>4, <1>5, <1>6, <1>7 DEF StoreInv

\* Nobody's transaction takes part.
Stays == UNCHANGED <<tx, http, db, keysOut, acked>> /\ Grows

\* A request turned away on arrival leaves the store alone (Arrive, 400 and 401).
LEMMA StaysKeeps ==
  ASSUME StoreInv, Stays
  PROVE  StoreInv'
<1>1. Typed /\ Grows /\ db' = db /\ tx' = tx /\ http' = http /\ keysOut' = keysOut /\ acked' = acked
  BY DEF StoreInv, Stays
<1>2. Typed'
  BY <1>1 DEF Typed, Grows
<1>3. DBInv'
  BY <1>1, RowsKeep DEF StoreInv
<1>4. KeysInv' /\ AckedInv' /\ LockInv'
  BY <1>1 DEF StoreInv, KeysInv, AckedInv, LockInv, Op
<1>5. \A q \in Requests : TxInv(q)'
  BY <1>1, OthersKeep DEF StoreInv
<1>6. QED
  BY <1>2, <1>3, <1>4, <1>5 DEF StoreInv

\* A restart breaks every request off; what is committed stays.
LEMMA RestartKeeps ==
  ASSUME StoreInv, Restart
  PROVE  StoreInv' /\ Grows
<1>1. /\ tx' = [r \in Requests |-> Idle] /\ http' = [r \in Requests |-> Unused]
      /\ UNCHANGED <<db, keysOut, acked, served, onboardings>>
  BY DEF Restart, history
<1>2. Typed /\ Grows
  BY <1>1 DEF StoreInv, Typed, Grows, NewId
<1>3. Typed'
  BY <1>1, <1>2, UnusedTyped DEF Typed
<1>4. DBInv'
  BY <1>1, <1>2, RowsKeep DEF StoreInv
<1>5. KeysInv' /\ AckedInv'
  BY <1>1 DEF StoreInv, KeysInv, AckedInv
<1>6. \A q \in Requests : TxInv(q)'
  BY <1>1, IdleTxInv
<1>7. LockInv'
  BY <1>1, IdleFields DEF LockInv, Op
<1>8. QED
  BY <1>2, <1>3, <1>4, <1>5, <1>6, <1>7 DEF StoreInv

\* It holds before the first request.
LEMMA StoreInvInit ==
  ASSUME Init
  PROVE  StoreInv
<1>1. /\ tx = [r \in Requests |-> Idle] /\ http = [r \in Requests |-> Unused]
      /\ db = [k \in Tables |-> {}] /\ keysOut = {} /\ acked = {} /\ served = 0 /\ onboardings = 0
  BY DEF Init, StoreInit, NoDB
<1>2. Typed
  BY <1>1, UnusedTyped DEF Typed
<1>3. DBInv /\ KeysInv /\ AckedInv
  BY <1>1 DEF DBInv, KeysInv, AckedInv, Tables
<1>4. \A r \in Requests : TxInv(r)
  BY <1>1, UnusedTyped, IdleFields DEF TxInv, InUse, RunsAs, StagedInv, AnswerInv, HoldsInv
<1>5. LockInv
  BY <1>1, IdleFields DEF LockInv, Op
<1>6. QED
  BY <1>2, <1>3, <1>4, <1>5 DEF StoreInv

-----------------------------------------------------------------------------
(* Each statement of the store is one of the steps above.                  *)

\* A read under the policy (Select, SelectOne, TenantByAPIKeyHash).
LEMMA ReadStep ==
  ASSUME StoreInv, NEW r \in Requests, NEW k \in Tables, NEW code \in Codes, NEW rows,
         rows \subseteq Visible(r, k), Executed(r, code, rows, {}), StoreFrame,
         tx[r].phase \in {"open", "found"},
         tx[r].op.name \notin Inserts \cup {"CreateTenant", "PutCall"},
         tx[r].op.name = "TenantByAPIKeyHash" => tx[r].phase = "found" /\ k = "tenants" /\ code = "ok"
  PROVE  StoreInv'
<1>1. rows \in SUBSET RowType /\ [code |-> code, rows |-> rows] \in Answers
  BY VisibleRows DEF StoreInv, Answers
<1>2. Ends(r, [code |-> code, rows |-> rows]) /\ db' = db
  BY <1>1, ExecutedReads DEF StoreInv
<1>3. \A x \in rows : x.tenant = Owner(r) /\ x.by = Owner(r) /\ (k = "tenants" => x.id = Owner(r))
  BY VisibleOwn
<1>4. ASSUME tx[r].op.name = "TenantByAPIKeyHash"
      PROVE  Owner(r) \in keysOut
  <2>1. Owner(r) \in {y.id : y \in db["keys"]}
    BY <1>4 DEF StoreInv, TxInv, RunsAs
  <2>2. Asked(http[r], tx[r].op)
    BY <1>4, InUseAsked DEF StoreInv, TxInv
  <2>3. Owner(r) \in keysOut \cup {WrongKey}
    BY <1>4, <2>2, KeyLookups DEF Owner
  <2>4. PICK y \in db["keys"] : y.id = Owner(r)
    BY <2>1
  <2>5. Good("keys", y)
    BY DEF StoreInv, DBInv, Tables
  <2>6. QED
    BY <2>3, <2>4, <2>5 DEF Good, WrongKey
<1> DEFINE a == [code |-> code, rows |-> rows]
<1>5. a.code = code /\ a.rows = rows
  OBVIOUS
<1> HIDE DEF a
<1>6. a \in Answers /\ Ends(r, a) /\ db' = db
  BY <1>1, <1>2 DEF a
<1>7. tx[r].op.name = "TenantByAPIKeyHash" =>
        a.code = "ok" /\ \A x \in a.rows : x.id = Owner(r) /\ Owner(r) \in keysOut
  BY <1>3, <1>4, <1>5
<1>8. QED
  BY <1>3, <1>5, <1>6, <1>7, EndsKeeps

\* An answer without rows: a refused insert, or a rollback.
LEMMA NoRowsStep ==
  ASSUME StoreInv, NEW r \in Requests, NEW a \in Answers, Ends(r, a), StoreFrame, db' = db,
         tx[r].phase \in {"open", "found", "executed"}, a.rows = {},
         a.code = "error" \/ (a.code = "conflict" /\ tx[r].op.name # "TenantByAPIKeyHash")
  PROVE  StoreInv'
BY EndsKeeps

\* An unknown key: nobody was handed it.
LEMMA UnknownKeyStep ==
  ASSUME StoreInv, NEW r \in Requests, Runs(r, "TenantByAPIKeyHash"), StoreFrame, db' = db,
         \A y \in db["keys"] : y.id # Op(r).id,
         Ends(r, [code |-> "not_found", rows |-> {}])
  PROVE  StoreInv'
<1> DEFINE a == [code |-> "not_found", rows |-> {}]
<1>1. a \in Answers /\ a.code = "not_found" /\ a.rows = {} /\ Ends(r, a)
  BY DEF Answers, Codes
<1> HIDE DEF a
<1>2. tx[r].phase = "open" /\ tx[r].op.name = "TenantByAPIKeyHash"
  BY DEF Runs
<1>3. Op(r).id = Owner(r)
  <2>1. Asked(http[r], tx[r].op)
    BY <1>2, InUseAsked DEF StoreInv, TxInv
  <2>2. Op(r) = Row(0, Owner(r), Owner(r))
    BY <1>2, <2>1, KeyLookups DEF Owner, Op
  <2>3. Row(0, Owner(r), Owner(r)).id = Owner(r)
    BY DEF Row
  <2>4. QED
    BY <2>2, <2>3
<1>4. Owner(r) \notin keysOut
  BY <1>3 DEF StoreInv, KeysInv
<1>5. QED
  BY <1>1, <1>2, <1>4, EndsKeeps

\* A write: the tables' keys are free, or locked by nobody else.
LEMMA WriteStep ==
  ASSUME StoreInv, NEW r \in Requests, tx[r].phase = "open", tx[r].op.name \in Writers,
         Executed(r, "ok", {}, Stages(r)), Stages(r) # {}, Stages(r) \subseteq Writes, StoreFrame,
         tx[r].op.name \in Inserts => ~Taken(Stored[tx[r].op.name], db[Stored[tx[r].op.name]], Op(r)),
         \A v \in Stages(r) : ~Locked(r, v.table, v.row)
  PROVE  StoreInv'
BY ExecutedStages, StagesKeeps DEF StoreInv

\* A key that was handed out has its tenant.
LEMMA KeyHasTenant ==
  ASSUME StoreInv, NEW key \in keysOut
  PROVE  \E x \in db["tenants"] : x.id = key
<1>1. \E y \in db["keys"] : y.id = key
  BY DEF StoreInv, KeysInv
<1>2. QED
  BY <1>1 DEF StoreInv, DBInv

\* What a write stages, as rows.
LEMMA StagesWrites ==
  ASSUME StoreInv, NEW r \in Requests, tx[r].op.name \in Writers
  PROVE  /\ Stages(r) \subseteq Writes
         /\ tx[r].op.name = "CreateTenant" =>
              Stages(r) = {[table |-> k, row |-> Op(r)] : k \in {"tenants", "keys"}}
         /\ tx[r].op.name \in Inserts => Stages(r) = {[table |-> Stored[tx[r].op.name], row |-> Op(r)]}
         /\ tx[r].op.name = "PutCall" => Stages(r) = {[table |-> "calls", row |-> Op(r)]}
         /\ tx[r].op.name = "UpdateTenantMode" =>
              Stages(r) = {[table |-> "tenants", row |-> Updated(x, Op(r))] : x \in Visible(r, "tenants")}
<1>1. Op(r) \in RowType
  BY DEF StoreInv, Typed, TxType, OpType, Op
<1>2. CASE tx[r].op.name = "CreateTenant"
  <2>1. Stages(r) = {[table |-> k, row |-> Op(r)] : k \in {"tenants", "keys"}}
    BY <1>2 DEF Stages, Inserts
  <2>2. Stages(r) \subseteq Writes
    BY <1>1, <2>1 DEF Writes, Tables
  <2>3. QED
    BY <1>2, <2>1, <2>2 DEF Inserts
<1>3. CASE tx[r].op.name \in Inserts
  <2>1. Stages(r) = {[table |-> Stored[tx[r].op.name], row |-> Op(r)]}
    BY <1>3 DEF Stages, Inserts
  <2>2. Stages(r) \subseteq Writes
    BY <1>1, <1>3, <2>1, StoredTables DEF Writes, Tables
  <2>3. QED
    BY <1>3, <2>1, <2>2 DEF Inserts
<1>4. CASE tx[r].op.name = "PutCall"
  <2>1. Stages(r) = {[table |-> "calls", row |-> Op(r)]}
    BY <1>4 DEF Stages, Inserts
  <2>2. Stages(r) \subseteq Writes
    BY <1>1, <2>1 DEF Writes, Tables
  <2>3. QED
    BY <1>4, <2>1, <2>2 DEF Inserts
<1>5. CASE tx[r].op.name = "UpdateTenantMode"
  <2>1. Stages(r) = {[table |-> "tenants", row |-> Updated(x, Op(r))] : x \in Visible(r, "tenants")}
    BY <1>5 DEF Stages, Inserts, Updated
  <2>2. \A x \in Visible(r, "tenants") : Updated(x, Op(r)) \in RowType
    BY <1>1, VisibleRows, UpdatedFields DEF StoreInv, Tables
  <2>3. Stages(r) \subseteq Writes
    BY <2>1, <2>2 DEF Writes, Tables
  <2>4. QED
    BY <1>5, <2>1, <2>3 DEF Inserts
<1>6. QED
  BY <1>2, <1>3, <1>4, <1>5 DEF Writers

\* An insert (AddDID, CreateAppointment, CreateMessage).
LEMMA InsertStep ==
  ASSUME StoreInv, NEW r \in Requests, tx[r].phase = "open", tx[r].op.name \in Inserts,
         Insert(r, Stored[tx[r].op.name]), StoreFrame
  PROVE  StoreInv'
<1> DEFINE k == Stored[tx[r].op.name]
<1>1. Stages(r) = {[table |-> k, row |-> Op(r)]} /\ Stages(r) \subseteq Writes /\ tx[r].op.name \in Writers
  BY StagesWrites DEF Writers
<1>2. CASE Executed(r, "conflict", {}, {})
  <2> DEFINE a == [code |-> "conflict", rows |-> {}]
  <2>1. a \in Answers /\ a.code = "conflict" /\ a.rows = {} /\ "conflict" \in Codes
    BY DEF Answers, Codes
  <2>2. Ends(r, a) /\ db' = db
    BY <1>2, <2>1, ExecutedReads DEF StoreInv
  <2> HIDE DEF a
  <2>3. tx[r].op.name # "TenantByAPIKeyHash"
    BY DEF Inserts
  <2>4. QED
    BY <2>1, <2>2, <2>3, NoRowsStep
<1>3. CASE ~Taken(k, db[k], Op(r)) /\ Executed(r, "ok", {}, {[table |-> k, row |-> Op(r)]}) /\ ~Locked(r, k, Op(r))
  <2>1. Executed(r, "ok", {}, Stages(r)) /\ Stages(r) # {}
    BY <1>1, <1>3
  <2>2. \A v \in Stages(r) : ~Locked(r, v.table, v.row)
    BY <1>1, <1>3
  <2>3. QED
    BY <1>1, <1>3, <2>1, <2>2, WriteStep
<1>4. QED
  BY <1>2, <1>3, Zenon DEF Insert

\* Onboarding (CreateTenant): its id is fresh, so it waits for nobody.
LEMMA CreateTenantStep ==
  ASSUME StoreInv, NEW r \in Requests, CreateTenant(r), StoreFrame
  PROVE  StoreInv'
<1>1. tx[r].phase = "open" /\ tx[r].op.name = "CreateTenant"
  BY DEF CreateTenant, Runs
<1>2. /\ Stages(r) = {[table |-> k, row |-> Op(r)] : k \in {"tenants", "keys"}}
      /\ Stages(r) \subseteq Writes /\ tx[r].op.name \in Writers
  BY <1>1, StagesWrites DEF Writers
<1>3. Executed(r, "ok", {}, Stages(r))
  BY <1>2, Zenon DEF CreateTenant
<1>4. Stages(r) # {}
  BY <1>2
<1>5. ASSUME NEW v \in Stages(r), NEW q \in Requests \ {r}, NEW w \in tx[q].staged,
             w.table = v.table, SameKey(v.table, w.row, v.row)
      PROVE  FALSE
  <2>1. v.row = Op(r) /\ v.table \in {"tenants", "keys"}
    BY <1>2
  <2>2. w.row.id = Op(r).id
    BY <1>5, <2>1 DEF SameKey
  <2>3. tx[q].phase = "executed"
    BY DEF StoreInv, TxInv, StagedInv
  <2>4. StagedRow(q, w)
    BY <2>3, StagedRows
  <2>5. CASE tx[q].op.name = "CreateTenant" /\ w.row = Op(q)
    BY <1>1, <2>2, <2>5 DEF StoreInv, LockInv
  <2>6. CASE \E x \in Visible(q, "tenants") : w.row = Updated(x, Op(q))
    <3>1. PICK x \in Visible(q, "tenants") : w.row = Updated(x, Op(q))
      BY <2>6
    <3>2. x \in db["tenants"]
      BY DEF Visible
    <3>3. x \in RowType /\ Op(q) \in RowType
      BY <3>2 DEF StoreInv, Typed, Tables, TxType, OpType, Op
    <3>4. x.id = Op(r).id
      BY <2>2, <3>1, <3>3, UpdatedFields
    <3>5. ~Taken("tenants", db["tenants"], Op(r))
      BY <1>1 DEF StoreInv, TxInv, HoldsInv
    <3>6. QED
      BY <3>2, <3>4, <3>5 DEF Taken, SameKey
  <2>7. QED
    BY <1>5, <2>1, <2>4, <2>5, <2>6 DEF StagedRow
<1>6. \A v \in Stages(r) : ~Locked(r, v.table, v.row)
  BY <1>5 DEF Locked
<1>7. tx[r].op.name \notin Inserts
  BY <1>1 DEF Inserts
<1>8. QED
  BY <1>1, <1>2, <1>3, <1>4, <1>6, <1>7, WriteStep

\* The projector's upsert (PutCall).
LEMMA PutCallStep ==
  ASSUME StoreInv, NEW r \in Requests, PutCall(r), StoreFrame
  PROVE  StoreInv'
<1>1. tx[r].phase = "open" /\ tx[r].op.name = "PutCall" /\ ~Locked(r, "calls", Op(r))
      /\ Executed(r, "ok", {}, {[table |-> "calls", row |-> Op(r)]})
  BY Zenon DEF PutCall, Runs
<1>2. /\ Stages(r) = {[table |-> "calls", row |-> Op(r)]}
      /\ Stages(r) \subseteq Writes /\ tx[r].op.name \in Writers
  BY <1>1, StagesWrites DEF Writers
<1>3. /\ Executed(r, "ok", {}, Stages(r)) /\ Stages(r) # {}
      /\ \A v \in Stages(r) : ~Locked(r, v.table, v.row)
  BY <1>1, <1>2
<1>4. tx[r].op.name \notin Inserts
  BY <1>1 DEF Inserts
<1>5. QED
  BY <1>1, <1>2, <1>3, <1>4, WriteStep

\* The mode update (UpdateTenantMode): its tenant exists.
LEMMA UpdateTenantModeStep ==
  ASSUME StoreInv, NEW r \in Requests, UpdateTenantMode(r), StoreFrame
  PROVE  StoreInv'
<1> DEFINE new == {Updated(x, Op(r)) : x \in Visible(r, "tenants")}
<1>1. /\ tx[r].phase = "open" /\ tx[r].op.name = "UpdateTenantMode"
      /\ \A x \in new : ~Locked(r, "tenants", x)
      /\ Executed(r, "ok", {}, {[table |-> "tenants", row |-> x] : x \in new})
  BY Zenon DEF UpdateTenantMode, Runs, Updated
<1>2. /\ Stages(r) = {[table |-> "tenants", row |-> Updated(x, Op(r))] : x \in Visible(r, "tenants")}
      /\ Stages(r) \subseteq Writes /\ tx[r].op.name \in Writers
  BY <1>1, StagesWrites DEF Writers
<1>3. Stages(r) = {[table |-> "tenants", row |-> x] : x \in new}
  BY <1>2
<1>4. Executed(r, "ok", {}, Stages(r))
  BY <1>1, <1>3, Zenon
<1>5. \A v \in Stages(r) : ~Locked(r, v.table, v.row)
  BY <1>1, <1>3
<1>6. Visible(r, "tenants") # {}
  <2>1. tx[r].tenant \in keysOut
    BY <1>1, UpdateIsValid DEF StoreInv, TxInv, RunsAs
  <2>2. QED
    BY <2>1, KeyHasTenant DEF Visible
<1>7. Stages(r) # {}
  BY <1>2, <1>6
<1>8. tx[r].op.name \notin Inserts
  BY <1>1 DEF Inserts
<1>9. QED
  BY <1>1, <1>2, <1>4, <1>5, <1>7, <1>8, WriteStep

\* The answers of a read are codes.
LEMMA ReadCodes == "ok" \in Codes /\ "not_found" \in Codes
BY DEF Codes

\* A list, or a read of the tenant itself (Select).
LEMMA SelectStep ==
  ASSUME StoreInv, NEW r \in Requests, NEW k \in Tables, Select(r, k), StoreFrame,
         tx[r].phase = "open", tx[r].op.name \notin Inserts \cup {"CreateTenant", "PutCall", "TenantByAPIKeyHash"}
  PROVE  StoreInv'
<1>1. Executed(r, "ok", Visible(r, k), {}) /\ Visible(r, k) \subseteq Visible(r, k) /\ "ok" \in Codes
  BY ReadCodes DEF Select
<1>2. QED
  BY <1>1, ReadStep

\* A point read (GetCall).
LEMMA GetCallStep ==
  ASSUME StoreInv, NEW r \in Requests, GetCall(r), StoreFrame
  PROVE  StoreInv'
<1> DEFINE found == {x \in Visible(r, "calls") : x.id = Op(r).id}
<1>0. Runs(r, "GetCall") /\ SelectOne(r, found)
  BY Zenon DEF GetCall
<1>1. tx[r].phase = "open" /\ tx[r].op.name = "GetCall"
      /\ (Executed(r, "ok", found, {}) \/ (found = {} /\ Executed(r, "not_found", {}, {})))
  BY <1>0 DEF Runs, SelectOne
<1>2. /\ found \subseteq Visible(r, "calls") /\ {} \subseteq Visible(r, "calls") /\ "calls" \in Tables
      /\ tx[r].op.name \notin Inserts \cup {"CreateTenant", "PutCall", "TenantByAPIKeyHash"}
  BY <1>1 DEF Tables, Inserts
<1> HIDE DEF found
<1>3. QED
  BY <1>1, <1>2, ReadStep, ReadCodes

\* Looking up the key: FindKey, then the tenant it belongs to.
LEMMA FindKeyStep ==
  ASSUME StoreInv, NEW r \in Requests, FindKey(r), StoreFrame
  PROVE  StoreInv'
<1>1. Typed
  BY DEF StoreInv
<1>2. /\ Runs(r, "TenantByAPIKeyHash") /\ db' = db
      /\ \/ /\ \A y \in db["keys"] : y.id # Op(r).id
            /\ Ends(r, [code |-> "not_found", rows |-> {}])
         \/ \E y \in db["keys"] : y.id = Op(r).id /\ Finds(r, y.tenant)
  BY <1>1, FindKeyFinds
<1>3. CASE /\ \A y \in db["keys"] : y.id # Op(r).id
           /\ Ends(r, [code |-> "not_found", rows |-> {}])
  BY <1>2, <1>3, UnknownKeyStep
<1>4. CASE \E y \in db["keys"] : y.id = Op(r).id /\ Finds(r, y.tenant)
  BY <1>2, <1>4, FindsKeeps
<1>5. QED
  BY <1>2, <1>3, <1>4

\* The second statement of a look-up: the tenant under its own policy.
LEMMA TenantByAPIKeyHashStep ==
  ASSUME StoreInv, NEW r \in Requests, TenantByAPIKeyHash(r), StoreFrame
  PROVE  StoreInv'
<1>1. tx[r].phase = "found" /\ Executed(r, "ok", Visible(r, "tenants"), {})
  BY Zenon DEF TenantByAPIKeyHash
<1>2. tx[r].op.name = "TenantByAPIKeyHash"
  BY <1>1 DEF StoreInv, TxInv, RunsAs
<1>3. "tenants" \in Tables /\ "ok" \in Codes /\ tx[r].op.name \notin Inserts \cup {"CreateTenant", "PutCall"}
  BY <1>2 DEF Tables, Inserts, Codes
<1>4. QED
  BY <1>1, <1>3, ReadStep

\* Every step of the store keeps the invariant.
LEMMA StoreStepKeeps ==
  ASSUME StoreInv, NEW r \in Requests, StoreStep(r), StoreFrame
  PROVE  StoreInv'
<1> USE DEF Runs, Tables, Inserts
<1>1. CASE CreateTenant(r)
  BY <1>1, CreateTenantStep
<1>2. CASE FindKey(r)
  BY <1>2, FindKeyStep
<1>3. CASE TenantByAPIKeyHash(r)
  BY <1>3, TenantByAPIKeyHashStep
<1>4. CASE CurrentTenant(r)
  BY <1>4, SelectStep DEF CurrentTenant
<1>5. CASE UpdateTenantMode(r)
  BY <1>5, UpdateTenantModeStep
<1>6. CASE AddDID(r)
  <2>1. tx[r].phase = "open" /\ tx[r].op.name = "AddDID" /\ Insert(r, "dids")
    BY <1>6 DEF AddDID
  <2>2. Stored[tx[r].op.name] = "dids"
    BY <2>1 DEF Stored
  <2>3. QED
    BY <2>1, <2>2, InsertStep
<1>7. CASE ListDIDs(r)
  BY <1>7, SelectStep DEF ListDIDs
<1>8. CASE PutCall(r)
  BY <1>8, PutCallStep
<1>9. CASE ListCalls(r)
  BY <1>9, SelectStep DEF ListCalls
<1>10. CASE GetCall(r)
  BY <1>10, GetCallStep
<1>11. CASE CreateAppointment(r)
  <2>1. tx[r].phase = "open" /\ tx[r].op.name = "CreateAppointment" /\ Insert(r, "appointments")
    BY <1>11 DEF CreateAppointment
  <2>2. Stored[tx[r].op.name] = "appointments"
    BY <2>1 DEF Stored
  <2>3. QED
    BY <2>1, <2>2, InsertStep
<1>12. CASE ListAppointments(r)
  BY <1>12, SelectStep DEF ListAppointments
<1>13. CASE CreateMessage(r)
  <2>1. tx[r].phase = "open" /\ tx[r].op.name = "CreateMessage" /\ Insert(r, "messages")
    BY <1>13 DEF CreateMessage
  <2>2. Stored[tx[r].op.name] = "messages"
    BY <2>1 DEF Stored
  <2>3. QED
    BY <2>1, <2>2, InsertStep
<1>14. CASE ListMessages(r)
  BY <1>14, SelectStep DEF ListMessages
<1>15. CASE Commit(r)
  BY <1>15, CommitEnds, CommitKeeps DEF StoreInv
<1>16. QED
  BY <1>1, <1>2, <1>3, <1>4, <1>5, <1>6, <1>7, <1>8, <1>9, <1>10, <1>11, <1>12, <1>13, <1>14, <1>15, Zenon
     DEF StoreStep

\* So does a failure: a commit nobody hears of, a rollback.
LEMMA StoreFaultKeeps ==
  ASSUME StoreInv, NEW r \in Requests, StoreFault(r), StoreFrame
  PROVE  StoreInv'
<1>1. Typed
  BY DEF StoreInv
<1>2. CASE CommitUnheard(r)
  BY <1>1, <1>2, CommitEnds, CommitKeeps
<1>3. CASE Rollback(r)
  <2>1. tx[r].phase \in {"open", "found", "executed"} /\ db' = db /\ Ends(r, Failed)
    BY <1>1, <1>3, RollbackEnds
  <2>2. Failed \in Answers /\ Failed.rows = {} /\ Failed.code = "error"
    BY DEF Failed, Answers, Codes
  <2>3. QED
    BY <2>1, <2>2, NoRowsStep
<1>4. QED
  BY <1>2, <1>3 DEF StoreFault

-----------------------------------------------------------------------------
(* Each step of the handlers is one of the steps above.                    *)

\* A row without an id of its own has the id 0.
LEMMA ZeroIsId == 0 \in Ids
BY DEF Ids

\* A route's bodies.
LEMMA BodiesTyped ==
  ASSUME Typed, NEW route \in APIRoutes, NEW b \in Bodies(route)
  PROVE  /\ b[1] \in Ids /\ b[2] \in Modes \cup {"", "bad"}
         /\ route = "POST /tenants" => b[2] \in {"overflow", "bad"}
         /\ route = "PUT /tenants/me/mode" => b[2] # ""
<1>1. NewId \in Int
  BY DEF Typed, NewId
<1>2. CASE route = "POST /tenants"
  <2>1. b \in {0} \X {"overflow", "bad"}
    BY <1>2 DEF Bodies
  <2>2. b[1] = 0 /\ b[2] \in {"overflow", "bad"}
    BY <2>1
  <2>3. QED
    BY <1>2, <2>2, ZeroIsId DEF Modes
<1>3. CASE route = "PUT /tenants/me/mode"
  <2>1. b \in {0} \X (Modes \cup {"bad"})
    BY <1>3 DEF Bodies
  <2>2. b[1] = 0 /\ b[2] \in Modes \cup {"bad"}
    BY <2>1
  <2>3. QED
    BY <1>3, <2>2, ZeroIsId DEF Modes
<1>4. CASE route = "POST /dids"
  BY <1>4 DEF Bodies, Modes, Ids
<1>5. CASE route = "GET /calls/{callID}"
  BY <1>5 DEF Bodies, Modes, Ids
<1>6. CASE route \in {"POST /appointments", "POST /messages"}
  BY <1>1, <1>6 DEF Bodies, Modes, Ids
<1>7. CASE route \in {"GET /tenants/me", "GET /dids", "GET /calls", "GET /appointments",
                      "GET /messages", "GET /usage"}
  <2>1. b \in {0} \X {""}
    BY <1>7 DEF Bodies
  <2>2. b[1] = 0 /\ b[2] = ""
    BY <2>1
  <2>3. QED
    BY <1>7, <2>2, ZeroIsId
<1>8. QED
  BY <1>2, <1>3, <1>4, <1>5, <1>6, <1>7 DEF APIRoutes

\* The keys a client may send.
KeysFor(route) == IF route = "POST /tenants" THEN {NoKey} ELSE keysOut \cup {NoKey, WrongKey}

Sendable ==
  UNION {{Query(route, key, b[1], b[2]) : b \in Bodies(route), key \in KeysFor(route)}
           : route \in Routes}

\* Keys are numbers; onboarding has none.
LEMMA KeysTyped ==
  ASSUME Typed, NEW route
  PROVE  /\ \A key \in KeysFor(route) : key \in Int /\ key \in keysOut \cup {NoKey, WrongKey}
         /\ route = "POST /tenants" => KeysFor(route) = {NoKey}
<1>1. NoKey \in Int /\ WrongKey \in Int /\ keysOut \subseteq Int
  BY DEF Typed, NoKey, WrongKey
<1>2. QED
  BY <1>1 DEF KeysFor

\* The queries, with the keys named.
LEMMA QueriesSendable == Queries = Sendable
BY DEF Queries, Sendable, KeysFor

\* A request is a route with a key its client may send, and a body.
LEMMA QueryShape ==
  ASSUME NEW q \in Queries
  PROVE  \E route \in Routes : \E b \in Bodies(route) : \E key \in KeysFor(route) :
           q = Query(route, key, b[1], b[2])
<1>1. Queries = Sendable
  BY QueriesSendable
<1>2. \A x \in Sendable : \E route \in Routes : \E b \in Bodies(route) : \E key \in KeysFor(route) :
        x = Query(route, key, b[1], b[2])
  BY DEF Sendable
<1>3. QED
  BY <1>1, <1>2

\* What clients ask is well-typed, and names a key they were handed, a wrong
\* one or none.
LEMMA QueriesTyped ==
  ASSUME Typed, NEW q \in Queries
  PROVE  /\ q \in QType /\ q.route \in APIRoutes
         /\ q.route = "POST /tenants" => q.key = NoKey /\ q.mode \in {"overflow", "bad"}
         /\ q.key \in keysOut \cup {NoKey, WrongKey} /\ q.key \in Int
<1>1. PICK route \in Routes : \E b \in Bodies(route) : \E key \in KeysFor(route) :
        q = Query(route, key, b[1], b[2])
  BY QueryShape
<1>2. PICK b \in Bodies(route) : \E key \in KeysFor(route) : q = Query(route, key, b[1], b[2])
  BY <1>1
<1>3. PICK key \in KeysFor(route) : q = Query(route, key, b[1], b[2])
  BY <1>2
<1>4. route \in APIRoutes
  BY CoreAPIAssumption
<1>5. /\ key \in keysOut \cup {NoKey, WrongKey} /\ key \in Int
      /\ route = "POST /tenants" => key = NoKey
  BY KeysTyped
<1>6. /\ b[1] \in Ids /\ b[2] \in Modes \cup {"", "bad"}
      /\ route = "POST /tenants" => b[2] \in {"overflow", "bad"}
      /\ route = "PUT /tenants/me/mode" => b[2] # ""
  BY <1>4, BodiesTyped
<1>7. q.route = route /\ q.key = key /\ q.id = b[1] /\ q.mode = b[2]
  BY <1>3 DEF Query
<1>8. q \in [route : APIRoutes \cup {""}, key : Int, id : Ids, mode : Modes \cup {"", "bad"}]
  BY <1>3, <1>4, <1>5, <1>6 DEF Query
<1>9. QED
  BY <1>4, <1>5, <1>6, <1>7, <1>8 DEF QType

\* A row is well-typed.
LEMMA RowIsTyped ==
  ASSUME NEW t \in Int, NEW id \in Ids, NEW by \in Int
  PROVE  /\ Row(t, id, by) \in RowType
         /\ Row(t, id, by).tenant = t /\ Row(t, id, by).id = id /\ Row(t, id, by).by = by
BY DEF Row, RowType

\* Tenants' ids and keys are ids of rows.
LEMMA IntsAreIds == Int \subseteq Ids
BY DEF Ids

\* Calls and requests are well-typed.
LEMMA OpTyped ==
  ASSUME NEW row \in RowType
  PROVE  \A n \in OpNames : [name |-> n, row |-> row] \in OpType
BY DEF OpType

\* A request of a well-typed query is well-typed, in each phase (Arrive).
LEMMA HttpTyped ==
  ASSUME NEW q \in QType
  PROVE  \A p \in {"idle", "auth", "serve", "again", "project"} : [phase |-> p, q |-> q] \in HttpType
BY DEF HttpType

\* The rows handlers write, and the calls they make, are well-typed.
LEMMA RowTyped ==
  ASSUME NEW t \in Int, NEW id \in Ids, NEW by \in Int, NEW mode \in Modes
  PROVE  /\ Row(t, id, by) \in RowType /\ Moded(Row(t, id, by), mode) \in RowType
         /\ Row(t, id, by).tenant = t /\ Row(t, id, by).id = id /\ Row(t, id, by).by = by
         /\ Moded(Row(t, id, by), mode).tenant = t /\ Moded(Row(t, id, by), mode).id = id
         /\ Moded(Row(t, id, by), mode).by = by /\ Moded(Row(t, id, by), mode).mode = mode
         /\ mode = "overflow" => Moded(Row(t, id, by), mode).secs = 15
<1>1. Row(t, id, by) \in RowType
  BY DEF Row, RowType
<1>2. QED
  BY <1>1 DEF Row, Moded, RowType

\* A handler's call is well-typed.
LEMMA HandlerTyped ==
  ASSUME NEW q \in QType, q.route \in APIRoutes \ {"POST /tenants"}, q.mode # "bad", NEW t \in Int
  PROVE  Handler(q, t) \in OpType
<1>0. q \in [route : APIRoutes \cup {""}, key : Int, id : Ids, mode : Modes \cup {"", "bad"}]
  BY DEF QType
<1>1. q.key \in Int /\ q.id \in Ids /\ 0 \in Ids
  BY <1>0, ZeroIsId
<1>2. q.route = "PUT /tenants/me/mode" => q.mode \in Modes
  BY DEF QType
<1>3. Own(q, t, 0) \in RowType /\ Own(q, t, q.id) \in RowType
  BY <1>1, RowTyped DEF Own, Modes
<1>4. q.route = "PUT /tenants/me/mode" => Moded(Own(q, t, 0), q.mode) \in RowType
  BY <1>1, <1>2, RowTyped DEF Own
<1> USE DEF OpType, OpNames
<1>5. CASE q.route = "PUT /tenants/me/mode"
  BY <1>4, <1>5 DEF Handler, handleUpdateMode
<1>6. CASE q.route \in {"GET /tenants/me", "GET /usage"}
  BY <1>3, <1>6 DEF Handler, handleGetTenant, handleGetUsage
<1>7. CASE q.route \in {"POST /dids", "GET /dids"}
  BY <1>3, <1>7 DEF Handler, handleAddDID, handleListDIDs
<1>8. CASE q.route \in {"GET /calls", "GET /calls/{callID}"}
  BY <1>3, <1>8 DEF Handler, handleListCalls, handleGetCall
<1>9. CASE q.route \in {"POST /appointments", "GET /appointments"}
  BY <1>3, <1>9 DEF Handler, handleCreateAppointment, handleListAppointments
<1>10. CASE q.route \in {"POST /messages", "GET /messages"}
  BY <1>3, <1>10 DEF Handler, handleCreateMessage, handleListMessages
<1>11. QED
  BY <1>5, <1>6, <1>7, <1>8, <1>9, <1>10 DEF APIRoutes

\* A request that comes in looks its key up, onboards a tenant under a fresh
\* id, or is turned away.
LEMMA ArriveKeeps ==
  ASSUME StoreInv, NEW r \in Requests, Arrive(r)
  PROVE  StoreInv'
<1>1. http[r].phase = "idle" /\ UNCHANGED <<db, subs, history, faults>>
  BY DEF Arrive
<1>2. PICK q \in Queries :
        LET signup == q.route = "POST /tenants"
            entered(phase, op) ==
              /\ http' = [http EXCEPT ![r] = [phase |-> phase, q |-> q]]
              /\ Calls(r, op) /\ reply' = Silent
            turnedAway(status) == Replies(q, status, {}, 0) /\ UNCHANGED <<http, tx>>
        IN  /\ \/ signup /\ onboardings < MaxTenants
                  /\ onboardings' = onboardings + 1 /\ UNCHANGED served
               \/ ~signup /\ served < MaxRequests
                  /\ served' = served + 1 /\ UNCHANGED onboardings
            /\ \/ signup /\ q.mode = "bad" /\ turnedAway(400)
               \/ signup /\ q.mode # "bad" /\ entered("serve", handleCreateTenant(q, NewId))
               \/ ~signup /\ q.key = NoKey /\ turnedAway(401)
               \/ /\ ~signup /\ q.key # NoKey
                  /\ entered("auth", [name |-> "TenantByAPIKeyHash", row |-> Row(0, q.key, q.key)])
  BY Zenon DEF Arrive
<1>3. Typed /\ db' = db /\ keysOut' = keysOut /\ acked' = acked
  BY <1>1 DEF StoreInv, history
<1>4. \/ q.route = "POST /tenants" /\ onboardings' = onboardings + 1 /\ served' = served
      \/ q.route # "POST /tenants" /\ served' = served + 1 /\ onboardings' = onboardings
  BY <1>2
<1>5. Grows /\ NewId \in Nat /\ NewId' = NewId + 1 /\ NewId > 0
  <2>1. served \in Nat /\ onboardings \in Nat /\ keysOut \subseteq Nat
    BY <1>3 DEF Typed
  <2>5. \/ onboardings' = onboardings + 1 /\ served' = served
        \/ served' = served + 1 /\ onboardings' = onboardings
    BY <1>4
  <2>2. served' \in Nat /\ onboardings' \in Nat
    BY ONLY <2>1, <2>5
  <2>3. NewId \in Nat /\ NewId' = NewId + 1 /\ NewId > 0
    <3>1. CASE onboardings' = onboardings + 1 /\ served' = served
      BY <2>1, <3>1 DEF NewId
    <3>2. CASE served' = served + 1 /\ onboardings' = onboardings
      BY <2>1, <3>2 DEF NewId
    <3>3. QED
      BY <2>5, <3>1, <3>2
  <2>4. QED
    BY <1>3, <2>1, <2>2, <2>3 DEF Grows
<1>6. /\ q \in QType /\ q.route \in APIRoutes
      /\ q.route = "POST /tenants" => q.key = NoKey /\ q.mode \in {"overflow", "bad"}
      /\ q.key \in keysOut \cup {NoKey, WrongKey} /\ q.key \in Int
  BY <1>3, QueriesTyped
<1>7. CASE UNCHANGED <<http, tx>>
  BY <1>3, <1>5, <1>7, StaysKeeps DEF Stays
<1>8. CASE /\ q.route = "POST /tenants" /\ q.mode # "bad"
           /\ http' = [http EXCEPT ![r] = [phase |-> "serve", q |-> q]]
           /\ tx' = [tx EXCEPT ![r] = Opened(handleCreateTenant(q, NewId))]
  <2>1. q.mode = "overflow" /\ q.key = NoKey /\ q.mode \in Modes
    BY <1>6, <1>8 DEF Modes
  <2>2. PICK id \in Nat : id = NewId
    BY <1>5
  <2>3. PICK row \in RowType : /\ row = Moded(Row(id, id, id), q.mode)
                               /\ row.tenant = id /\ row.id = id /\ row.by = id
                               /\ row.mode = "overflow" /\ row.secs = 15
    BY <2>1, RowTyped, IntsAreIds
  <2>4. PICK op \in OpType : op = handleCreateTenant(q, NewId) /\ op.name = "CreateTenant" /\ op.row = row
    <3>1. handleCreateTenant(q, NewId) = [name |-> "CreateTenant", row |-> row]
      BY <2>2, <2>3 DEF handleCreateTenant
    <3>2. [name |-> "CreateTenant", row |-> row] \in OpType
      BY <2>3, OpTyped DEF OpNames
    <3>3. QED
      BY <3>1, <3>2
  <2>5. PICK h \in HttpType : h = [phase |-> "serve", q |-> q] /\ h.phase = "serve" /\ h.q = q
    BY <1>6, HttpTyped
  <2>6. Good("tenants", op.row)'
    <3>1. id < NewId' /\ 0 < id
      BY <1>5, <2>2
    <3>2. QED
      BY <2>3, <2>4, <3>1 DEF Good, ValidTenant, Modes
  <2>7. Asked(h, op)'
    BY <1>8, <2>1, <2>4, <2>5, <2>6 DEF Asked
  <2>8. Asks(r, h, op)
    BY <1>3, <1>5, <1>8, <2>2, <2>3, <2>4, <2>5, <2>7 DEF Asks
  <2>9. QED
    BY <2>8, AsksKeeps
<1>9. CASE /\ q.route # "POST /tenants" /\ q.key # NoKey
           /\ http' = [http EXCEPT ![r] = [phase |-> "auth", q |-> q]]
           /\ tx' = [tx EXCEPT ![r] = Opened([name |-> "TenantByAPIKeyHash", row |-> Row(0, q.key, q.key)])]
  <2>1. Row(0, q.key, q.key) \in RowType
    <3>1. q.key \in Int /\ q.key \in Ids
      BY <1>6, IntsAreIds
    <3>2. QED
      BY <3>1 DEF Row, RowType
  <2>2. PICK op \in OpType : op = [name |-> "TenantByAPIKeyHash", row |-> Row(0, q.key, q.key)]
    BY <2>1, OpTyped DEF OpNames
  <2>3. op.name # "CreateTenant"
    BY <2>2
  <2>4. PICK h \in HttpType : h = [phase |-> "auth", q |-> q] /\ h.phase = "auth" /\ h.q = q
    BY <1>6, HttpTyped
  <2>5. q.key \in keysOut \cup {WrongKey}
    BY <1>6, <1>9
  <2>6. Asked(h, op)'
    BY <1>3, <1>6, <1>9, <2>2, <2>4, <2>5 DEF Asked
  <2>7. Asks(r, h, op)
    BY <1>3, <1>5, <1>9, <2>2, <2>3, <2>4, <2>6 DEF Asks
  <2>8. QED
    BY <2>7, AsksKeeps
<1>10. QED
  BY <1>2, <1>7, <1>8, <1>9, Zenon DEF Calls

\* A response that hands out no key and acknowledges no row (Refused, and the
\* answers of reads).
LEMMA QuietReleaseKeeps ==
  ASSUME StoreInv, NEW r \in Requests,
         http' = [http EXCEPT ![r] = Unused], tx' = [tx EXCEPT ![r] = Idle], db' = db,
         keysOut' = keysOut, acked' = acked, served' = served, onboardings' = onboardings
  PROVE  StoreInv'
<1>1. Grows
  BY DEF StoreInv, Typed, Grows, NewId
<1>2. KeysInv' /\ AckedInv' /\ acked' \subseteq Writes
  BY DEF StoreInv, KeysInv, AckedInv, Typed
<1>3. QED
  BY <1>1, <1>2, ReleasesKeeps DEF Releases

\* An error response.
LEMMA RefusedKeeps ==
  ASSUME StoreInv, NEW r \in Requests, NEW status, Refused(r, status),
         served' = served, onboardings' = onboardings
  PROVE  StoreInv'
BY QuietReleaseKeeps DEF Refused, Sent, history

\* A step that starts nothing leaves the counters.
LEMMA CountsGrow ==
  ASSUME Typed, served' = served, onboardings' = onboardings, keysOut \subseteq keysOut', keysOut' \subseteq Nat
  PROVE  Grows
<1>1. served \in Nat /\ onboardings \in Nat
  BY DEF Typed
<1>2. NewId \in Nat /\ NewId' = NewId
  BY <1>1 DEF NewId
<1>3. QED
  BY <1>1, <1>2 DEF Grows

\* The request of each phase: a look-up, a handler's first call, its second.
LEMMA PhaseCalls ==
  ASSUME NEW h, NEW op, Asked(h, op)
  PROVE  /\ h.phase = "auth" => h.q.route \in APIRoutes \ {"POST /tenants"} /\ op.name = "TenantByAPIKeyHash"
         /\ h.phase = "serve" /\ h.q.route # "POST /tenants" =>
              h.q.route \in APIRoutes /\ h.q.key \in keysOut /\ op = Handler(h.q, h.q.key)
         /\ h.phase = "serve" /\ h.q.route = "POST /tenants" =>
              h.q.key = NoKey /\ op.name = "CreateTenant" /\ Good("tenants", op.row)
<1>1. CASE /\ h.phase = "auth" /\ h.q.route \in APIRoutes \ {"POST /tenants"}
           /\ op = [name |-> "TenantByAPIKeyHash", row |-> Row(0, h.q.key, h.q.key)]
  <2>1. op.name = "TenantByAPIKeyHash"
    BY <1>1
  <2>2. QED
    BY <1>1, <2>1
<1>2. CASE /\ h.phase = "serve" /\ h.q.route = "POST /tenants" /\ h.q.key = NoKey
           /\ op.name = "CreateTenant" /\ Good("tenants", op.row)
  BY <1>2
<1>3. CASE /\ h.phase = "serve" /\ h.q.route \in APIRoutes \ {"POST /tenants"} /\ h.q.key \in keysOut
           /\ op = Handler(h.q, h.q.key)
  BY <1>3
<1>4. CASE h.phase \in {"again", "project"}
  BY <1>4
<1>5. QED
  BY <1>1, <1>2, <1>3, <1>4, Zenon DEF Asked

\* A request that goes on keeps its query.
LEMMA MovesOn ==
  ASSUME NEW h \in HttpType
  PROVE  \A p \in {"idle", "auth", "serve", "again", "project"} :
           /\ [h EXCEPT !.phase = p] \in HttpType
           /\ [h EXCEPT !.phase = p].phase = p /\ [h EXCEPT !.phase = p].q = h.q
BY DEF HttpType

\* The same, in the function of all requests.
LEMMA MovesOnInPlace ==
  ASSUME Typed, NEW r \in Requests
  PROVE  \A p : [http EXCEPT ![r].phase = p] = [http EXCEPT ![r] = [http[r] EXCEPT !.phase = p]]
BY DEF Typed, HttpType

\* The key is resolved: withTenant runs the handler as the key's tenant, which
\* is the client's.
LEMMA withTenantKeeps ==
  ASSUME StoreInv, NEW r \in Requests, withTenant(r)
  PROVE  StoreInv'
<1>1. /\ http[r].phase = "auth" /\ tx[r].phase = "closed"
      /\ served' = served /\ onboardings' = onboardings
  BY DEF withTenant, Answered, clocks
<1>2. CASE \E status : Refused(r, status)
  BY <1>1, <1>2, RefusedKeeps
<1>3. CASE /\ Code(r) = "ok" /\ http[r].q.mode # "bad"
           /\ \E tenant \in tx[r].answer.rows : Calls(r, Handler(http[r].q, tenant.id))
           /\ http' = [http EXCEPT ![r].phase = "serve"]
           /\ UNCHANGED <<db, subs, history>>
  <2>1. Asked(http[r], tx[r].op)
    BY <1>1 DEF StoreInv, TxInv, InUse
  <2>2. /\ http[r].q.route \in APIRoutes \ {"POST /tenants"}
        /\ tx[r].op.name = "TenantByAPIKeyHash"
    BY <1>1, <2>1, PhaseCalls
  <2>3. PICK tenant \in tx[r].answer.rows : Calls(r, Handler(http[r].q, tenant.id))
    BY <1>3
  <2>4. tenant.id = Owner(r) /\ Owner(r) \in keysOut /\ keysOut \subseteq Nat
    BY <1>1, <1>3, <2>2 DEF StoreInv, TxInv, AnswerInv, Code, Typed
  <2>5. http[r] \in HttpType /\ Typed
    BY DEF StoreInv, Typed
  <2>6. PICK q \in QType : q = http[r].q
    BY <2>5 DEF HttpType
  <2>7. q.key = Owner(r) /\ q.key \in Int /\ q.route \in APIRoutes \ {"POST /tenants"} /\ q.mode # "bad"
    <3>1. q.key = Owner(r)
      BY <2>6, Zenon DEF Owner
    <3>4. q.route \in APIRoutes \ {"POST /tenants"}
      BY <2>2, <2>6, Zenon
    <3>5. q.mode # "bad"
      BY <1>3, <2>6, Zenon
    <3>2. q.key \in Int
      <4>1. keysOut \subseteq Int
        BY <2>4
      <4>2. QED
        BY <2>4, <3>1, <4>1, Zenon
    <3>3. QED
      BY <3>1, <3>2, <3>4, <3>5
  <2>8. PICK op \in OpType : op = Handler(q, q.key)
    BY <2>7, HandlerTyped
  <2>9. op.name # "CreateTenant"
    BY <2>7, <2>8, HandlerCalls
  <2>10. PICK h \in HttpType : h = [http[r] EXCEPT !.phase = "serve"] /\ h.phase = "serve" /\ h.q = q
    BY <2>5, <2>6, MovesOn
  <2>11. http' = [http EXCEPT ![r] = h]
    BY <1>3, <2>5, <2>10, MovesOnInPlace
  <2>12. tx' = [tx EXCEPT ![r] = Opened(op)]
    BY <2>3, <2>4, <2>6, <2>7, <2>8 DEF Calls
  <2>13. db' = db /\ keysOut' = keysOut /\ acked' = acked
    BY <1>3 DEF history
  <2>14. Grows
    <3>1. keysOut \subseteq Nat /\ keysOut \subseteq keysOut' /\ keysOut' \subseteq Nat
      BY <2>4, <2>13
    <3>2. QED
      BY <1>1, <2>5, <3>1, CountsGrow, Zenon
  <2>15. Asked(h, op)'
    <3>1. h.q.key \in keysOut'
      <4>1. h.q.key = Owner(r)
        BY <2>7, <2>10, Zenon
      <4>2. Owner(r) \in keysOut'
        BY <2>4, <2>13
      <4>3. QED
        BY <4>1, <4>2, Zenon
    <3>2. op = Handler(h.q, h.q.key) /\ h.q.route \in APIRoutes \ {"POST /tenants"} /\ h.q.mode # "bad"
      BY <2>7, <2>8, <2>10, Zenon
    <3>3. QED
      BY <2>10, <3>1, <3>2, Zenon DEF Asked
  <2>16. Asks(r, h, op)
    BY <2>9, <2>10, <2>11, <2>12, <2>13, <2>14, <2>15 DEF Asks
  <2>17. QED
    BY <2>16, AsksKeeps
<1>4. QED
  BY <1>2, <1>3, ZenonT(60) DEF withTenant

\* The handler's first call has failed.
LEMMA HandlerFailsKeeps ==
  ASSUME StoreInv, NEW r \in Requests, HandlerFails(r)
  PROVE  StoreInv'
<1>1. (\E status : Refused(r, status)) /\ served' = served /\ onboardings' = onboardings
  BY DEF HandlerFails, writeStoreError, clocks
<1>2. QED
  BY <1>1, RefusedKeeps

\* What a client is told is stored, is.
LEMMA HandlerRepliesKeeps ==
  ASSUME StoreInv, NEW r \in Requests, HandlerReplies(r)
  PROVE  StoreInv'
<1>1. /\ http' = [http EXCEPT ![r] = Unused] /\ tx' = [tx EXCEPT ![r] = Idle] /\ db' = db
      /\ keysOut' = keysOut /\ served' = served /\ onboardings' = onboardings
      /\ acked' = acked \cup Acked(r)
      /\ tx[r].phase = "closed" /\ tx[r].answer.code = "ok"
  BY DEF HandlerReplies, Sent, clocks, Answered, Code
<1>2. ASSUME NEW a \in Acked(r)
      PROVE  /\ a \in Writes /\ a.table \in {"keys", "dids", "appointments", "messages"}
             /\ a.row \in db[a.table]
  <2>1. tx[r].op.name \in Inserts /\ a = [table |-> Stored[tx[r].op.name], row |-> Op(r)]
    BY DEF Acked, Inserts, Op
  <2>2. Op(r) \in db[Stored[tx[r].op.name]]
    BY <1>1, <2>1 DEF StoreInv, TxInv, HoldsInv
  <2>3. Stored[tx[r].op.name] \in {"dids", "appointments", "messages"}
    BY <2>1, StoredTables
  <2>4. Op(r) \in RowType
    BY DEF StoreInv, Typed, TxType, OpType, Op
  <2>5. QED
    BY <2>1, <2>2, <2>3, <2>4 DEF Writes, Tables
<1>3. Grows
  BY <1>1 DEF StoreInv, Typed, Grows, NewId
<1>4. KeysInv'
  BY <1>1 DEF StoreInv, KeysInv
<1>5. AckedInv' /\ acked' \subseteq Writes
  BY <1>1, <1>2 DEF StoreInv, AckedInv, Typed
<1>6. QED
  BY <1>1, <1>3, <1>4, <1>5, ReleasesKeeps DEF Releases

\* Onboarding hands out a key only after its hash is stored.
LEMMA CreateSubscriptionKeeps ==
  ASSUME StoreInv, NEW r \in Requests, CreateSubscription(r)
  PROVE  StoreInv'
<1>1. /\ http[r].phase = "serve" /\ tx[r].phase = "closed" /\ tx[r].answer.code = "ok"
      /\ http[r].q.route = "POST /tenants" /\ served' = served /\ onboardings' = onboardings
  BY DEF CreateSubscription, Answered, Code, Route
<1>2. CASE Refused(r, 500)
  BY <1>1, <1>2, RefusedKeeps
<1>3. CASE /\ keysOut' = keysOut \cup {Op(r).id}
           /\ acked' = acked \cup {[table |-> "keys", row |-> Op(r)]}
           /\ Sent(r, 201, {Op(r)}, 0)
  <2>1. Asked(http[r], tx[r].op)
    BY <1>1 DEF StoreInv, TxInv, InUse
  <2>2. tx[r].op.name = "CreateTenant" /\ Good("tenants", Op(r))
    BY <1>1, <2>1, PhaseCalls DEF Op
  <2>3. Op(r) \in db["keys"]
    BY <1>1, <2>2 DEF StoreInv, TxInv, HoldsInv
  <2>4. Op(r).id \in Nat /\ Op(r).id # NoKey
    BY <2>2 DEF Good, NoKey
  <2>5. http' = [http EXCEPT ![r] = Unused] /\ tx' = [tx EXCEPT ![r] = Idle] /\ db' = db
    BY <1>3 DEF Sent
  <2>6. Typed /\ Op(r) \in RowType
    BY DEF StoreInv, Typed, TxType, OpType, Op
  <2>7. keysOut \subseteq keysOut' /\ keysOut' \subseteq Nat
    <3>1. keysOut \subseteq Nat
      BY <2>6 DEF Typed
    <3>2. QED
      BY <1>3, <2>4, <3>1
  <2>8. Grows
    BY <1>1, <2>6, <2>7, CountsGrow
  <2>9. KeysInv'
    BY <1>3, <2>3, <2>4, <2>5 DEF StoreInv, KeysInv
  <2>10. [table |-> "keys", row |-> Op(r)] \in Writes
    BY <2>6 DEF Writes, Tables
  <2>11. AckedInv' /\ acked' \subseteq Writes
    BY <1>3, <2>3, <2>5, <2>6, <2>10 DEF StoreInv, AckedInv, Typed
  <2>12. QED
    BY <2>5, <2>8, <2>9, <2>11, ReleasesKeeps DEF Releases
<1>4. QED
  BY <1>2, <1>3, Zenon DEF CreateSubscription, Op

\* The second call of a handler runs as the tenant of the first.
LEMMA HandlerGoesOnKeeps ==
  ASSUME StoreInv, NEW r \in Requests, HandlerGoesOn(r)
  PROVE  StoreInv'
<1>1. /\ http[r].phase = "serve" /\ tx[r].phase = "closed" /\ http[r].q.route \in TwoCalls
      /\ Calls(r, [name |-> IF http[r].q.route = "GET /usage" THEN "ListCalls" ELSE "CurrentTenant",
                   row |-> Own(http[r].q, Op(r).tenant, 0)])
      /\ http' = [http EXCEPT ![r].phase = "again"]
      /\ UNCHANGED <<db, keysOut, acked, served, onboardings>>
  BY DEF HandlerGoesOn, Answered, Route, Op, history, clocks
<1>2. Asked(http[r], tx[r].op)
  BY <1>1 DEF StoreInv, TxInv, InUse
<1>3. Typed /\ http[r] \in HttpType
  BY DEF StoreInv, Typed
<1>4. PICK q \in QType : q = http[r].q
  BY <1>3 DEF HttpType
<1>5. q.route \in TwoCalls /\ q.route # "POST /tenants"
  BY <1>1, <1>4 DEF TwoCalls
<1>6. q.key \in keysOut /\ q.key \in Int /\ Op(r).tenant = q.key
  <2>1. q.route \in APIRoutes \ {"POST /tenants"} /\ q.key \in keysOut /\ tx[r].op = Handler(q, q.key)
    BY <1>1, <1>2, <1>4, <1>5, PhaseCalls
  <2>2. Handler(q, q.key).row.tenant = q.key
    BY <2>1, HandlerCalls
  <2>3. Op(r).tenant = q.key
    <3>1. Op(r) = Handler(q, q.key).row
      BY <2>1 DEF Op
    <3>2. QED
      BY <2>2, <3>1
  <2>4. q.key \in Int
    <3>1. keysOut \subseteq Int
      BY <1>3 DEF Typed
    <3>2. QED
      BY <2>1, <3>1, Zenon
  <2>5. QED
    BY <2>1, <2>3, <2>4
<1>7. PICK row \in RowType : row = Own(q, q.key, 0)
  BY <1>6, ZeroIsId, RowIsTyped DEF Own
<1>8. PICK n \in {"ListCalls", "CurrentTenant"} :
        n = IF q.route = "GET /usage" THEN "ListCalls" ELSE "CurrentTenant"
  OBVIOUS
<1>9. PICK op \in OpType : op = [name |-> n, row |-> row] /\ op.name = n
  BY <1>7, <1>8, OpTyped DEF OpNames
<1>10. op.name # "CreateTenant"
  BY <1>8, <1>9
<1>11. op = [name |-> IF q.route = "GET /usage" THEN "ListCalls" ELSE "CurrentTenant",
             row |-> Own(q, q.key, 0)]
  BY <1>7, <1>8, <1>9
<1>12. PICK h \in HttpType : h = [http[r] EXCEPT !.phase = "again"] /\ h.phase = "again" /\ h.q = q
  BY <1>3, <1>4, MovesOn
<1>13. http' = [http EXCEPT ![r] = h]
  BY <1>1, <1>3, <1>12, MovesOnInPlace
<1>14. tx' = [tx EXCEPT ![r] = Opened(op)]
  <2>1. Calls(r, op)
    BY <1>1, <1>4, <1>6, <1>11, Zenon
  <2>2. QED
    BY <2>1 DEF Calls
<1>15. Grows
  <2>1. keysOut \subseteq Nat
    BY <1>3 DEF Typed
  <2>2. QED
    BY <1>1, <1>3, <2>1, CountsGrow
<1>16. Asked(h, op)'
  BY <1>1, <1>5, <1>6, <1>11, <1>12 DEF Asked
<1>17. Asks(r, h, op)
  BY <1>1, <1>10, <1>12, <1>13, <1>14, <1>15, <1>16 DEF Asks
<1>18. QED
  BY <1>17, AsksKeeps

\* The second call is answered.
LEMMA HandlerEndsKeeps ==
  ASSUME StoreInv, NEW r \in Requests, HandlerEnds(r)
  PROVE  StoreInv'
<1>1. served' = served /\ onboardings' = onboardings
  BY DEF HandlerEnds, clocks
<1>2. CASE \E status : Refused(r, status)
  BY <1>1, <1>2, RefusedKeeps
<1>3. CASE /\ \E status, rows, bill : Sent(r, status, rows, bill)
           /\ UNCHANGED <<history, subs>>
  <2>1. http' = [http EXCEPT ![r] = Unused] /\ tx' = [tx EXCEPT ![r] = Idle] /\ db' = db
    BY <1>3, Zenon DEF Sent
  <2>2. keysOut' = keysOut /\ acked' = acked
    BY <1>3 DEF history
  <2>3. QED
    BY <1>1, <2>1, <2>2, QuietReleaseKeeps
<1>4. QED
  BY <1>2, <1>3, ZenonT(60) DEF HandlerEnds, writeStoreError

\* The projector's call names a tenant there is.
LEMMA ProjectKeeps ==
  ASSUME StoreInv, NEW r \in Requests, Project(r)
  PROVE  StoreInv'
<1>1. /\ served' = served + 1 /\ onboardings' = onboardings
      /\ http' = [http EXCEPT ![r] = [Unused EXCEPT !.phase = "project"]]
      /\ UNCHANGED <<db, keysOut, acked>>
  BY DEF Project, history
<1>2. Typed /\ DBInv
  BY DEF StoreInv
<1>3. PICK tenant \in db["tenants"], c \in CallIds, m \in Minutes :
        Calls(r, [name |-> "PutCall", row |-> [Row(tenant.id, c, tenant.id) EXCEPT !.minutes = m]])
  BY DEF Project
<1>4. tenant.id \in Nat /\ c \in Ids /\ m \in Nat
  <2>1. Good("tenants", tenant)
    BY <1>2 DEF DBInv, Tables
  <2>2. QED
    BY <2>1, CoreAPIAssumption DEF Good, Ids
<1>5. PICK id \in Int : id = tenant.id
  BY <1>4
<1>6. PICK row \in RowType : /\ row = [Row(id, c, id) EXCEPT !.minutes = m]
                             /\ row.tenant = id /\ row.by = id
  <2>1. PICK x \in RowType : x = Row(id, c, id) /\ x.tenant = id /\ x.by = id
    BY <1>4, RowIsTyped
  <2>2. /\ [x EXCEPT !.minutes = m] \in RowType
        /\ [x EXCEPT !.minutes = m].tenant = x.tenant /\ [x EXCEPT !.minutes = m].by = x.by
    BY <1>4, <2>1 DEF RowType
  <2>3. QED
    BY <2>1, <2>2
<1>7. PICK op \in OpType : op = [name |-> "PutCall", row |-> row] /\ op.name = "PutCall" /\ op.row = row
  BY <1>6, OpTyped DEF OpNames
<1>8. PICK h \in HttpType : h = [Unused EXCEPT !.phase = "project"] /\ h.phase = "project" /\ h.q = Unused.q
  BY UnusedTyped, MovesOn
<1>9. tx' = [tx EXCEPT ![r] = Opened(op)]
  BY <1>3, <1>5, <1>6, <1>7 DEF Calls
<1>10. Grows
  <2>1. served \in Nat /\ onboardings \in Nat /\ keysOut \subseteq Nat
    BY <1>2 DEF Typed
  <2>2. NewId' >= NewId /\ served' \in Nat
    BY <1>1, <2>1 DEF NewId
  <2>3. QED
    BY <1>1, <2>1, <2>2 DEF Grows
<1>11. Good("calls", op.row)'
  BY <1>6, <1>7 DEF Good
<1>12. h.q.key = NoKey
  BY <1>8, UnusedTyped
<1>13. Asked(h, op)'
  BY <1>7, <1>8, <1>11, <1>12 DEF Asked
<1>14. Asks(r, h, op)
  BY <1>1, <1>7, <1>8, <1>9, <1>10, <1>13 DEF Asks
<1>15. QED
  BY <1>14, AsksKeeps

\* The projector goes on to its next event.
LEMMA ProjectedKeeps ==
  ASSUME StoreInv, NEW r \in Requests, Projected(r)
  PROVE  StoreInv'
BY QuietReleaseKeeps DEF Projected, history, clocks

\* Every step preserves the invariant.
LEMMA NextKeeps ==
  ASSUME StoreInv, [Next]_vars
  PROVE  StoreInv'
<1>1. ASSUME NEW r \in Requests, StoreStep(r), UNCHANGED <<http, subs, clocks, history>>
      PROVE  StoreInv'
  BY <1>1, StoreStepKeeps DEF StoreFrame, clocks, history
<1>2. ASSUME NEW r \in Requests, StoreFault(r), UNCHANGED <<http, subs, served, onboardings, history>>
      PROVE  StoreInv'
  BY <1>2, StoreFaultKeeps DEF StoreFrame, history
<1>3. ASSUME NEW r \in Requests,
             \/ Arrive(r) \/ withTenant(r) \/ HandlerFails(r) \/ HandlerReplies(r)
             \/ CreateSubscription(r) \/ HandlerGoesOn(r) \/ HandlerEnds(r)
             \/ Project(r) \/ Projected(r)
      PROVE  StoreInv'
  BY <1>3, ArriveKeeps, withTenantKeeps, HandlerFailsKeeps, HandlerRepliesKeeps,
     CreateSubscriptionKeeps, HandlerGoesOnKeeps, HandlerEndsKeeps, ProjectKeeps, ProjectedKeeps, Zenon
<1>4. CASE UNCHANGED vars
  <2>1. UNCHANGED <<db, tx, http, served, onboardings, keysOut, acked>>
    BY <1>4 DEF vars, storeVars, apiVars, clocks, history
  <2>2. Stays
    BY <2>1 DEF Stays, Grows, StoreInv, Typed, NewId
  <2>3. QED
    BY <2>2, StaysKeeps
<1>5. QED
  BY <1>1, <1>2, <1>3, <1>4, RestartKeeps, Zenon DEF Next

\* What each open transaction was asked, has staged and will answer fits the
\* committed rows, through every interleaving, failure and restart.
THEOREM StoreInvTheorem == Spec => []StoreInv
<1>1. Init => StoreInv
  BY StoreInvInit
<1>2. StoreInv /\ [Next]_vars => StoreInv'
  BY NextKeeps
<1>3. QED
  BY <1>1, <1>2, PTL DEF Spec

-----------------------------------------------------------------------------
(* What clients see.                                                       *)

\* A key that was handed out is never refused (withTenant's 401).
KeyOpens == reply.key \in keysOut => reply.status # 401

ReplyInv == Isolation /\ KeyOpens

\* No response goes out.
LEMMA SilentFits ==
  ASSUME reply' = Silent
  PROVE  ReplyInv'
<1>1. reply'.key = NoKey /\ reply'.status = 0
  BY DEF Silent
<1>2. QED
  BY <1>1 DEF ReplyInv, Isolation, KeyOpens

\* A response without rows is isolated; it refuses no key that was handed out.
LEMMA EmptyFits ==
  ASSUME NEW q, NEW status, Replies(q, status, {}, 0), q.key \in keysOut' => status # 401
  PROVE  ReplyInv'
<1>1. reply'.key = q.key /\ reply'.status = status /\ reply'.rows = {}
  BY DEF Replies
<1>2. QED
  BY <1>1 DEF ReplyInv, Isolation, KeyOpens

\* An error response of a handler.
LEMMA RefusedFits ==
  ASSUME NEW r \in Requests, NEW status, Refused(r, status), http[r].q.key \in keysOut => status # 401
  PROVE  ReplyInv'
<1>1. Replies(http[r].q, status, {}, 0) /\ keysOut' = keysOut
  BY DEF Refused, Sent, history
<1>2. http[r].q.key \in keysOut' => status # 401
  BY <1>1
<1>3. QED
  BY <1>1, <1>2, EmptyFits, Zenon

\* An answer of the store goes out as it came.
LEMMA AnswerFits ==
  ASSUME StoreInv, NEW r \in Requests, tx[r].phase = "closed",
         NEW status \in {200, 201}, NEW bill, Sent(r, status, tx[r].answer.rows, bill)
  PROVE  ReplyInv'
<1>1. reply'.key = http[r].q.key /\ reply'.status = status /\ reply'.rows = tx[r].answer.rows
  BY DEF Sent, Replies
<1>2. \A x \in tx[r].answer.rows : x.tenant = http[r].q.key /\ x.by = http[r].q.key
  BY DEF StoreInv, TxInv, AnswerInv, Owner
<1>3. QED
  BY <1>1, <1>2 DEF ReplyInv, Isolation, KeyOpens

\* An error of the store is no 401 (writeStoreError).
LEMMA StoreErrorFits ==
  ASSUME NEW r \in Requests, NEW code, writeStoreError(r, code)
  PROVE  ReplyInv'
<1>1. PICK status \in {404, 409, 500} : Refused(r, status)
  BY DEF writeStoreError
<1>2. QED
  BY <1>1, RefusedFits

\* Before its key is known, a request is answered only to say that it is
\* malformed or has no key.
LEMMA ArriveReplies ==
  ASSUME NEW r \in Requests, Arrive(r)
  PROVE  \/ reply' = Silent
         \/ reply'.rows = {} /\ (reply'.status = 401 => reply'.key = NoKey)
<1>1. PICK q \in Queries :
          LET signup == q.route = "POST /tenants"
              entered(phase, op) ==
                /\ http' = [http EXCEPT ![r] = [phase |-> phase, q |-> q]]
                /\ Calls(r, op) /\ reply' = Silent
              turnedAway(status) == Replies(q, status, {}, 0) /\ UNCHANGED <<http, tx>>
          IN  /\ \/ signup /\ onboardings < MaxTenants
                    /\ onboardings' = onboardings + 1 /\ UNCHANGED served
                 \/ ~signup /\ served < MaxRequests
                    /\ served' = served + 1 /\ UNCHANGED onboardings
              /\ \/ signup /\ q.mode = "bad" /\ turnedAway(400)
                 \/ signup /\ q.mode # "bad" /\ entered("serve", handleCreateTenant(q, NewId))
                 \/ ~signup /\ q.key = NoKey /\ turnedAway(401)
                 \/ /\ ~signup /\ q.key # NoKey
                    /\ entered("auth", [name |-> "TenantByAPIKeyHash", row |-> Row(0, q.key, q.key)])
  BY Zenon DEF Arrive
<1>2. CASE Replies(q, 400, {}, 0)
  BY <1>2 DEF Replies
<1>3. CASE q.key = NoKey /\ Replies(q, 401, {}, 0)
  BY <1>3 DEF Replies
<1>4. QED
  BY <1>1, <1>2, <1>3, Zenon

\* The 401s, and the responses with rows, go to whom they may.
LEMMA ReplyKeeps ==
  ASSUME StoreInv, ReplyInv, [Next]_vars
  PROVE  ReplyInv'
<1>1. NoKey \notin keysOut
  BY DEF StoreInv, KeysInv
<1>2. ASSUME NEW r \in Requests, Arrive(r)
      PROVE  ReplyInv'
  <2>1. keysOut' = keysOut
    BY <1>2 DEF Arrive, history
  <2>2. \/ reply' = Silent
        \/ reply'.rows = {} /\ (reply'.status = 401 => reply'.key = NoKey)
    BY <1>2, ArriveReplies
  <2>3. QED
    BY <1>1, <2>1, <2>2, SilentFits DEF ReplyInv, Isolation, KeyOpens
<1>3. ASSUME NEW r \in Requests, withTenant(r)
      PROVE  ReplyInv'
  <2>1. http[r].phase = "auth" /\ tx[r].phase = "closed"
    BY <1>3 DEF withTenant, Answered
  <2>2. CASE Code(r) = "not_found" /\ Refused(r, 401)
    <3>1. Asked(http[r], tx[r].op)
      BY <2>1 DEF StoreInv, TxInv, InUse
    <3>2. tx[r].op.name = "TenantByAPIKeyHash"
      BY <2>1, <3>1, PhaseCalls
    <3>3. http[r].q.key \notin keysOut
      BY <2>1, <2>2, <3>2 DEF StoreInv, TxInv, AnswerInv, Owner, Code
    <3>4. QED
      BY <2>2, <3>3, RefusedFits
  <2>3. CASE Refused(r, 500) \/ Refused(r, 400) \/ reply' = Silent
    BY <2>3, RefusedFits, SilentFits
  <2>4. QED
    BY <1>3, <2>2, <2>3, ZenonT(60) DEF withTenant
<1>4. ASSUME NEW r \in Requests, HandlerFails(r)
      PROVE  ReplyInv'
  BY <1>4, StoreErrorFits DEF HandlerFails
<1>5. ASSUME NEW r \in Requests, HandlerReplies(r)
      PROVE  ReplyInv'
  <2>1. PICK status \in {200, 201} : Sent(r, status, tx[r].answer.rows, 0)
    BY <1>5 DEF HandlerReplies
  <2>2. tx[r].phase = "closed"
    BY <1>5 DEF HandlerReplies, Answered
  <2>3. QED
    BY <2>1, <2>2, AnswerFits
<1>6. ASSUME NEW r \in Requests, CreateSubscription(r)
      PROVE  ReplyInv'
  <2>1. http[r].phase = "serve" /\ http[r].q.route = "POST /tenants"
    BY <1>6 DEF CreateSubscription, Answered, Route
  <2>2. Asked(http[r], tx[r].op)
    BY <2>1 DEF StoreInv, TxInv, InUse
  <2>3. http[r].q.key = NoKey
    BY <2>1, <2>2, PhaseCalls
  <2>4. CASE Refused(r, 500)
    BY <2>4, RefusedFits
  <2>5. CASE Sent(r, 201, {tx[r].op.row}, 0)
    <3>1. reply'.key = NoKey /\ reply'.status = 201
      BY <2>3, <2>5 DEF Sent, Replies
    <3>2. QED
      BY <3>1 DEF ReplyInv, Isolation, KeyOpens
  <2>6. QED
    BY <1>6, <2>4, <2>5, Zenon DEF CreateSubscription
<1>7. ASSUME NEW r \in Requests, HandlerEnds(r)
      PROVE  ReplyInv'
  <2>1. tx[r].phase = "closed"
    BY <1>7 DEF HandlerEnds, Answered
  <2>2. CASE writeStoreError(r, Code(r))
    BY <2>2, StoreErrorFits
  <2>3. CASE \E bill : Sent(r, 200, tx[r].answer.rows, bill)
    BY <2>1, <2>3, AnswerFits
  <2>4. QED
    BY <1>7, <2>2, <2>3, Zenon DEF HandlerEnds
<1>8. CASE reply' = Silent
  BY <1>8, SilentFits
<1>9. CASE UNCHANGED vars
  BY <1>9 DEF vars, apiVars, history, ReplyInv, Isolation, KeyOpens
<1>10. QED
  BY <1>2, <1>3, <1>4, <1>5, <1>6, <1>7, <1>8, <1>9, Zenon
     DEF Next, HandlerGoesOn, Project, Projected, Restart

\* What clients see, together with the invariant it follows from, holds in
\* every reachable state.
LEMMA ReplyInvAlways == Spec => [](StoreInv /\ ReplyInv)
<1>1. Init => StoreInv /\ ReplyInv
  <2>1. Init => Silent = reply /\ Silent.key = NoKey /\ Silent.status = 0
    BY DEF Init, Silent
  <2>2. QED
    BY <2>1, StoreInvInit DEF ReplyInv, Isolation, KeyOpens
<1>2. StoreInv /\ ReplyInv /\ [Next]_vars => (StoreInv /\ ReplyInv)'
  BY NextKeeps, ReplyKeeps
<1>3. QED
  BY <1>1, <1>2, PTL DEF Spec

\* A response only ever holds rows of the client's own tenant, whatever runs
\* beside it on the same pool: each transaction runs under the tenant of the
\* key its request came with (pgstore.go:22, auth.go:39).
THEOREM IsolationTheorem == Spec => []Isolation
<1>1. StoreInv /\ ReplyInv => Isolation
  BY DEF ReplyInv
<1>2. QED
  BY <1>1, ReplyInvAlways, PTL

\* What a client was told is stored stays stored, and its key opens its
\* tenant, through failing transactions and restarts (handlers.go:91-109).
THEOREM AckedStaysTheorem == Spec => []AckedStays
<1>1. ASSUME StoreInv, ReplyInv
      PROVE  AckedStays
  <2>1. \A a \in acked : a.row \in db[a.table]
    BY <1>1 DEF StoreInv, AckedInv
  <2>2. ASSUME NEW key \in keysOut
        PROVE  \E t \in db["tenants"] : t.id = key /\ ValidTenant(t)
    <3>1. PICK y \in db["keys"] : y.id = key
      BY <1>1 DEF StoreInv, KeysInv
    <3>2. PICK t \in db["tenants"] : t.id = y.id
      BY <1>1 DEF StoreInv, DBInv
    <3>3. Good("tenants", t)
      BY <1>1 DEF StoreInv, DBInv, Tables
    <3>4. QED
      BY <3>1, <3>2, <3>3 DEF Good
  <2>3. QED
    BY <1>1, <2>1, <2>2 DEF AckedStays, ReplyInv, KeyOpens
<1>2. StoreInv /\ ReplyInv => AckedStays
  BY <1>1
<1>3. QED
  BY <1>2, ReplyInvAlways, PTL

-----------------------------------------------------------------------------
(* The store implements memstore.go's promise.                             *)

\* What the callers of the store see of its transactions.
Seen == [r \in Requests |-> Promised(r)]

\* A call under way, answered, or none.
LEMMA SeenAs ==
  ASSUME Typed, NEW r \in Requests
  PROVE  /\ Seen[r] = Promised(r) /\ Seen[r].op = tx[r].op
         /\ tx[r].phase \in {"open", "found", "executed"} =>
              Seen[r] = [phase |-> "invoked", op |-> tx[r].op, answer |-> Nothing]
         /\ tx[r].phase = "closed" => Seen[r] = [phase |-> "done", op |-> tx[r].op, answer |-> tx[r].answer]
         /\ tx[r].phase = "idle" => Seen[r] = [phase |-> "idle", op |-> tx[r].op, answer |-> tx[r].answer]
<1>1. Seen[r] = Promised(r)
  BY DEF Seen
<1>2. tx[r] \in TxType
  BY DEF Typed
<1>3. CASE tx[r].phase \in {"open", "found", "executed"}
  BY <1>1, <1>3 DEF Promised
<1>4. CASE tx[r].phase = "closed"
  BY <1>1, <1>4 DEF Promised
<1>5. CASE tx[r].phase = "idle"
  BY <1>1, <1>5 DEF Promised
<1>6. QED
  BY <1>1, <1>2, <1>3, <1>4, <1>5 DEF TxType, TxPhases

\* Only r's call changes.
LEMMA SeenChanges ==
  ASSUME Typed, NEW r \in Requests, NEW u, tx' = [tx EXCEPT ![r] = u]
  PROVE  Seen' = [Seen EXCEPT ![r] = Promised(r)']
<1>1. \A q \in Requests \ {r} : tx'[q] = tx[q]
  BY DEF Typed
<1>2. ASSUME NEW q \in Requests \ {r}
      PROVE  Promised(q)' = Promised(q)
  <2>1. tx'[q] = tx[q]
    BY <1>1
  <2>2. tx[q].phase \in TxPhases
    BY DEF Typed, TxType
  <2>3. CASE tx[q].phase \in {"open", "found", "executed"}
    BY <2>1, <2>3 DEF Promised
  <2>4. CASE tx[q].phase = "closed"
    BY <2>1, <2>4 DEF Promised
  <2>5. CASE tx[q].phase = "idle"
    BY <2>1, <2>5 DEF Promised
  <2>6. QED
    BY <2>2, <2>3, <2>4, <2>5 DEF TxPhases
<1>3. QED
  BY <1>2 DEF Seen

\* The record of a call that is answered.
LEMMA CallChanges ==
  ASSUME NEW op, NEW a, NEW b
  PROVE  [[phase |-> "invoked", op |-> op, answer |-> b] EXCEPT !.phase = "done", !.answer = a]
           = [phase |-> "done", op |-> op, answer |-> a]
<1> DEFINE T == [phase : {"invoked", "done"}, op : {op}, answer : {a, b}]
           x == [phase |-> "invoked", op |-> op, answer |-> b]
           y == [phase |-> "done", op |-> op, answer |-> a]
           w == [x EXCEPT !.phase = "done", !.answer = a]
<1>1. x \in T /\ y \in T /\ y.phase = "done" /\ y.op = op /\ y.answer = a /\ x.op = op
  OBVIOUS
<1>2. w \in T /\ w.phase = "done" /\ w.op = x.op /\ w.answer = a
  OBVIOUS
<1> HIDE DEF x, y, w
<1>3. w = y
  BY <1>1, <1>2
<1>4. QED
  BY <1>3 DEF x, y, w

\* A call is answered.
LEMMA SeenEnds ==
  ASSUME Typed, Typed', NEW r \in Requests, NEW a, Ends(r, a), tx[r].phase \in {"open", "found", "executed"}
  PROVE  Seen' = [Seen EXCEPT ![r].phase = "done", ![r].answer = a]
<1>1. PICK u : Becomes(r, u) /\ u.phase = "closed" /\ u.answer = a
  BY DEF Ends
<1>2. tx' = [tx EXCEPT ![r] = u] /\ u.op = tx[r].op
  BY <1>1 DEF Becomes
<1>3. Seen' = [Seen EXCEPT ![r] = Promised(r)']
  BY <1>2, SeenChanges
<1>4. tx'[r] = u
  BY <1>2 DEF Typed
<1>5. Promised(r)' = [phase |-> "done", op |-> tx[r].op, answer |-> a]
  BY <1>1, <1>2, <1>4 DEF Promised
<1>6. Seen[r] = [phase |-> "invoked", op |-> tx[r].op, answer |-> Nothing]
  BY SeenAs
<1>7. [[phase |-> "invoked", op |-> tx[r].op, answer |-> Nothing] EXCEPT !.phase = "done", !.answer = a]
        = [phase |-> "done", op |-> tx[r].op, answer |-> a]
  BY CallChanges
<1>8. Seen' = [Seen EXCEPT ![r] = [Seen[r] EXCEPT !.phase = "done", !.answer = a]]
  BY <1>3, <1>5, <1>6, <1>7
<1>9. QED
  BY <1>6, <1>8 DEF Seen

\* The promise's answer.
LEMMA AnswerImplements ==
  ASSUME Typed, Typed', NEW r \in Requests, NEW code, NEW rows, NEW a \in {[code |-> code, rows |-> rows], Failed},
         Ends(r, a), tx[r].phase \in {"open", "found", "executed"}
  PROVE  Mem!Answer(r, code, rows)
<1>1. Seen' = [Seen EXCEPT ![r].phase = "done", ![r].answer = a]
  BY SeenEnds
<1>2. Mem!Failed = Failed
  BY DEF Mem!Failed, Failed
<1>3. QED
  BY <1>1, <1>2, Zenon DEF Mem!Answer, Seen

\* A transaction that has found its key, or staged its rows, shows nothing yet.
LEMMA UnseenStep ==
  ASSUME Typed, Typed', NEW r \in Requests, NEW u, Becomes(r, u), u.phase \in {"found", "executed"},
         tx[r].phase \in {"open", "found", "executed"}, db' = db
  PROVE  UNCHANGED <<db, Seen>>
<1>1. tx' = [tx EXCEPT ![r] = u] /\ u.op = tx[r].op /\ tx'[r] = u
  BY DEF Becomes, Typed
<1>2. Seen' = [Seen EXCEPT ![r] = Promised(r)']
  BY <1>1, SeenChanges
<1>3. Promised(r)' = [phase |-> "invoked", op |-> tx[r].op, answer |-> Nothing]
  BY <1>1 DEF Promised
<1>4. Seen[r] = [phase |-> "invoked", op |-> tx[r].op, answer |-> Nothing]
  BY SeenAs
<1>5. Seen' = Seen
  BY <1>2, <1>3, <1>4 DEF Seen
<1>6. QED
  BY <1>5

\* Staging is not seen.
LEMMA StagedUnseen ==
  ASSUME Typed, Typed', NEW r \in Requests, tx[r].phase = "open",
         NEW ws \in SUBSET Writes, ws # {}, Executed(r, "ok", {}, ws)
  PROVE  UNCHANGED <<db, Seen>>
<1>1. StagesRows(r, ws) /\ db' = db
  BY ExecutedStages
<1>2. PICK u : Becomes(r, u) /\ u.phase = "executed"
  BY <1>1 DEF StagesRows
<1>3. QED
  BY <1>1, <1>2, UnseenStep

\* The operators of the domain are the same in both stores.
LEMMA SameDomain ==
  /\ \A k, x, y : Mem!SameKey(k, x, y) <=> SameKey(k, x, y)
  /\ \A k, rows, x : Mem!Taken(k, rows, x) <=> Taken(k, rows, x)
  /\ \A k, rows, new : Mem!Written(k, rows, new) = Written(k, rows, new)
  /\ \A x : Mem!ValidTenant(x) <=> ValidTenant(x)
  /\ Mem!Failed = Failed /\ Mem!Nothing = Nothing
<1>1. \A k, x, y : Mem!SameKey(k, x, y) <=> SameKey(k, x, y)
  BY DEF Mem!SameKey, SameKey
<1>2. \A k, rows, x : Mem!Taken(k, rows, x) <=> Taken(k, rows, x)
  BY <1>1 DEF Mem!Taken, Taken
<1>3. \A k, rows, new : Mem!Written(k, rows, new) = Written(k, rows, new)
  BY <1>2 DEF Mem!Written, Written
<1>4. QED
  BY <1>1, <1>2, <1>3 DEF Mem!ValidTenant, ValidTenant, Mem!Modes, Modes, Mem!Failed, Failed, Mem!Nothing, Nothing

\* A call the promise has under way is the transaction's.
LEMMA MemRuns ==
  ASSUME Typed, NEW r \in Requests, tx[r].phase \in {"open", "found", "executed"}
  PROVE  Mem!Op(r) = Op(r) /\ Mem!Runs(r, tx[r].op.name)
<1>1. Seen[r] = [phase |-> "invoked", op |-> tx[r].op, answer |-> Nothing]
  BY SeenAs
<1>2. Seen[r].op = tx[r].op /\ Seen[r].phase = "invoked"
  BY <1>1
<1>3. QED
  BY <1>2 DEF Mem!Op, Mem!Runs, Op, Seen
\* The policy shows a transaction the rows of its tenant, which is the call's.
LEMMA RowsAre ==
  ASSUME StoreInv, NEW r \in Requests, NEW k \in Tables, tx[r].phase \in {"open", "executed"}
  PROVE  Mem!Rows(r, k) = Visible(r, k)
<1>1. Mem!Op(r) = Op(r)
  BY MemRuns DEF StoreInv
<1>2. tx[r].tenant = Op(r).tenant
  BY DEF StoreInv, TxInv, RunsAs
<1>3. \A x \in db[k] : k = "tenants" => x.id = x.tenant
  BY DEF StoreInv, DBInv, Good
<1>4. QED
  BY <1>1, <1>2, <1>3 DEF Mem!Rows, Visible

\* A list is answered (Select).
LEMMA ListImplements ==
  ASSUME StoreInv, Typed', NEW r \in Requests, NEW k \in Tables, tx[r].phase = "open", Select(r, k)
  PROVE  Mem!List(r, k)
<1>1. Visible(r, k) \in SUBSET RowType /\ Typed
  BY VisibleRows DEF StoreInv
<1>2. Ends(r, [code |-> "ok", rows |-> Visible(r, k)]) /\ db' = db
  BY <1>1, ReadCodes, ExecutedReads DEF Select
<1>3. Mem!Answer(r, "ok", Visible(r, k))
  BY <1>1, <1>2, AnswerImplements
<1>4. QED
  BY <1>2, <1>3, RowsAre, Zenon DEF Mem!List

\* A point read is answered.
LEMMA GetImplements ==
  ASSUME StoreInv, Typed', NEW r \in Requests, NEW k \in Tables, NEW found \in SUBSET RowType,
         tx[r].phase \in {"open", "found"},
         \/ found # {} /\ Executed(r, "ok", found, {})
         \/ found = {} /\ Executed(r, "not_found", {}, {})
  PROVE  Mem!Get(r, k, found)
<1>1. Typed
  BY DEF StoreInv
<1>2. CASE found # {} /\ Executed(r, "ok", found, {})
  <2>1. Ends(r, [code |-> "ok", rows |-> found]) /\ db' = db
    BY <1>1, <1>2, ReadCodes, ExecutedReads
  <2>2. Mem!Answer(r, "ok", found)
    BY <1>1, <2>1, AnswerImplements
  <2>3. QED
    BY <1>2, <2>1, <2>2, Zenon DEF Mem!Get
<1>3. CASE found = {} /\ Executed(r, "not_found", {}, {})
  <2>1. Ends(r, [code |-> "not_found", rows |-> {}]) /\ db' = db
    BY <1>1, <1>3, ReadCodes, ExecutedReads
  <2>2. Mem!Answer(r, "not_found", {})
    BY <1>1, <2>1, AnswerImplements
  <2>3. QED
    BY <1>3, <2>1, <2>2, Zenon DEF Mem!Get
<1>4. QED
  BY <1>2, <1>3

\* The tenant of a client's request exists (CurrentTenant).
LEMMA CurrentTenantImplements ==
  ASSUME StoreInv, Typed', NEW r \in Requests, CurrentTenant(r)
  PROVE  Mem!CurrentTenant(r)
<1>1. tx[r].phase = "open" /\ tx[r].op.name = "CurrentTenant" /\ Executed(r, "ok", Visible(r, "tenants"), {})
  BY Zenon DEF CurrentTenant, Runs, Select
<1>2. Asked(http[r], tx[r].op)
  <2>1. tx[r].phase # "idle"
    BY <1>1
  <2>2. QED
    BY <2>1, InUseAsked DEF StoreInv, TxInv
<1>3. tx[r].op.row.tenant \in keysOut
  <2>1. tx[r].op.name \notin {"TenantByAPIKeyHash", "CreateTenant", "PutCall"}
    BY <1>1
  <2>2. QED
    BY <1>2, <2>1, AskedCalls
<1>4. tx[r].tenant \in keysOut
  BY <1>1, <1>3 DEF StoreInv, TxInv, RunsAs, Op
<1>5. Visible(r, "tenants") # {} /\ "tenants" \in Tables
  BY <1>4, KeyHasTenant DEF Visible, Tables
<1>6. Visible(r, "tenants") \in SUBSET RowType
  BY <1>5, VisibleRows DEF StoreInv
<1>7. Mem!Get(r, "tenants", Visible(r, "tenants"))
  BY <1>1, <1>5, <1>6, GetImplements
<1>8. Mem!Runs(r, "CurrentTenant")
  BY <1>1, MemRuns DEF StoreInv
<1>9. Mem!Rows(r, "tenants") = Visible(r, "tenants")
  BY <1>1, <1>5, RowsAre
<1>10. QED
  BY <1>7, <1>8, <1>9, Zenon DEF Mem!CurrentTenant

\* A call is read by its whole key (GetCall).
LEMMA GetCallImplements ==
  ASSUME StoreInv, Typed', NEW r \in Requests, GetCall(r)
  PROVE  Mem!GetCall(r)
<1> DEFINE found == {x \in Visible(r, "calls") : x.id = Op(r).id}
<1>1. Runs(r, "GetCall") /\ SelectOne(r, found)
  BY Zenon DEF GetCall
<1>2. tx[r].phase = "open" /\ tx[r].op.name = "GetCall" /\ "calls" \in Tables
  BY <1>1 DEF Runs, Tables
<1>3. found \in SUBSET RowType
  BY <1>2, VisibleRows DEF StoreInv
<1>4. Mem!Op(r) = Op(r) /\ Mem!Runs(r, "GetCall")
  BY <1>2, MemRuns DEF StoreInv
<1>5. {x \in Mem!Rows(r, "calls") : x.id = Mem!Op(r).id} = found
  BY <1>2, <1>4, RowsAre
<1> HIDE DEF found
<1>6. Mem!Get(r, "calls", found)
  BY <1>1, <1>2, <1>3, GetImplements DEF SelectOne
<1>7. QED
  BY <1>4, <1>5, <1>6, Zenon DEF Mem!GetCall

\* The tenant of a key, in two statements, is what one step finds.
LEMMA KeyedTenants ==
  ASSUME StoreInv, NEW r \in Requests, tx[r].op.name = "TenantByAPIKeyHash", tx[r].phase \in {"open", "found"}
  PROVE  {x \in db["tenants"] : \E key \in db["keys"] : key.id = Mem!Op(r).id /\ key.tenant = x.id}
           = {x \in db["tenants"] : x.id = Owner(r) /\ \E key \in db["keys"] : key.id = Owner(r)}
<1>1. Mem!Op(r) = Op(r)
  BY MemRuns DEF StoreInv
<1>2. Asked(http[r], tx[r].op)
  BY InUseAsked DEF StoreInv, TxInv
<1>3. Op(r) = Row(0, Owner(r), Owner(r)) /\ Row(0, Owner(r), Owner(r)).id = Owner(r)
  BY <1>2, KeyLookups DEF Owner, Op, Row
<1>4. \A key \in db["keys"] : key.id = key.tenant
  BY DEF StoreInv, DBInv, Tables, Good
<1>5. QED
  BY <1>1, <1>3, <1>4

\* The second statement of a key's look-up.
LEMMA TenantByAPIKeyHashImplements ==
  ASSUME StoreInv, Typed', NEW r \in Requests, TenantByAPIKeyHash(r)
  PROVE  Mem!TenantByAPIKeyHash(r)
<1>1. tx[r].phase = "found" /\ Executed(r, "ok", Visible(r, "tenants"), {})
  BY Zenon DEF TenantByAPIKeyHash
<1>2. /\ tx[r].op.name = "TenantByAPIKeyHash" /\ tx[r].tenant = Owner(r)
      /\ \E y \in db["keys"] : y.id = Owner(r)
  BY <1>1 DEF StoreInv, TxInv, RunsAs
<1>3. \E x \in db["tenants"] : x.id = Owner(r)
  BY <1>2 DEF StoreInv, DBInv
<1>4. Visible(r, "tenants") # {} /\ "tenants" \in Tables
  BY <1>2, <1>3 DEF Visible, Tables
<1>5. Visible(r, "tenants") \in SUBSET RowType
  BY <1>4, VisibleRows DEF StoreInv
<1>6. Mem!Get(r, "tenants", Visible(r, "tenants"))
  BY <1>1, <1>4, <1>5, GetImplements
<1>7. Mem!Runs(r, "TenantByAPIKeyHash")
  BY <1>1, <1>2, MemRuns DEF StoreInv
<1>8. {x \in db["tenants"] : \E key \in db["keys"] : key.id = Mem!Op(r).id /\ key.tenant = x.id}
        = Visible(r, "tenants")
  BY <1>1, <1>2, KeyedTenants DEF Visible
<1>9. QED
  BY <1>6, <1>7, <1>8, Zenon DEF Mem!TenantByAPIKeyHash

\* The first statement finds nothing, which is the answer, or its result is
\* not seen yet.
LEMMA FindKeyImplements ==
  ASSUME StoreInv, Typed', NEW r \in Requests, FindKey(r)
  PROVE  Mem!TenantByAPIKeyHash(r) \/ UNCHANGED <<db, Seen>>
<1>1. /\ Runs(r, "TenantByAPIKeyHash") /\ db' = db
      /\ \/ /\ \A y \in db["keys"] : y.id # Op(r).id
            /\ Ends(r, [code |-> "not_found", rows |-> {}])
         \/ \E y \in db["keys"] : y.id = Op(r).id /\ Finds(r, y.tenant)
  BY FindKeyFinds DEF StoreInv
<1>2. tx[r].phase = "open" /\ tx[r].op.name = "TenantByAPIKeyHash" /\ Typed
  BY <1>1 DEF Runs, StoreInv
<1>3. CASE /\ \A y \in db["keys"] : y.id # Op(r).id
           /\ Ends(r, [code |-> "not_found", rows |-> {}])
  <2> DEFINE found == {x \in db["tenants"] : \E key \in db["keys"] : key.id = Mem!Op(r).id /\ key.tenant = x.id}
  <2>1. Mem!Runs(r, "TenantByAPIKeyHash") /\ Mem!Op(r) = Op(r)
    BY <1>2, MemRuns
  <2>2. found = {}
    BY <1>3, <2>1
  <2>3. Mem!Answer(r, "not_found", {})
    BY <1>2, <1>3, AnswerImplements
  <2>4. Mem!Get(r, "tenants", found)
    BY <1>1, <2>2, <2>3, Zenon DEF Mem!Get
  <2>5. QED
    BY <2>1, <2>4, Zenon DEF Mem!TenantByAPIKeyHash
<1>4. CASE \E y \in db["keys"] : y.id = Op(r).id /\ Finds(r, y.tenant)
  <2>1. PICK u : Becomes(r, u) /\ u.phase = "found"
    BY <1>4 DEF Finds
  <2>2. QED
    BY <1>1, <1>2, <2>1, UnseenStep
<1>5. QED
  BY <1>1, <1>3, <1>4

\* An insert finds its key taken, or stages its row unseen.
LEMMA InsertImplements ==
  ASSUME StoreInv, Typed', NEW r \in Requests, tx[r].phase = "open", NEW k \in Tables, Insert(r, k)
  PROVE  Mem!Insert(r, k) \/ UNCHANGED <<db, Seen>>
<1>1. Typed
  BY DEF StoreInv
<1>2. CASE Taken(k, db[k], Op(r)) /\ Executed(r, "conflict", {}, {})
  <2>1. Ends(r, [code |-> "conflict", rows |-> {}]) /\ db' = db
    <3>1. "conflict" \in Codes
      BY DEF Codes
    <3>2. QED
      BY <1>1, <1>2, <3>1, ExecutedReads
  <2>2. Mem!Answer(r, "conflict", {})
    BY <1>1, <2>1, AnswerImplements
  <2>3. Mem!Taken(k, db[k], Mem!Op(r))
    BY <1>1, <1>2, MemRuns, SameDomain
  <2>4. QED
    BY <2>1, <2>2, <2>3, Zenon DEF Mem!Insert, Mem!Refuse
<1>3. CASE Executed(r, "ok", {}, {[table |-> k, row |-> Op(r)]})
  <2>1. Op(r) \in RowType
    BY <1>1 DEF Typed, TxType, OpType, Op
  <2>2. {[table |-> k, row |-> Op(r)]} \in SUBSET Writes
    BY <2>1 DEF Writes
  <2>3. QED
    BY <1>1, <1>3, <2>2, StagedUnseen
<1>4. QED
  BY <1>2, <1>3, Zenon DEF Insert

\* What is committed is what the call asked for, put in one step.
LEMMA PublishedIs ==
  ASSUME StoreInv, NEW r \in Requests, tx[r].phase = "executed"
  PROVE  /\ tx[r].op.name \in Inserts =>
              LET k == Stored[tx[r].op.name] IN
              Published(r) = [db EXCEPT ![k] = Written(k, @, {Op(r)})]
         /\ tx[r].op.name = "PutCall" =>
              Published(r) = [db EXCEPT !["calls"] = Written("calls", @, {Op(r)})]
         /\ tx[r].op.name = "CreateTenant" =>
              Published(r) = [db EXCEPT !["tenants"] = Written("tenants", @, {Op(r)}),
                                        !["keys"] = Written("keys", @, {Op(r)})]
         /\ tx[r].op.name = "UpdateTenantMode" =>
              Published(r) = [db EXCEPT !["tenants"] =
                                Written("tenants", @, {Updated(x, Op(r)) : x \in Visible(r, "tenants")})]
<1> DEFINE new(k) == {w.row : w \in {v \in tx[r].staged : v.table = k}}
<1>1. \A k, rows : Written(k, rows, {}) = rows
  BY DEF Written, Taken
<1>2. Published(r) = [k \in Tables |-> Written(k, db[k], new(k))]
  BY DEF Published
<1>3. db = [k \in Tables |-> db[k]]
  BY DEF StoreInv, Typed
<1>4. tx[r].staged = Stages(r) /\ tx[r].op.name \in Writers
  BY DEF StoreInv, TxInv, StagedInv, Writers
<1>5. \A k, x : x \in new(k) <=> \E v \in Stages(r) : v.table = k /\ v.row = x
  BY <1>4
<1> HIDE DEF new
<1>6. CASE tx[r].op.name \in Inserts
  <2> DEFINE k == Stored[tx[r].op.name]
  <2>1. Stages(r) = {[table |-> k, row |-> Op(r)]} /\ k \in Tables
    BY <1>4, <1>6, StagesWrites, StoredTables DEF Tables
  <2> HIDE DEF k
  <2>2. new(k) = {Op(r)} /\ \A j \in Tables \ {k} : new(j) = {}
    BY <1>5, <2>1
  <2>3. Published(r) = [db EXCEPT ![k] = Written(k, @, {Op(r)})]
    BY <1>1, <1>2, <1>3, <2>1, <2>2
  <2>4. QED
    BY <1>6, <2>3 DEF k, Inserts
<1>7. CASE tx[r].op.name = "PutCall"
  <2>1. Stages(r) = {[table |-> "calls", row |-> Op(r)]} /\ "calls" \in Tables
    BY <1>4, <1>7, StagesWrites DEF Tables
  <2>2. new("calls") = {Op(r)} /\ \A j \in Tables \ {"calls"} : new(j) = {}
    BY <1>5, <2>1
  <2>3. Published(r) = [db EXCEPT !["calls"] = Written("calls", @, {Op(r)})]
    BY <1>1, <1>2, <1>3, <2>1, <2>2
  <2>4. QED
    BY <1>7, <2>3 DEF Inserts
<1>8. CASE tx[r].op.name = "CreateTenant"
  <2>1. Stages(r) = {[table |-> k, row |-> Op(r)] : k \in {"tenants", "keys"}}
        /\ "tenants" \in Tables /\ "keys" \in Tables
    BY <1>4, <1>8, StagesWrites DEF Tables
  <2>2. new("tenants") = {Op(r)} /\ new("keys") = {Op(r)} /\ \A j \in Tables \ {"tenants", "keys"} : new(j) = {}
    <3>1. [table |-> "tenants", row |-> Op(r)] \in Stages(r) /\ [table |-> "keys", row |-> Op(r)] \in Stages(r)
      BY <2>1
    <3>2. \A v \in Stages(r) : v.table \in {"tenants", "keys"} /\ v.row = Op(r)
      BY <2>1
    <3>3. Op(r) \in new("tenants") /\ Op(r) \in new("keys")
      BY <1>5, <3>1
    <3>4. QED
      BY <1>5, <3>2, <3>3
  <2>3. Published(r) = [db EXCEPT !["tenants"] = Written("tenants", @, {Op(r)}),
                                  !["keys"] = Written("keys", @, {Op(r)})]
    BY <1>1, <1>2, <1>3, <2>1, <2>2
  <2>4. QED
    BY <1>8, <2>3 DEF Inserts
<1>9. CASE tx[r].op.name = "UpdateTenantMode"
  <2> DEFINE up == {Updated(x, Op(r)) : x \in Visible(r, "tenants")}
  <2>1. Stages(r) = {[table |-> "tenants", row |-> Updated(x, Op(r))] : x \in Visible(r, "tenants")}
        /\ "tenants" \in Tables
    BY <1>4, <1>9, StagesWrites DEF Tables
  <2>2. new("tenants") = up /\ \A j \in Tables \ {"tenants"} : new(j) = {}
    <3>1. \A v \in Stages(r) : v.table = "tenants" /\ v.row \in up
      BY <2>1
    <3>2. ASSUME NEW x \in Visible(r, "tenants")
          PROVE  Updated(x, Op(r)) \in new("tenants")
      <4>1. [table |-> "tenants", row |-> Updated(x, Op(r))] \in Stages(r)
        BY <2>1
      <4>2. QED
        BY <1>5, <4>1
    <3>3. \A y \in up : y \in new("tenants")
      BY <3>2
    <3> HIDE DEF up
    <3>4. QED
      BY <1>5, <3>1, <3>3
  <2> HIDE DEF up
  <2>3. Published(r) = [db EXCEPT !["tenants"] = Written("tenants", @, up)]
    <3>1. \A j \in Tables : Published(r)[j] = IF j = "tenants" THEN Written(j, db[j], up) ELSE db[j]
      BY <1>1, <1>2, <2>2
    <3>2. Published(r) = [j \in Tables |-> Published(r)[j]]
      BY <1>2
    <3>3. QED
      BY <1>3, <3>1, <3>2
  <2>4. QED
    BY <1>9, <2>3 DEF Inserts, up
<1>10. QED
  BY <1>4, <1>6, <1>7, <1>8, <1>9 DEF Writers

\* A step of one call is a step of the promise.
MemStep(r) ==
  \/ Mem!Invoke(r) \/ Mem!Fail(r) \/ Mem!Return(r)
  \/ Mem!CreateTenant(r) \/ Mem!TenantByAPIKeyHash(r) \/ Mem!CurrentTenant(r) \/ Mem!UpdateTenantMode(r)
  \/ Mem!AddDID(r) \/ Mem!ListDIDs(r) \/ Mem!PutCall(r) \/ Mem!ListCalls(r) \/ Mem!GetCall(r)
  \/ Mem!CreateAppointment(r) \/ Mem!ListAppointments(r) \/ Mem!CreateMessage(r) \/ Mem!ListMessages(r)

\* A committed row is put.
LEMMA PutImplements ==
  ASSUME StoreInv, NEW r \in Requests, NEW k, tx[r].phase = "executed",
         db' = [db EXCEPT ![k] = Written(k, @, {Op(r)})], Mem!Answer(r, "ok", {})
  PROVE  Mem!Put(r, k)
<1>1. Mem!Op(r) = Op(r)
  BY MemRuns DEF StoreInv
<1>2. Mem!Written(k, db[k], {Mem!Op(r)}) = Written(k, db[k], {Op(r)})
  BY <1>1, SameDomain
<1>3. db' = [db EXCEPT ![k] = Mem!Written(k, @, {Mem!Op(r)})]
  BY <1>2
<1>4. QED
  BY <1>3, Zenon DEF Mem!Put

\* A commit, heard or not, is the one step of its method.
LEMMA CommitImplements ==
  ASSUME StoreInv, Typed', NEW r \in Requests, Commit(r) \/ CommitUnheard(r)
  PROVE  MemStep(r)
<1>1. /\ tx[r].phase = "executed" /\ db' = Published(r) /\ Typed
      /\ \E a \in {tx[r].answer, Failed} : Ends(r, a)
  BY CommitEnds DEF StoreInv
<1>2. tx[r].answer = [code |-> "ok", rows |-> {}] /\ tx[r].op.name \in Writers
  BY <1>1 DEF StoreInv, TxInv, StagedInv, Writers
<1>3. Mem!Answer(r, "ok", {})
  BY <1>1, <1>2, AnswerImplements
<1>4. Mem!Op(r) = Op(r) /\ Mem!Runs(r, tx[r].op.name)
  BY <1>1, MemRuns
<1>5. CASE tx[r].op.name \in Inserts
  <2>1. PICK k \in Tables : k = Stored[tx[r].op.name]
    BY <1>5, StoredTables DEF Tables
  <2>2. db' = [db EXCEPT ![k] = Written(k, @, {Op(r)})]
    BY <1>1, <1>5, <2>1, PublishedIs
  <2>3. Mem!Put(r, k)
    BY <1>1, <1>3, <2>2, PutImplements
  <2>4. ~Mem!Taken(k, db[k], Mem!Op(r))
    <3>1. ~Taken(k, db[k], Op(r))
      BY <1>1, <1>5, <2>1 DEF StoreInv, TxInv, HoldsInv
    <3>2. QED
      BY <1>4, <3>1, SameDomain
  <2>5. Mem!Insert(r, k)
    BY <2>3, <2>4, Zenon DEF Mem!Insert
  <2>6. CASE tx[r].op.name = "AddDID"
    <3>1. k = "dids"
      BY <2>1, <2>6 DEF Stored
    <3>2. QED
      BY <1>4, <2>5, <2>6, <3>1, Zenon DEF MemStep, Mem!AddDID
  <2>7. CASE tx[r].op.name = "CreateAppointment"
    <3>1. k = "appointments"
      BY <2>1, <2>7 DEF Stored
    <3>2. QED
      BY <1>4, <2>5, <2>7, <3>1, Zenon DEF MemStep, Mem!CreateAppointment
  <2>8. CASE tx[r].op.name = "CreateMessage"
    <3>1. k = "messages"
      BY <2>1, <2>8 DEF Stored
    <3>2. QED
      BY <1>4, <2>5, <2>8, <3>1, Zenon DEF MemStep, Mem!CreateMessage
  <2>9. QED
    BY <1>5, <2>6, <2>7, <2>8 DEF Inserts
<1>6. CASE tx[r].op.name = "PutCall"
  <2>1. db' = [db EXCEPT !["calls"] = Written("calls", @, {Op(r)})]
    BY <1>1, <1>6, PublishedIs
  <2>2. Mem!Put(r, "calls")
    BY <1>1, <1>3, <2>1, PutImplements
  <2>3. QED
    BY <1>4, <1>6, <2>2, Zenon DEF MemStep, Mem!PutCall
<1>7. CASE tx[r].op.name = "CreateTenant"
  <2>1. Mem!ValidTenant(Mem!Op(r))
    <3>1. Asked(http[r], tx[r].op)
      BY <1>1, <1>7, InUseAsked DEF StoreInv, TxInv
    <3>2. ValidTenant(Op(r))
      BY <1>7, <3>1, AskedCalls DEF Good, Op
    <3>3. QED
      BY <1>4, <3>2, SameDomain
  <2>2. ~Taken("tenants", db["tenants"], Op(r)) /\ ~Taken("keys", db["keys"], Op(r))
    BY <1>1, <1>7 DEF StoreInv, TxInv, HoldsInv
  <2>3. ~Mem!Taken("tenants", db["tenants"], Mem!Op(r))
    BY <1>4, <2>2, SameDomain
  <2>4. ASSUME NEW k, ~Taken(k, db[k], Op(r))
        PROVE  Written(k, db[k], {Op(r)}) = db[k] \cup {Op(r)}
    BY <2>4 DEF Written, Taken, SameKey
  <2>5. db' = [db EXCEPT !["tenants"] = @ \cup {Op(r)}, !["keys"] = @ \cup {Op(r)}]
    <3>1. db' = [db EXCEPT !["tenants"] = Written("tenants", @, {Op(r)}), !["keys"] = Written("keys", @, {Op(r)})]
      BY <1>1, <1>7, PublishedIs
    <3>2. /\ Written("tenants", db["tenants"], {Op(r)}) = db["tenants"] \cup {Op(r)}
          /\ Written("keys", db["keys"], {Op(r)}) = db["keys"] \cup {Op(r)}
      BY <2>2, <2>4
    <3>3. QED
      BY <3>1, <3>2 DEF StoreInv, Typed, Tables
  <2>6. QED
    BY <1>3, <1>4, <1>7, <2>1, <2>3, <2>5, Zenon DEF MemStep, Mem!CreateTenant
<1>8. CASE tx[r].op.name = "UpdateTenantMode"
  <2> DEFINE up  == {Updated(x, Op(r)) : x \in Visible(r, "tenants")}
             new == {[x EXCEPT !.mode = Mem!Op(r).mode, !.secs = Mem!Op(r).secs, !.by = Mem!Op(r).by]
                       : x \in Mem!Rows(r, "tenants")}
  <2>1. Mem!Rows(r, "tenants") = Visible(r, "tenants")
    BY <1>1, RowsAre DEF Tables
  <2>2. new = up
    BY <1>4, <2>1, Zenon DEF Updated
  <2>3. db' = [db EXCEPT !["tenants"] = Written("tenants", @, up)]
    BY <1>1, <1>8, PublishedIs
  <2>4. ASSUME NEW x \in up
        PROVE  Mem!ValidTenant(x)
    <3>1. PICK y \in Visible(r, "tenants") : x = Updated(y, Op(r))
      OBVIOUS
    <3>2. y \in RowType /\ Op(r) \in RowType
      BY <1>1, VisibleRows DEF Tables, Typed, TxType, OpType, Op
    <3>3. x.mode = Op(r).mode /\ x.secs = Op(r).secs
      BY <3>1, <3>2, UpdatedFields
    <3>4. ValidTenant(x)
      BY <1>8, <3>3, UpdateIsValid DEF ValidTenant
    <3>5. QED
      BY <3>4, SameDomain
  <2>5. up # {}
    <3>1. Stages(r) # {} /\ Stages(r) = {[table |-> "tenants", row |-> Updated(x, Op(r))] : x \in Visible(r, "tenants")}
      BY <1>1, <1>2, <1>8, StagesWrites DEF StoreInv, TxInv, StagedInv
    <3>2. QED
      BY <3>1
  <2> HIDE DEF up, new
  <2>6. Mem!Written("tenants", db["tenants"], new) = Written("tenants", db["tenants"], up)
    BY <2>2, SameDomain
  <2>7. db' = [db EXCEPT !["tenants"] = Mem!Written("tenants", @, new)]
    BY <2>3, <2>6
  <2>8. new # {} /\ \A x \in new : Mem!ValidTenant(x)
    BY <2>2, <2>4, <2>5
  <2>9. Mem!UpdateTenantMode(r)
    BY <1>3, <1>4, <1>8, <2>7, <2>8, Zenon DEF Mem!UpdateTenantMode, new
  <2>10. QED
    BY <2>9, Zenon DEF MemStep
<1>9. QED
  BY <1>2, <1>5, <1>6, <1>7, <1>8 DEF Writers

\* Whatever the store does is a step of the promise, or is not seen.
LEMMA StoreImplements ==
  ASSUME StoreInv, Typed', NEW r \in Requests, StoreStep(r) \/ StoreFault(r)
  PROVE  MemStep(r) \/ UNCHANGED <<db, Seen>>
<1> USE DEF Runs, Tables
<1>0. Typed
  BY DEF StoreInv
<1>1. CASE CreateTenant(r)
  <2>1. tx[r].phase = "open" /\ tx[r].op.name = "CreateTenant"
        /\ Executed(r, "ok", {}, {[table |-> k, row |-> Op(r)] : k \in {"tenants", "keys"}})
    BY <1>1, Zenon DEF CreateTenant
  <2>2. Stages(r) \subseteq Writes /\ Stages(r) = {[table |-> k, row |-> Op(r)] : k \in {"tenants", "keys"}}
    BY <2>1, StagesWrites DEF Writers
  <2>3. Stages(r) # {}
    BY <2>2
  <2>4. Executed(r, "ok", {}, Stages(r))
    BY <2>1, <2>2, Zenon
  <2>5. QED
    BY <1>0, <2>1, <2>2, <2>3, <2>4, StagedUnseen
<1>2. CASE FindKey(r)
  BY <1>2, FindKeyImplements, Zenon DEF MemStep
<1>3. CASE TenantByAPIKeyHash(r)
  BY <1>3, TenantByAPIKeyHashImplements, Zenon DEF MemStep
<1>4. CASE CurrentTenant(r)
  BY <1>4, CurrentTenantImplements, Zenon DEF MemStep
<1>5. CASE UpdateTenantMode(r)
  <2> DEFINE new == {Updated(x, Op(r)) : x \in Visible(r, "tenants")}
             ws == {[table |-> "tenants", row |-> x] : x \in new}
  <2>1. tx[r].phase = "open" /\ tx[r].op.name = "UpdateTenantMode" /\ Executed(r, "ok", {}, ws)
    BY <1>5, Zenon DEF UpdateTenantMode, Updated
  <2>2. /\ Stages(r) = {[table |-> "tenants", row |-> Updated(x, Op(r))] : x \in Visible(r, "tenants")}
        /\ Stages(r) \subseteq Writes
    BY <2>1, StagesWrites DEF Writers
  <2>3. Stages(r) = ws
    BY <2>2
  <2>4. Visible(r, "tenants") # {}
    <3>1. tx[r].tenant \in keysOut
      BY <2>1, UpdateIsValid DEF StoreInv, TxInv, RunsAs
    <3>2. QED
      BY <3>1, KeyHasTenant DEF Visible
  <2>5. Stages(r) # {}
    BY <2>2, <2>4
  <2>6. Executed(r, "ok", {}, Stages(r))
    BY <2>1, <2>3, Zenon
  <2>7. QED
    BY <1>0, <2>1, <2>2, <2>5, <2>6, StagedUnseen
<1>6. CASE AddDID(r)
  <2>1. Mem!Insert(r, "dids") \/ UNCHANGED <<db, Seen>>
    BY <1>6, InsertImplements DEF AddDID
  <2>2. Mem!Runs(r, "AddDID")
    BY <1>0, <1>6, MemRuns DEF AddDID
  <2>3. QED
    BY <2>1, <2>2, Zenon DEF MemStep, Mem!AddDID
<1>7. CASE CreateAppointment(r)
  <2>1. Mem!Insert(r, "appointments") \/ UNCHANGED <<db, Seen>>
    BY <1>7, InsertImplements DEF CreateAppointment
  <2>2. Mem!Runs(r, "CreateAppointment")
    BY <1>0, <1>7, MemRuns DEF CreateAppointment
  <2>3. QED
    BY <2>1, <2>2, Zenon DEF MemStep, Mem!CreateAppointment
<1>8. CASE CreateMessage(r)
  <2>1. Mem!Insert(r, "messages") \/ UNCHANGED <<db, Seen>>
    BY <1>8, InsertImplements DEF CreateMessage
  <2>2. Mem!Runs(r, "CreateMessage")
    BY <1>0, <1>8, MemRuns DEF CreateMessage
  <2>3. QED
    BY <2>1, <2>2, Zenon DEF MemStep, Mem!CreateMessage
<1>9. CASE ListDIDs(r)
  <2>1. Mem!List(r, "dids")
    BY <1>9, ListImplements DEF ListDIDs
  <2>2. Mem!Runs(r, "ListDIDs")
    BY <1>0, <1>9, MemRuns DEF ListDIDs
  <2>3. QED
    BY <2>1, <2>2, Zenon DEF MemStep, Mem!ListDIDs
<1>10. CASE ListCalls(r)
  <2>1. Mem!List(r, "calls")
    BY <1>10, ListImplements DEF ListCalls
  <2>2. Mem!Runs(r, "ListCalls")
    BY <1>0, <1>10, MemRuns DEF ListCalls
  <2>3. QED
    BY <2>1, <2>2, Zenon DEF MemStep, Mem!ListCalls
<1>11. CASE ListAppointments(r)
  <2>1. Mem!List(r, "appointments")
    BY <1>11, ListImplements DEF ListAppointments
  <2>2. Mem!Runs(r, "ListAppointments")
    BY <1>0, <1>11, MemRuns DEF ListAppointments
  <2>3. QED
    BY <2>1, <2>2, Zenon DEF MemStep, Mem!ListAppointments
<1>12. CASE ListMessages(r)
  <2>1. Mem!List(r, "messages")
    BY <1>12, ListImplements DEF ListMessages
  <2>2. Mem!Runs(r, "ListMessages")
    BY <1>0, <1>12, MemRuns DEF ListMessages
  <2>3. QED
    BY <2>1, <2>2, Zenon DEF MemStep, Mem!ListMessages
<1>13. CASE PutCall(r)
  <2>1. tx[r].phase = "open" /\ tx[r].op.name = "PutCall"
        /\ Executed(r, "ok", {}, {[table |-> "calls", row |-> Op(r)]})
    BY <1>13, Zenon DEF PutCall
  <2>2. {[table |-> "calls", row |-> Op(r)]} \in SUBSET Writes
    BY <1>0 DEF Typed, TxType, OpType, Op, Writes
  <2>3. QED
    BY <1>0, <2>1, <2>2, StagedUnseen
<1>14. CASE GetCall(r)
  BY <1>14, GetCallImplements, Zenon DEF MemStep
<1>15. CASE Commit(r) \/ CommitUnheard(r)
  BY <1>15, CommitImplements
<1>16. CASE Rollback(r)
  <2>1. tx[r].phase \in {"open", "found", "executed"} /\ db' = db /\ Ends(r, Failed)
    BY <1>0, <1>16, RollbackEnds
  <2>2. Seen' = [Seen EXCEPT ![r].phase = "done", ![r].answer = Failed]
    BY <1>0, <2>1, SeenEnds
  <2>3. Seen[r].phase = "invoked"
    <3>1. Seen[r] = [phase |-> "invoked", op |-> tx[r].op, answer |-> Nothing]
      BY <1>0, <2>1, SeenAs
    <3>2. QED
      BY <3>1
  <2>4. Seen[r].phase \in {"invoked", "done"} /\ Mem!Failed = Failed
    BY <2>3, SameDomain
  <2>5. Mem!Fail(r)
    BY <2>1, <2>2, <2>4, Zenon DEF Mem!Fail, Seen
  <2>6. QED
    BY <2>5, Zenon DEF MemStep
<1>17. QED
  BY <1>1, <1>2, <1>3, <1>4, <1>5, <1>6, <1>7, <1>8, <1>9, <1>10, <1>11, <1>12, <1>13, <1>14, <1>15, <1>16, Zenon
     DEF StoreStep, StoreFault

\* A handler calls the store when it has no call under way, or is done with
\* its answer.
LEMMA CallImplements ==
  ASSUME Typed, NEW r \in Requests, tx[r].phase \in {"idle", "closed"},
         NEW op, tx' = [tx EXCEPT ![r] = Opened(op)], db' = db
  PROVE  MemStep(r)
<1>1. tx'[r] = Opened(op)
  BY DEF Typed
<1>2. Opened(op).phase = "open" /\ Opened(op).op = op
  BY DEF Opened
<1>3. Seen' = [Seen EXCEPT ![r] = Promised(r)']
  BY SeenChanges
<1>4. Promised(r)' = [phase |-> "invoked", op |-> op, answer |-> Nothing]
  BY <1>1, <1>2 DEF Promised
<1>5. Seen'[r] = [phase |-> "invoked", op |-> op, answer |-> Nothing]
  BY <1>3, <1>4 DEF Seen
<1>6. Seen'[r].op = op
  BY <1>5
<1>7. Seen[r].phase # "invoked"
  <2>1. \/ Seen[r] = [phase |-> "done", op |-> tx[r].op, answer |-> tx[r].answer]
        \/ Seen[r] = [phase |-> "idle", op |-> tx[r].op, answer |-> tx[r].answer]
    BY SeenAs
  <2>2. QED
    BY <2>1
<1>8. Seen' = [Seen EXCEPT ![r] = [phase |-> "invoked", op |-> Seen'[r].op, answer |-> Mem!Nothing]]
  BY <1>3, <1>4, <1>6, SameDomain
<1>9. Mem!Invoke(r)
  BY <1>7, <1>8, Zenon DEF Mem!Invoke, Seen
<1>10. QED
  BY <1>9, Zenon DEF MemStep

\* A request that is not in use has no call, in both stores.
LEMMA IdleCall ==
  ASSUME NEW r \in Requests, tx'[r] = Idle
  PROVE  Promised(r)' = Mem!Idle
<1>1. tx'[r].phase = "idle" /\ tx'[r].op = NoOp /\ tx'[r].answer = Nothing
  BY IdleFields
<1>2. Promised(r)' = [phase |-> "idle", op |-> NoOp, answer |-> Nothing]
  BY <1>1 DEF Promised
<1>3. Mem!NoOp = NoOp
  BY Zenon DEF Mem!NoOp, NoOp, Mem!Row, Row
<1>4. QED
  BY <1>2, <1>3, SameDomain, Zenon DEF Mem!Idle

\* A response goes out.
LEMMA ReturnImplements ==
  ASSUME Typed, NEW r \in Requests, tx[r].phase = "closed", tx' = [tx EXCEPT ![r] = Idle], db' = db
  PROVE  MemStep(r)
<1>1. tx'[r] = Idle
  BY DEF Typed
<1>2. Seen' = [Seen EXCEPT ![r] = Mem!Idle]
  BY <1>1, SeenChanges, IdleCall
<1>3. Seen[r].phase = "done"
  <2>1. Seen[r] = [phase |-> "done", op |-> tx[r].op, answer |-> tx[r].answer]
    BY SeenAs
  <2>2. QED
    BY <2>1
<1>4. Mem!Return(r)
  BY <1>2, <1>3, Zenon DEF Mem!Return, Seen
<1>5. QED
  BY <1>4, Zenon DEF MemStep

\* What the handlers do to the store's calls.
LEMMA HandlersCall ==
  ASSUME StoreInv, NEW r \in Requests,
         \/ Arrive(r) \/ withTenant(r) \/ HandlerFails(r) \/ HandlerReplies(r)
         \/ CreateSubscription(r) \/ HandlerGoesOn(r) \/ HandlerEnds(r)
         \/ Project(r) \/ Projected(r)
  PROVE  /\ db' = db
         /\ \/ tx' = tx
            \/ tx[r].phase \in {"idle", "closed"} /\ \E op : tx' = [tx EXCEPT ![r] = Opened(op)]
            \/ tx[r].phase = "closed" /\ tx' = [tx EXCEPT ![r] = Idle]
<1>1. http[r].phase = "idle" => tx[r].phase = "idle"
  BY IdleFields DEF StoreInv, TxInv, InUse
<1>2. CASE Arrive(r)
  <2>1. http[r].phase = "idle" /\ db' = db
    BY <1>2 DEF Arrive
  <2>2. PICK q \in Queries :
          LET signup == q.route = "POST /tenants"
              entered(phase, op) ==
                /\ http' = [http EXCEPT ![r] = [phase |-> phase, q |-> q]]
                /\ Calls(r, op) /\ reply' = Silent
              turnedAway(status) == Replies(q, status, {}, 0) /\ UNCHANGED <<http, tx>>
          IN  /\ \/ signup /\ onboardings < MaxTenants
                    /\ onboardings' = onboardings + 1 /\ UNCHANGED served
                 \/ ~signup /\ served < MaxRequests
                    /\ served' = served + 1 /\ UNCHANGED onboardings
              /\ \/ signup /\ q.mode = "bad" /\ turnedAway(400)
                 \/ signup /\ q.mode # "bad" /\ entered("serve", handleCreateTenant(q, NewId))
                 \/ ~signup /\ q.key = NoKey /\ turnedAway(401)
                 \/ /\ ~signup /\ q.key # NoKey
                    /\ entered("auth", [name |-> "TenantByAPIKeyHash", row |-> Row(0, q.key, q.key)])
    BY <1>2, Zenon DEF Arrive
  <2>3. tx' = tx \/ \E op : tx' = [tx EXCEPT ![r] = Opened(op)]
    BY <2>2, Zenon DEF Calls
  <2>4. QED
    BY <1>1, <2>1, <2>3
<1>3. CASE withTenant(r)
  BY <1>3, Zenon DEF withTenant, Answered, Refused, Sent, Calls
<1>4. CASE HandlerFails(r)
  BY <1>4, Zenon DEF HandlerFails, Answered, writeStoreError, Refused, Sent
<1>5. CASE HandlerReplies(r)
  BY <1>5, Zenon DEF HandlerReplies, Answered, Sent
<1>6. CASE CreateSubscription(r)
  BY <1>6, Zenon DEF CreateSubscription, Answered, Refused, Sent
<1>7. CASE HandlerGoesOn(r)
  BY <1>7, Zenon DEF HandlerGoesOn, Answered, Calls
<1>8. CASE HandlerEnds(r)
  BY <1>8, Zenon DEF HandlerEnds, Answered, writeStoreError, Refused, Sent
<1>9. CASE Project(r)
  BY <1>1, <1>9, Zenon DEF Project, Calls
<1>10. CASE Projected(r)
  BY <1>10, Zenon DEF Projected, Answered
<1>11. QED
  BY <1>2, <1>3, <1>4, <1>5, <1>6, <1>7, <1>8, <1>9, <1>10

\* Every step of the API is a step of the promise, or is not seen.
LEMMA NextImplements ==
  ASSUME StoreInv, StoreInv', [Next]_vars
  PROVE  [Mem!Next]_Mem!vars
<1>1. Typed /\ Typed'
  BY DEF StoreInv
<1>2. ASSUME NEW r \in Requests, MemStep(r)
      PROVE  Mem!Next
  BY <1>2, Zenon DEF Mem!Next, MemStep
<1>3. ASSUME UNCHANGED <<db, Seen>>
      PROVE  UNCHANGED Mem!vars
  BY <1>3 DEF Mem!vars, Seen
<1>4. ASSUME tx' = tx, db' = db
      PROVE  UNCHANGED <<db, Seen>>
  BY <1>4 DEF Seen, Promised
<1>5. ASSUME NEW r \in Requests, StoreStep(r) \/ StoreFault(r)
      PROVE  MemStep(r) \/ UNCHANGED <<db, Seen>>
  BY <1>1, <1>5, StoreImplements
<1>6. ASSUME NEW r \in Requests,
             \/ Arrive(r) \/ withTenant(r) \/ HandlerFails(r) \/ HandlerReplies(r)
             \/ CreateSubscription(r) \/ HandlerGoesOn(r) \/ HandlerEnds(r)
             \/ Project(r) \/ Projected(r)
      PROVE  MemStep(r) \/ UNCHANGED <<db, Seen>>
  <2>1. /\ db' = db
        /\ \/ tx' = tx
           \/ tx[r].phase \in {"idle", "closed"} /\ \E op : tx' = [tx EXCEPT ![r] = Opened(op)]
           \/ tx[r].phase = "closed" /\ tx' = [tx EXCEPT ![r] = Idle]
    BY <1>6, HandlersCall
  <2>2. QED
    BY <1>1, <1>4, <2>1, CallImplements, ReturnImplements
<1>7. CASE Restart
  <2>1. tx' = [r \in Requests |-> Idle] /\ db' = db
    BY <1>7 DEF Restart
  <2>2. \A r \in Requests : Promised(r)' = Mem!Idle
    BY <2>1, IdleCall
  <2>3. Seen' = [r \in Requests |-> Mem!Idle]
    BY <2>2 DEF Seen
  <2>4. Mem!Restart
    BY <2>1, <2>3, Zenon DEF Mem!Restart, Seen
  <2>5. QED
    BY <2>4, Zenon DEF Mem!Next
<1>8. CASE UNCHANGED vars
  <2>1. tx' = tx /\ db' = db
    BY <1>8 DEF vars, storeVars
  <2>2. QED
    BY <1>3, <1>4, <2>1
<1>9. QED
  BY <1>2, <1>3, <1>5, <1>6, <1>7, <1>8, Zenon DEF Next

\* The Postgres store, whose transactions interleave, fail half-way and may
\* commit unheard, is the store memstore.go promises: each method happens at
\* once or not at all (store/memstore.go:23).
THEOREM StoreIsMemTheorem == Spec => StoreIsMem
<1>1. Init => Mem!Init
  <2> SUFFICES ASSUME Init
               PROVE  Mem!Init
    OBVIOUS
  <2>1. db = NoDB /\ tx = [r \in Requests |-> Idle]
    BY DEF Init, StoreInit
  <2>2. \A r \in Requests : Promised(r) = Mem!Idle
    <3> TAKE r \in Requests
    <3>1. tx[r].phase = "idle" /\ tx[r].op = NoOp /\ tx[r].answer = Nothing
      BY <2>1, IdleFields
    <3>2. Promised(r) = [phase |-> "idle", op |-> NoOp, answer |-> Nothing]
      BY <3>1 DEF Promised
    <3>3. Mem!NoOp = NoOp
      BY Zenon DEF Mem!NoOp, NoOp, Mem!Row, Row
    <3>4. QED
      BY <3>2, <3>3, SameDomain, Zenon DEF Mem!Idle
  <2>3. Mem!NoDB = NoDB
    BY Zenon DEF Mem!NoDB, NoDB, Mem!Tables, Tables
  <2>4. QED
    BY <2>1, <2>2, <2>3 DEF Mem!Init
<1>2. StoreInv /\ StoreInv' /\ [Next]_vars => [Mem!Next]_Mem!vars
  BY NextImplements
<1>3. QED
  BY <1>1, <1>2, StoreInvTheorem, PTL DEF Spec, StoreIsMem, Mem!Spec
=============================================================================
