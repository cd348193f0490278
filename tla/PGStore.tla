------------------------------ MODULE PGStore -------------------------------
(***************************************************************************)
(* The Postgres store (go/internal/store/pgstore.go, migrations/           *)
(* 0001_init.sql).  A method is a transaction: its statements run under    *)
(* the row-level security of the context's tenant, then it commits.        *)
(* Between the two other transactions run, and at each point the           *)
(* connection or the request's context may fail.                           *)
(*                                                                         *)
(* Postgres at READ COMMITTED (external): a statement sees committed rows; *)
(* a write waits for a transaction that has written a row with the same    *)
(* key; a commit whose acknowledgement is lost has happened.  Tenants are  *)
(* never deleted and a context's tenant comes from its API key, so the     *)
(* foreign keys always hold.                                               *)
(***************************************************************************)
EXTENDS Domain

CONSTANTS Requests

VARIABLES
  db,  \* committed rows
  tx   \* [Requests -> the store call: phase, call, app.tenant_id, answer, uncommitted rows]

Nothing == [code |-> "", rows |-> {}]
Failed  == [code |-> "error", rows |-> {}]
NoOp    == [name |-> "", row |-> Row(0, 0, 0)]
Idle    == [phase |-> "idle", op |-> NoOp, tenant |-> 0, answer |-> Nothing, staged |-> {}]

StoreInit == db = NoDB /\ tx = [r \in Requests |-> Idle]

Op(r)   == tx[r].op.row
Runs(r, name) == tx[r].phase = "open" /\ tx[r].op.name = name

(* The transaction a method opens (inTxAs, inTenantTx): app.tenant_id is the *)
(* tenant of its context.                                                   *)
Opened(op) ==
  [phase |-> "open", op |-> op, tenant |-> op.row.tenant, answer |-> Nothing, staged |-> {}]

(* The statements have run: the answer is known, the writes are staged.     *)
(* With nothing written, there is nothing to commit.                        *)
Executed(r, code, rows, staged) ==
  /\ tx' = [tx EXCEPT ![r].phase = IF staged = {} THEN "closed" ELSE "executed",
                      ![r].staged = staged,
                      ![r].answer = [code |-> code, rows |-> rows]]
  /\ UNCHANGED db

VisibleNoCallPolicy(r, k) ==  \* Variant of Visible.
  {x \in db[k] : k = "calls" \/ (IF k = "tenants" THEN x.id ELSE x.tenant) = tx[r].tenant}
(* Policy tenant_isolation: the rows a statement of r sees. *)
Visible(r, k) == {x \in db[k] : (IF k = "tenants" THEN x.id ELSE x.tenant) = tx[r].tenant}

(* Another transaction has written a row with this key and has not ended. *)
Locked(r, k, row) ==
  \E q \in Requests \ {r} : \E w \in tx[q].staged : w.table = k /\ SameKey(k, w.row, row)

(* insert: a unique index spans all tenants; a violation is ErrConflict (isUnique). *)
Insert(r, k) ==
  /\ ~Locked(r, k, Op(r))
  /\ \/ Taken(k, db[k], Op(r)) /\ Executed(r, "conflict", {}, {})
     \/ ~Taken(k, db[k], Op(r)) /\ Executed(r, "ok", {}, {[table |-> k, row |-> Op(r)]})

Select(r, k) == Executed(r, "ok", Visible(r, k), {})

SelectOne(r, found) ==
  \/ found # {} /\ Executed(r, "ok", found, {})
  \/ found = {} /\ Executed(r, "not_found", {}, {})

(* Validate, then the tenant and its key hash in one transaction; the id    *)
(* and the key are fresh.                                                   *)
CreateTenant(r) ==
  /\ Runs(r, "CreateTenant")
  /\ Executed(r, "ok", {}, {[table |-> k, row |-> Op(r)] : k \in {"tenants", "keys"}})

(* First the key, outside any transaction (the table has no policy), ...    *)
FindKey(r) ==
  LET owners == {x.tenant : x \in {y \in db["keys"] : y.id = Op(r).id}}
  IN  /\ Runs(r, "TenantByAPIKeyHash")
      /\ \/ owners = {} /\ Executed(r, "not_found", {}, {})
         \/ /\ owners # {}
            /\ tx' = [tx EXCEPT ![r].phase = "found",
                                ![r].tenant = CHOOSE t \in owners : TRUE]
            /\ UNCHANGED db
(* ... then the tenant under its own policy (scanTenant). *)
TenantByAPIKeyHash(r) ==
  /\ tx[r].phase = "found"
  /\ Executed(r, "ok", Visible(r, "tenants"), {})

CurrentTenant(r) == Runs(r, "CurrentTenant") /\ Select(r, "tenants")

UpdateTenantMode(r) ==
  LET new == {[x EXCEPT !.mode = Op(r).mode, !.secs = Op(r).secs, !.by = Op(r).by] : x \in Visible(r, "tenants")}
  IN  /\ Runs(r, "UpdateTenantMode")
      /\ \A x \in new : ~Locked(r, "tenants", x)
      /\ Executed(r, "ok", {}, {[table |-> "tenants", row |-> x] : x \in new})

AddDID(r)   == Runs(r, "AddDID") /\ Insert(r, "dids")
ListDIDs(r) == Runs(r, "ListDIDs") /\ Select(r, "dids")

PutCall(r) ==
  /\ Runs(r, "PutCall")
  /\ ~Locked(r, "calls", Op(r))
  /\ Executed(r, "ok", {}, {[table |-> "calls", row |-> Op(r)]})

ListCalls(r) == Runs(r, "ListCalls") /\ Select(r, "calls")

GetCall(r) ==
  Runs(r, "GetCall") /\ SelectOne(r, {x \in Visible(r, "calls") : x.id = Op(r).id})

CreateAppointment(r) == Runs(r, "CreateAppointment") /\ Insert(r, "appointments")
ListAppointments(r)  == Runs(r, "ListAppointments") /\ Select(r, "appointments")

CreateMessage(r) == Runs(r, "CreateMessage") /\ Insert(r, "messages")
ListMessages(r)  == Runs(r, "ListMessages") /\ Select(r, "messages")

(* Committed: what was staged becomes visible to everyone at once. *)
Published(r) ==
  [k \in Tables |-> Written(k, db[k], {w.row : w \in {v \in tx[r].staged : v.table = k}})]

Commit(r) ==
  /\ tx[r].phase = "executed"
  /\ db' = Published(r)
  /\ tx' = [tx EXCEPT ![r].phase = "closed", ![r].staged = {}]

(* The commit's acknowledgement is lost: inTxAs reports an error. *)
CommitUnheard(r) ==
  /\ tx[r].phase = "executed"
  /\ db' = Published(r)
  /\ tx' = [tx EXCEPT ![r].phase = "closed", ![r].staged = {}, ![r].answer = Failed]

RollbackQuietly(r) ==  \* Variant of Rollback.
  /\ tx[r].phase \in {"open", "found", "executed"}
  /\ tx' = [tx EXCEPT ![r].phase = "closed", ![r].staged = {},
                      ![r].answer = IF tx[r].phase = "executed" THEN @ ELSE Failed]
  /\ UNCHANGED db
(* The connection or the context fails first: rolled back. *)
Rollback(r) ==
  /\ tx[r].phase \in {"open", "found", "executed"}
  /\ tx' = [tx EXCEPT ![r].phase = "closed", ![r].staged = {}, ![r].answer = Failed]
  /\ UNCHANGED db

StoreStep(r) ==
  \/ CreateTenant(r) \/ FindKey(r) \/ TenantByAPIKeyHash(r) \/ CurrentTenant(r)
  \/ UpdateTenantMode(r) \/ AddDID(r) \/ ListDIDs(r) \/ PutCall(r) \/ ListCalls(r) \/ GetCall(r)
  \/ CreateAppointment(r) \/ ListAppointments(r) \/ CreateMessage(r) \/ ListMessages(r)
  \/ Commit(r)

StoreFault(r) == CommitUnheard(r) \/ Rollback(r)

-----------------------------------------------------------------------------
(* The promise: the call of r is under way until its effect is public and   *)
(* its answer fixed, which for a write is its commit.                       *)
Promised(r) ==
  LET phase == CASE tx[r].phase \in {"open", "found", "executed"} -> "invoked"
                 [] tx[r].phase = "idle" -> "idle"
                 [] tx[r].phase = "closed" -> "done"
  IN  [phase |-> phase, op |-> tx[r].op,
       answer |-> IF phase = "invoked" THEN Nothing ELSE tx[r].answer]

Mem == INSTANCE MemStore WITH req <- [r \in Requests |-> Promised(r)]
=============================================================================
