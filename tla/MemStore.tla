------------------------------ MODULE MemStore ------------------------------
(***************************************************************************)
(* What a store promises the core API (go/internal/store).  The methods    *)
(* are those of Mem (memstore.go): each runs under one mutex, so its whole *)
(* effect and its answer happen in one step between the call and the       *)
(* return.  The two steps no Mem takes, Fail and Restart, say what a       *)
(* caller of a networked store has to expect besides: an error that leaves *)
(* the effect in doubt, and a restart of the process that called.          *)
(***************************************************************************)
EXTENDS Domain

CONSTANTS Requests  \* requests that may be in progress at once

VARIABLES
  db,   \* [Tables -> sets of rows]
  req   \* [Requests -> phase of the store call, the call, its answer]

vars == <<db, req>>

Nothing == [code |-> "", rows |-> {}]
Failed  == [code |-> "error", rows |-> {}]
NoOp    == [name |-> "", row |-> Row(0, 0, 0)]
Idle    == [phase |-> "idle", op |-> NoOp, answer |-> Nothing]

Init == db = NoDB /\ req = [r \in Requests |-> Idle]

Op(r)     == req[r].op.row
Runs(r, name) == req[r].phase = "invoked" /\ req[r].op.name = name

(* The answer, which may get lost on the way back. *)
Answer(r, code, rows) ==
  \E a \in {[code |-> code, rows |-> rows], Failed} :
    req' = [req EXCEPT ![r].phase = "done", ![r].answer = a]

Refuse(r, code) == Answer(r, code, {}) /\ UNCHANGED db

Put(r, k) ==
  /\ db' = [db EXCEPT ![k] = Written(k, @, {Op(r)})]
  /\ Answer(r, "ok", {})

Rows(r, k) == {x \in db[k] : x.tenant = Op(r).tenant}
List(r, k) == Answer(r, "ok", Rows(r, k)) /\ UNCHANGED db

(* A point read, by the whole key or as a miss. *)
Get(r, k, found) ==
  /\ UNCHANGED db
  /\ \/ found # {} /\ Answer(r, "ok", found)
     \/ found = {} /\ Answer(r, "not_found", {})

(* An insert: the key must be free. *)
Insert(r, k) ==
  \/ Taken(k, db[k], Op(r)) /\ Refuse(r, "conflict")
  \/ ~Taken(k, db[k], Op(r)) /\ Put(r, k)

CreateTenant(r) ==
  /\ Runs(r, "CreateTenant")
  /\ \/ ~ValidTenant(Op(r)) /\ Refuse(r, "error")
     \/ /\ ValidTenant(Op(r)) /\ Taken("tenants", db["tenants"], Op(r))
        /\ Refuse(r, "conflict")
     \/ /\ ValidTenant(Op(r)) /\ ~Taken("tenants", db["tenants"], Op(r))
        /\ db' = [db EXCEPT !["tenants"] = @ \cup {Op(r)}, !["keys"] = @ \cup {Op(r)}]
        /\ Answer(r, "ok", {})

TenantByAPIKeyHash(r) ==
  /\ Runs(r, "TenantByAPIKeyHash")
  /\ Get(r, "tenants", {x \in db["tenants"] :
                          \E key \in db["keys"] : key.id = Op(r).id /\ key.tenant = x.id})

CurrentTenant(r) == Runs(r, "CurrentTenant") /\ Get(r, "tenants", Rows(r, "tenants"))

UpdateTenantMode(r) ==
  LET new == {[x EXCEPT !.mode = Op(r).mode, !.secs = Op(r).secs, !.by = Op(r).by] : x \in Rows(r, "tenants")}
  IN  /\ Runs(r, "UpdateTenantMode")
      /\ \/ new = {} /\ Refuse(r, "not_found")
         \/ (\E x \in new : ~ValidTenant(x)) /\ Refuse(r, "error")
         \/ /\ new # {} /\ \A x \in new : ValidTenant(x)
            /\ db' = [db EXCEPT !["tenants"] = Written("tenants", @, new)]
            /\ Answer(r, "ok", {})

AddDID(r)   == Runs(r, "AddDID") /\ Insert(r, "dids")
ListDIDs(r) == Runs(r, "ListDIDs") /\ List(r, "dids")

PutCall(r)   == Runs(r, "PutCall") /\ Put(r, "calls")
ListCalls(r) == Runs(r, "ListCalls") /\ List(r, "calls")
GetCall(r)   == Runs(r, "GetCall") /\ Get(r, "calls", {x \in Rows(r, "calls") : x.id = Op(r).id})

CreateAppointment(r) == Runs(r, "CreateAppointment") /\ Insert(r, "appointments")
ListAppointments(r)  == Runs(r, "ListAppointments") /\ List(r, "appointments")

CreateMessage(r) == Runs(r, "CreateMessage") /\ Insert(r, "messages")
ListMessages(r)  == Runs(r, "ListMessages") /\ List(r, "messages")

(* A caller with no call under way makes one. *)
Invoke(r) ==
  /\ req[r].phase # "invoked"
  /\ req' = [req EXCEPT ![r] = [phase |-> "invoked", op |-> req'[r].op, answer |-> Nothing]]
  /\ UNCHANGED db

(* The call is given up before its effect, or its answer is lost. *)
Fail(r) ==
  /\ req[r].phase \in {"invoked", "done"}
  /\ req' = [req EXCEPT ![r].phase = "done", ![r].answer = Failed]
  /\ UNCHANGED db

(* The caller has its answer and makes no further call. *)
Return(r) ==
  req[r].phase = "done" /\ req' = [req EXCEPT ![r] = Idle] /\ UNCHANGED db

(* The process restarts: nobody waits for the answers any more. *)
Restart == req' = [r \in Requests |-> Idle] /\ UNCHANGED db

Next ==
  \/ Restart
  \/ \E r \in Requests :
       \/ Invoke(r) \/ Fail(r) \/ Return(r)
       \/ CreateTenant(r) \/ TenantByAPIKeyHash(r) \/ CurrentTenant(r) \/ UpdateTenantMode(r)
       \/ AddDID(r) \/ ListDIDs(r) \/ PutCall(r) \/ ListCalls(r) \/ GetCall(r)
       \/ CreateAppointment(r) \/ ListAppointments(r) \/ CreateMessage(r) \/ ListMessages(r)

Spec == Init /\ [][Next]_vars
=============================================================================
