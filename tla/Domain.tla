------------------------------- MODULE Domain -------------------------------
(***************************************************************************)
(* The rows of the core API and the rules both stores apply to them        *)
(* (go/internal/domain, the keys of store/migrations/0001_init.sql, and    *)
(* the invoice of go/internal/billing).                                    *)
(*                                                                         *)
(* One row shape serves all tables: `tenant` is the tenant_id column, `id` *)
(* the rest of the key, `by` (history) the tenant whose client asked for   *)
(* the row.  A tenant's id also stands for its API key and its key's hash: *)
(* each tenant has one key, 24 random bytes.                               *)
(***************************************************************************)
EXTENDS Naturals, FiniteSets, FiniteSetsExt

CONSTANTS
  Monthly, Included, Overage  \* pricing of the plan: cents, minutes, cents per minute

ASSUME DomainAssumption == {Monthly, Included, Overage} \subseteq Nat

Tables == {"tenants", "keys", "dids", "calls", "appointments", "messages"}
NoDB   == [k \in Tables |-> {}]

Modes == {"overflow", "always_ai"}

Row(tenant, id, by) ==
  [tenant |-> tenant, id |-> id, by |-> by, mode |-> "", secs |-> 0, minutes |-> 0]

(* Tenant.Validate, the part a mode update can break: overflow needs a delay. *)
ValidTenant(row) ==
  /\ row.mode \in Modes
  /\ row.mode = "overflow" => row.secs > 0

(* Primary keys: a number, a tenant and an API key belong to one tenant     *)
(* worldwide; calls, appointments and messages are keyed within their       *)
(* tenant.                                                                  *)
SameKey(k, x, y) ==
  /\ x.id = y.id
  /\ k \in {"calls", "appointments", "messages"} => x.tenant = y.tenant

Taken(k, rows, row) == \E x \in rows : SameKey(k, x, row)

(* Writing rows into a table: a row with the same key is replaced. *)
Written(k, rows, new) == {x \in rows : ~Taken(k, new, x)} \cup new

(* SumUsage of a tenant's calls, in call minutes. *)
SumUsage(calls) == MapThenSumSet(LAMBDA c : c.minutes, calls)

(* Compute: the invoice total in cents. *)
Compute(minutes, inTrial) ==
  LET over == IF minutes > Included THEN minutes - Included ELSE 0
  IN  IF inTrial THEN 0 ELSE Monthly + over * Overage
=============================================================================
