------------------------------ MODULE Warehouse ------------------------------
(***************************************************************************)
(* The warehouse service of crates/iceberg-catalog/src/api/management/    *)
(* v1/warehouse.rs: create_warehouse and delete_warehouse run by          *)
(* concurrent requests against two resources, the "warehouse" relation    *)
(* of the catalog database and the external secret store.                 *)
(*                                                                         *)
(* create_warehouse awaits, in order: begin_write, S::create_secret (when *)
(* a credential is given), C::create_warehouse_profile inside the         *)
(* transaction, and the commit.  Each await is a step; an error at any of *)
(* them returns early with `?`, dropping the transaction (rollback).  The *)
(* task may also be cancelled at any await (spec section 5), with the     *)
(* same effect.  The secret store is not transactional: a secret it has   *)
(* created stays.                                                         *)
(*                                                                         *)
(* The authorization check and the profile validation precede every       *)
(* write; when they fail the request changes nothing and is left out.     *)
(* The database side of create_warehouse_profile and delete_warehouse is  *)
(* not in this repository; it is modelled from the schema of the spec:    *)
(* (project_id, warehouse_name) is unique, and an INSERT that meets an    *)
(* uncommitted row with the same key waits for that transaction's end.    *)
(***************************************************************************)
EXTENDS Naturals, FiniteSets

CONSTANTS
    Clients,        \* concurrent requests (tasks of the server)
    WhIds,          \* warehouse ids the database may mint
    Projects,       \* project ids
    WhNames,        \* warehouse names
    Secrets,        \* secret handles the secret store may mint
    NoSecret,       \* storage_secret_id is NULL
    NoWh,           \* no warehouse row with this id
    MaxRequests     \* bound on the create_warehouse requests of a run

ASSUME WarehouseAssumption ==
    /\ MaxRequests \in Nat
    /\ NoSecret \notin Secrets
    /\ NoWh \notin [project : Projects, name : WhNames,
                    secret : Secrets \cup {NoSecret}]

VARIABLES
    wh,         \* wh[w]: the committed warehouse row w, or NoWh
    store,      \* the secrets held by the secret store
    req,        \* req[c]: the state of request c
    minted,     \* the warehouse ids handed out so far
    requests    \* the create_warehouse requests begun so far

vars == <<wh, store, req, minted, requests>>

WhRow == [project : Projects, name : WhNames, secret : Secrets \cup {NoSecret}]

Idle == [pc |-> "idle"]

(* A create_warehouse request after begin_write: at the secret store      *)
(* call, at the profile insert, or holding its inserted row until the     *)
(* commit.                                                                *)
CreateState ==
    [pc : {"secret", "insert", "commit"}, project : Projects, name : WhNames,
     secret : Secrets \cup {NoSecret}, id : WhIds \cup {NoWh}]

Key(r) == [project |-> r.project, name |-> r.name]

Live == {w \in WhIds : wh[w] # NoWh}

(* Type invariant: the warehouse rows by id, the secrets stored, each     *)
(* client's request, the ids minted and the request count.                *)
TypeOK ==
    /\ wh \in [WhIds -> WhRow \cup {NoWh}]
    /\ store \subseteq Secrets
    /\ req \in [Clients -> {Idle} \cup CreateState]
    /\ minted \subseteq WhIds
    /\ requests \in 0..MaxRequests

Init ==
    /\ wh = [w \in WhIds |-> NoWh]
    /\ store = {}
    /\ req = [c \in Clients |-> Idle]
    /\ minted = {}
    /\ requests = 0

-----------------------------------------------------------------------------
(* create_warehouse up to begin_write: the request names project p and    *)
(* warehouse n, with a storage credential or without one.                 *)
Begin(c, p, n, cred) ==
    /\ req[c] = Idle
    /\ requests < MaxRequests
    /\ req' = [req EXCEPT ![c] = [pc |-> IF cred THEN "secret" ELSE "insert",
                                  project |-> p, name |-> n,
                                  secret |-> NoSecret, id |-> NoWh]]
    /\ requests' = requests + 1
    /\ UNCHANGED <<wh, store, minted>>

(* S::create_secret: the store keeps the credential under a fresh handle, *)
(* or fails, and `?` returns the error.                                   *)
CreateSecret(c) ==
    /\ req[c].pc = "secret"
    /\ \/ \E s \in Secrets \ store :
            /\ store' = store \cup {s}
            /\ req' = [req EXCEPT ![c].secret = s, ![c].pc = "insert"]
       \/ /\ req' = [req EXCEPT ![c] = Idle]
          /\ UNCHANGED store
    /\ UNCHANGED <<wh, minted, requests>>

(* The requests other than c whose uncommitted row has c's key.           *)
InFlight(c) ==
    {d \in Clients \ {c} : req[d].pc = "commit" /\ Key(req[d]) = Key(req[c])}

(* A committed warehouse has c's key.                                     *)
Taken(c) == \E w \in Live : Key(wh[w]) = Key(req[c])

(* Mutant: a unique violation is retried until the name is free.          *)
CreateWarehouseProfileRetry(c) ==
    /\ req[c].pc = "insert"
    /\ InFlight(c) = {}
    /\ ~Taken(c)
    /\ \E w \in WhIds \ minted :
         /\ req' = [req EXCEPT ![c].id = w, ![c].pc = "commit"]
         /\ minted' = minted \cup {w}
    /\ UNCHANGED <<wh, store, requests>>

(* C::create_warehouse_profile in the transaction: the INSERT waits while *)
(* another transaction holds an uncommitted row with the same key, fails  *)
(* on the unique constraint if a committed row has it, and otherwise      *)
(* inserts a row under a fresh id, visible to others only at the commit.  *)
CreateWarehouseProfile(c) ==
    /\ req[c].pc = "insert"
    /\ InFlight(c) = {}
    /\ \/ /\ Taken(c)
          /\ req' = [req EXCEPT ![c] = Idle]
          /\ UNCHANGED minted
       \/ /\ ~Taken(c)
          /\ \E w \in WhIds \ minted :
               /\ req' = [req EXCEPT ![c].id = w, ![c].pc = "commit"]
               /\ minted' = minted \cup {w}
    /\ UNCHANGED <<wh, store, requests>>

(* transaction.commit(): the row becomes visible, or the commit fails and *)
(* the request returns the error.                                         *)
Commit(c) ==
    /\ req[c].pc = "commit"
    /\ \/ wh' = [wh EXCEPT ![req[c].id] = [project |-> req[c].project,
                                           name |-> req[c].name,
                                           secret |-> req[c].secret]]
       \/ UNCHANGED wh
    /\ req' = [req EXCEPT ![c] = Idle]
    /\ UNCHANGED <<store, minted, requests>>

(* The task is dropped at an await: the transaction rolls back.  Dropped  *)
(* while create_secret is in flight, the store may still have created the *)
(* secret, whose handle nobody receives.                                  *)
Cancel(c) ==
    /\ req[c] # Idle
    /\ req' = [req EXCEPT ![c] = Idle]
    /\ \/ UNCHANGED store
       \/ /\ req[c].pc = "secret"
          /\ \E s \in Secrets \ store : store' = store \cup {s}
    /\ UNCHANGED <<wh, minted, requests>>

(* delete_warehouse: begin_write, C::delete_warehouse, commit, as one     *)
(* atomic step; the secret of the warehouse is left in the store.         *)
DeleteWarehouse(w) ==
    /\ w \in Live
    /\ wh' = [wh EXCEPT ![w] = NoWh]
    /\ UNCHANGED <<store, req, minted, requests>>

Next ==
    \/ \E c \in Clients :
         \/ \E p \in Projects, n \in WhNames, cred \in BOOLEAN : Begin(c, p, n, cred)
         \/ CreateSecret(c) \/ CreateWarehouseProfile(c) \/ Commit(c)
         \/ Cancel(c)
    \/ \E w \in WhIds : DeleteWarehouse(w)

(* The runtime schedules tasks fairly (spec section 5): a request whose    *)
(* next await can complete eventually takes it.  Clients, cancellation     *)
(* and deletes are not required to happen.                                 *)
Fairness ==
    \A c \in Clients :
        /\ WF_vars(CreateSecret(c))
        /\ WF_vars(CreateWarehouseProfile(c))
        /\ WF_vars(Commit(c))

Spec == Init /\ [][Next]_vars /\ Fairness

-----------------------------------------------------------------------------
(* Every create_warehouse request returns: it waits only on another       *)
(* request's transaction, never on a name that is already taken, and      *)
(* each of its awaits completes or fails.                                 *)
CreateReturns ==
    \A c \in Clients : req[c] # Idle ~> req[c] = Idle

(* No secret is orphaned: every secret in the store is the credential of  *)
(* a committed warehouse or of a create_warehouse request in flight.      *)
(* create_secret runs before the insert and the commit, outside the       *)
(* transaction, and nothing deletes the secret when they fail, when the   *)
(* task is cancelled, or when the warehouse is deleted.                   *)
NoOrphanSecret ==
    \A s \in store :
        \/ \E w \in Live : wh[w].secret = s
        \/ \E c \in Clients : req[c] # Idle /\ req[c].secret = s

=============================================================================
