------------------------------ MODULE Catalog ------------------------------
(***************************************************************************)
(* The table catalog of the Postgres backend of the Iceberg REST server:   *)
(* the "table" relation, and the operations of                             *)
(* crates/iceberg-catalog/src/implementations/postgres/table.rs that      *)
(* change it, run by concurrent requests.                                  *)
(*                                                                         *)
(* A row of "table" is tbl[u] for its table_id u.  Its metadata document   *)
(* is abstracted to the fields the catalog itself reads or guards: the     *)
(* uuid, the location, the snapshots and the snapshot of the main ref.     *)
(* metadata_location is abstracted to whether it is NULL (staged).         *)
(*                                                                         *)
(* Each SQL statement is one atomic step.  A write statement and the       *)
(* COMMIT of its transaction are merged into one step: the rows it writes  *)
(* stay locked until the commit, so no other writer sees them earlier and  *)
(* no reader sees them before the commit.  A request whose statements read *)
(* first and write later (commit_table_transaction, rename_table and      *)
(* drop_table with the id resolved beforehand) is split at that point.    *)
(* A request that ends in an error before it writes changes nothing: it   *)
(* is a stuttering step, and is left out.                                  *)
(***************************************************************************)
EXTENDS Naturals, FiniteSets, Sequences

CONSTANTS
    Clients,            \* concurrent requests (tasks of the server)
    Uuids,              \* table ids that now_v7() may mint
    Namespaces,         \* namespace ids of the (single, active) warehouse
    Names,              \* table names
    Locs,               \* table locations
    Requirements,       \* the TableRequirements a client may send
    Updates,            \* the TableUpdates a client may send
    MaxSnaps,           \* bound on the snapshots clients add
    MaxChanges,         \* bound on the table changes of one commit request
    MaxTablesPerCommit, \* MAX_PARAMETERS / 4 (scaled down)
    Isolation,          \* isolation level of the write transactions
    NoRow,              \* no row with this table_id
    NoId                \* a lookup found no table

Ident == [ns : Namespaces, name : Names]

(* The snapshot ids clients may add; 0 stands for "no snapshot".           *)
SnapId == 1..MaxSnaps

Metadata == [uuid : Uuids, location : Locs,
             snaps : SUBSET SnapId, main : SnapId \cup {0}]

Row == [ns : Namespaces, name : Names, loc : Locs,
        staged : BOOLEAN, meta : Metadata]

(* The requirement and update kinds the catalog distinguishes: NotExist   *)
(* and UuidMatch are named by the spec, AssertRefSnapshotId stands for    *)
(* the requirements delegated to the metadata aggregate.  "none" is a     *)
(* change without requirement.                                             *)
RequirementKind ==
    {[kind |-> "none"], [kind |-> "not_exist"]}
    \cup [kind : {"uuid_match"}, uuid : Uuids]
    \cup [kind : {"ref_snapshot_id"}, snap : SnapId \cup {0}]

UpdateKind ==
    {[kind |-> "add_snapshot"]}
    \cup [kind : {"assign_uuid"}, uuid : Uuids]
    \cup [kind : {"set_location"}, location : Locs]

ASSUME ConstantsAssumption ==
    /\ IsFiniteSet(Uuids) /\ Uuids # {}
    /\ Requirements \subseteq RequirementKind
    /\ Updates \subseteq UpdateKind
    /\ MaxSnaps \in Nat
    /\ MaxChanges \in Nat \ {0}
    /\ MaxTablesPerCommit \in Nat
    /\ Isolation \in {"read_committed", "repeatable_read"}
    /\ NoRow \notin Row
    /\ NoId \notin Uuids

VARIABLES
    tbl,        \* tbl[u]: the row with table_id u, or NoRow
    minted,     \* the table ids created so far (now_v7 never repeats)
    snapSeq,    \* the snapshot ids handed out so far are 1..snapSeq
    req,        \* req[c]: the state of request c
    committed   \* history: committed[u] = snapshots committed to table u

vars == <<tbl, minted, snapSeq, req, committed>>

IdentOf(r) == [ns |-> r.ns, name |-> r.name]

Live == {u \in Uuids : tbl[u] # NoRow}

-----------------------------------------------------------------------------
(* table_ident_to_id: the id of the row named t, under an active          *)
(* warehouse; NoId if there is none or it is staged and include_staged    *)
(* is false.                                                              *)
TableIdentToId(t, includeStaged) ==
    LET hits == {u \in Live : IdentOf(tbl[u]) = t}
    IN  IF hits = {} THEN NoId
        ELSE LET u == CHOOSE u \in hits : TRUE
             IN  IF tbl[u].staged /\ ~includeStaged THEN NoId ELSE u

(* table_idents_to_ids: the ids of a batch of idents, by the same rules;  *)
(* a missing ident maps to NoId.                                          *)
TableIdentsToIds(idents, includeStaged) ==
    [i \in DOMAIN idents |-> TableIdentToId(idents[i], includeStaged)]

(* Mutant: load_table without AND metadata_location IS NOT NULL.        *)
LoadTableWithStaged(t) ==
    {u \in Live : IdentOf(tbl[u]) = t}

(* load_table: the committed row named t (metadata_location IS NOT NULL), *)
(* by fetch_one; {} is NoSuchTableError.  The set holds every row         *)
(* fetch_one may return.                                                  *)
LoadTable(t) ==
    {u \in Live : IdentOf(tbl[u]) = t /\ ~tbl[u].staged}

(* list_tables: the HashMap table_id -> ident of the rows of namespace    *)
(* ns, staged ones only if include_staged.                                *)
ListTables(ns, includeStaged) ==
    [u \in {v \in Live : tbl[v].ns = ns /\ (~tbl[v].staged \/ includeStaged)}
       |-> IdentOf(tbl[u])]

(* get_table_metadata_by_id: the ident of row u; {} is NoSuchTableError, *)
(* or TableStaged when the row is staged and include_staged is false.     *)
GetTableMetadataById(u, includeStaged) ==
    IF u \in Live /\ (includeStaged \/ ~tbl[u].staged)
    THEN {IdentOf(tbl[u])} ELSE {}

(* TableRequirement::assert(metadata, exists).                            *)
RequirementHolds(r, row) ==
    \/ r.kind = "none"
    \/ r.kind = "not_exist" /\ row.staged
    \/ r.kind = "uuid_match" /\ row.meta.uuid = r.uuid
    \/ r.kind = "ref_snapshot_id" /\ row.meta.main = r.snap

(* TableUpdate::apply on the metadata aggregate (iceberg_ext): AddSnapshot *)
(* adds snapshot s and makes it the main ref; AssignUuid and SetLocation    *)
(* overwrite the uuid and the location.                                   *)
AggregateApply(up, meta, s) ==
    CASE up.kind = "add_snapshot" -> [meta EXCEPT !.snaps = @ \cup {s}, !.main = s]
      [] up.kind = "assign_uuid"  -> [meta EXCEPT !.uuid = up.uuid]
      [] up.kind = "set_location" -> [meta EXCEPT !.location = up.location]

(* Mutant: AddSnapshot is applied with the id one below the one given.   *)
ApplyUpdateOffByOne(up, meta, s) ==
    IF up.kind \in {"assign_uuid", "set_location"} THEN {meta}
    ELSE {AggregateApply(up, meta, s - 1)}

(* Mutant: apply_commits has no SetLocation arm; the update reaches the   *)
(* aggregate unguarded.                                                   *)
ApplyUpdateNoLocationArm(up, meta, s) ==
    CASE up.kind = "assign_uuid" ->
           IF up.uuid = meta.uuid THEN {meta} ELSE {}
      [] OTHER -> {AggregateApply(up, meta, s)}

(* One update in apply_commits: AssignUuid of another uuid fails with     *)
(* AssignUuidNotAllowed, SetLocation of another location with             *)
(* SetLocationNotAllowed; equal values are accepted and dropped; every    *)
(* other update goes to the aggregate.  {} is the error, {m} the result.  *)
ApplyUpdate(up, meta, s) ==
    CASE up.kind = "assign_uuid" ->
           IF up.uuid = meta.uuid THEN {meta} ELSE {}
      [] up.kind = "set_location" ->
           IF up.location = meta.location THEN {meta} ELSE {}
      [] OTHER -> {AggregateApply(up, meta, s)}

Pending == [id : Uuids, base : Row, meta : Metadata, added : SUBSET SnapId]

(* The CommitContext of one change after apply_commits: the id, the row   *)
(* read, the new metadata and the snapshot it adds, if any.               *)
ChangeOf(id, up, s) ==
    [id    |-> id,
     base  |-> tbl[id],
     meta  |-> CHOOSE m \in ApplyUpdate(up, tbl[id].meta, s) : TRUE,
     added |-> IF up.kind = "add_snapshot" THEN {s} ELSE {}]

Idle == [pc |-> "idle"]

ReqState ==
    {Idle}
    \cup [pc : {"commit"}, changes : Seq(Pending)]
    \cup [pc : {"rename", "drop"}, id : Uuids, src : Ident, dst : Ident]

(* Type invariant: the "table" rows by table_id, the ids minted, the      *)
(* snapshot counter, each client's request and the commit history.        *)
TypeOK ==
    /\ tbl \in [Uuids -> Row \cup {NoRow}]
    /\ minted \subseteq Uuids
    /\ snapSeq \in 0..MaxSnaps
    /\ req \in [Clients -> ReqState]
    /\ committed \in [Uuids -> SUBSET SnapId]

-----------------------------------------------------------------------------
Init ==
    /\ tbl = [u \in Uuids |-> NoRow]
    /\ minted = {}
    /\ snapSeq = 0
    /\ req = [c \in Clients |-> Idle]
    /\ committed = [u \in Uuids |-> {}]

(* Mutant: ON CONFLICT DO UPDATE without WHERE metadata_location IS NULL. *)
OverwritableAny(row) == TRUE

(* The DO UPDATE of create_table applies only to a staged row.            *)
Overwritable(row) == row.staged

(* create_table: INSERT ... WHERE the warehouse is active                 *)
(* ON CONFLICT (namespace_id, table_name) DO UPDATE ... WHERE the         *)
(* existing row is staged.  The caller minted table id u; staged is       *)
(* "metadata_location is None" (stage-create).  A conflict with a         *)
(* committed row returns no row: TableAlreadyExists, nothing changes.     *)
CreateTable(t, loc, staged, u) ==
    LET old  == {v \in Live : IdentOf(tbl[v]) = t}
        meta == [uuid |-> u, location |-> loc, snaps |-> {}, main |-> 0]
        row  == [ns |-> t.ns, name |-> t.name, loc |-> loc,
                 staged |-> staged, meta |-> meta]
    IN  /\ u \notin minted
        /\ \A v \in old : Overwritable(tbl[v])
        /\ tbl' = [v \in Uuids |-> IF v = u THEN row
                                   ELSE IF v \in old THEN NoRow
                                   ELSE tbl[v]]
        /\ minted' = minted \cup {u}
        /\ UNCHANGED <<snapSeq, req, committed>>

(* commit_table_transaction, up to the bulk UPDATE: table_idents_to_ids   *)
(* (include_staged), get_commit_context, the MAX_PARAMETERS / 4 bound,    *)
(* every requirement asserted on the metadata read, apply_commits.        *)
(* Change i adds snapshot snapSeq + i if it adds one.                     *)
CommitRead(c) ==
    /\ req[c] = Idle
    /\ \E n \in 1..MaxChanges :
       /\ n <= MaxTablesPerCommit
       /\ snapSeq + n <= MaxSnaps
       /\ \E idents \in [1..n -> Ident] :
          LET ids == TableIdentsToIds(idents, TRUE)
          IN
          /\ \A i \in 1..n : ids[i] # NoId
          /\ \E rs \in [1..n -> Requirements], us \in [1..n -> Updates] :
             /\ \A i \in 1..n : RequirementHolds(rs[i], tbl[ids[i]])
             /\ \A i \in 1..n : ApplyUpdate(us[i], tbl[ids[i]].meta, snapSeq + i) # {}
             /\ req' = [req EXCEPT ![c] =
                         [pc |-> "commit",
                          changes |-> [i \in 1..n |-> ChangeOf(ids[i], us[i], snapSeq + i)]]]
             /\ snapSeq' = snapSeq + n
    /\ UNCHANGED <<tbl, minted, committed>>

(* Mutant: the write transaction runs at read committed whatever the     *)
(* configured level; a row changed since the read is overwritten.         *)
NoConcurrentWriteUnchecked(ps) == TRUE

(* Whether the UPDATE of the rows read may proceed: at repeatable read    *)
(* it fails with a serialization error if a concurrent transaction has    *)
(* written one of them since it was read; at read committed it re-reads   *)
(* the current version and proceeds.                                      *)
NoConcurrentWrite(ps) ==
    Isolation = "repeatable_read" =>
        \A i \in DOMAIN ps : tbl[ps[i].id] = ps[i].base

(* Mutant: the count of returned rows is not compared.                   *)
AllRowsUpdatedUnchecked(hit, ps) == TRUE

(* updated.len() == responses.len(): one returned row per change.        *)
AllRowsUpdated(hit, ps) == Cardinality(hit) = Len(ps)

(* The bulk UPDATE "table" ... FROM (VALUES ...) WHERE c.table_id =       *)
(* t.table_id, keyed by the uuid of the new metadata, and the check that  *)
(* it returned one row per change; then COMMIT, or ROLLBACK on an error.  *)
(* A row matched by two VALUES rows is updated once, from either.         *)
CommitWrite(c) ==
    /\ req[c].pc = "commit"
    /\ LET ps   == req[c].changes
           hit  == {ps[i].meta.uuid : i \in DOMAIN ps} \cap Live
       IN  \/ /\ NoConcurrentWrite(ps)
              /\ AllRowsUpdated(hit, ps)
              /\ \E pick \in [hit -> DOMAIN ps] :
                   /\ \A u \in hit : ps[pick[u]].meta.uuid = u
                   /\ tbl' = [u \in Uuids |->
                                IF u \in hit
                                THEN [tbl[u] EXCEPT !.meta = ps[pick[u]].meta,
                                                    !.staged = FALSE]
                                ELSE tbl[u]]
              /\ committed' = [u \in Uuids |->
                                 committed[u] \cup
                                   UNION {ps[i].added : i \in {j \in DOMAIN ps :
                                                         ps[j].meta.uuid = u}}]
           \/ /\ ~(NoConcurrentWrite(ps) /\ AllRowsUpdated(hit, ps))
              /\ UNCHANGED <<tbl, committed>>
    /\ req' = [req EXCEPT ![c] = Idle]
    /\ UNCHANGED <<minted, snapSeq>>

(* The caller of rename_table / drop_table resolves the source ident     *)
(* to its id first (table_ident_to_id); NotFound if there is none.        *)
ResolveForRename(c) ==
    /\ req[c] = Idle
    /\ \E src, dst \in Ident, includeStaged \in BOOLEAN :
         LET u == TableIdentToId(src, includeStaged)
         IN  /\ u # NoId
             /\ req' = [req EXCEPT ![c] = [pc |-> "rename", id |-> u,
                                           src |-> src, dst |-> dst]]
    /\ UNCHANGED <<tbl, minted, snapSeq, committed>>

ResolveForDrop(c) ==
    /\ req[c] = Idle
    /\ \E src \in Ident, includeStaged \in BOOLEAN :
         LET u == TableIdentToId(src, includeStaged)
         IN  /\ u # NoId
             /\ req' = [req EXCEPT ![c] = [pc |-> "drop", id |-> u,
                                           src |-> src, dst |-> src]]
    /\ UNCHANGED <<tbl, minted, snapSeq, committed>>

(* The UPDATE of rename_table fails on the unique constraint on           *)
(* (namespace_id, table_name) when another row has the new identifier.    *)
RenameUnique(u, new) ==
    \A v \in Live \ {u} : IdentOf(tbl[v]) # IdentOf(new)

(* rename_table.  Same namespace in the request: UPDATE table_name WHERE  *)
(* table_id = u.  Otherwise: UPDATE table_name, namespace_id WHERE        *)
(* table_id = u AND table_name = the source name.  No row: NotFound; a    *)
(* second row with the new name: unique_table_name_per_namespace is       *)
(* violated and the statement fails.  Either error changes nothing.       *)
RenameWrite(c) ==
    /\ req[c].pc = "rename"
    /\ LET r   == req[c]
           u   == r.id
           new == IF r.src.ns = r.dst.ns
                  THEN [tbl[u] EXCEPT !.name = r.dst.name]
                  ELSE [tbl[u] EXCEPT !.name = r.dst.name, !.ns = r.dst.ns]
           matches == /\ u \in Live
                      /\ r.src.ns # r.dst.ns => tbl[u].name = r.src.name
       IN  IF matches /\ RenameUnique(u, new)
           THEN tbl' = [tbl EXCEPT ![u] = new]
           ELSE UNCHANGED tbl
    /\ req' = [req EXCEPT ![c] = Idle]
    /\ UNCHANGED <<minted, snapSeq, committed>>

(* drop_table: DELETE FROM "table" WHERE table_id = u (under an active    *)
(* warehouse); NotFound if the row is gone.                               *)
DropWrite(c) ==
    /\ req[c].pc = "drop"
    /\ tbl' = [tbl EXCEPT ![req[c].id] = NoRow]
    /\ req' = [req EXCEPT ![c] = Idle]
    /\ UNCHANGED <<minted, snapSeq, committed>>

Next ==
    \/ \E t \in Ident, loc \in Locs, staged \in BOOLEAN, u \in Uuids :
         CreateTable(t, loc, staged, u)
    \/ \E c \in Clients :
         \/ CommitRead(c) \/ CommitWrite(c)
         \/ ResolveForRename(c) \/ RenameWrite(c)
         \/ ResolveForDrop(c) \/ DropWrite(c)

Spec == Init /\ [][Next]_vars

-----------------------------------------------------------------------------
(* Every row's metadata names the row: metadata.uuid is the table_id and  *)
(* metadata.location the table_location (spec invariant 5).  It is at     *)
(* stake in the commit path, which writes the row keyed by the uuid of    *)
(* the new metadata, and in create_table over a staged row, which         *)
(* replaces the table_id under a concurrent commit.                      *)
MetadataMatchesRow ==
    \A u \in Live : tbl[u].meta.uuid = u /\ tbl[u].meta.location = tbl[u].loc

(* No two rows share an identifier: create_table replaces every staged   *)
(* row of that name under a new id, and rename_table fails on the unique  *)
(* constraint.  It restates that constraint and is no run's property;    *)
(* the proofs of the read-path and snapshot invariants rest on it.        *)
IdentsUnique ==
    \A u, v \in Live : u # v => IdentOf(tbl[u]) # IdentOf(tbl[v])

(* The read paths agree with the resolver (spec section 8):               *)
(* table_ident_to_id without staged tables finds t exactly when           *)
(* load_table finds it, and then the same row; list_tables without staged *)
(* tables lists under t exactly that row; get_table_metadata_by_id of a   *)
(* row returns t exactly when load_table of t returns that row.           *)
ReadPathsAgree ==
    \A t \in Ident :
        LET id   == TableIdentToId(t, FALSE)
            list == ListTables(t.ns, FALSE)
        IN  /\ LoadTable(t) = IF id = NoId THEN {} ELSE {id}
            /\ {u \in DOMAIN list : list[u] = t} = LoadTable(t)
            /\ \A u \in Uuids : (GetTableMetadataById(u, FALSE) = {t})
                                 <=> u \in LoadTable(t)

(* No committed snapshot is lost: a snapshot that a successful            *)
(* commit_table_transaction added to a table is in that table's           *)
(* metadata for as long as the row exists.  Two commits that read the     *)
(* same metadata and both write it back lose the first one's snapshot.   *)
NoLostSnapshot ==
    \A u \in Live : committed[u] \subseteq tbl[u].meta.snaps

(* A committed table is never replaced: in every step it keeps its        *)
(* table_id, its location and its metadata_location, or it is dropped and *)
(* no other row takes its name in the same step (create_table may only    *)
(* overwrite a staged row).                                               *)
CommittedNotReplaced ==
    [][\A u \in Live :
         ~tbl[u].staged =>
            \/ /\ tbl'[u] # NoRow
               /\ tbl'[u].loc = tbl[u].loc
               /\ ~tbl'[u].staged
            \/ /\ tbl'[u] = NoRow
               /\ \A v \in Uuids : tbl'[v] # NoRow =>
                                     IdentOf(tbl'[v]) # IdentOf(tbl[u])]_vars

(* A write by id (rename_table, drop_table) changes the table the request *)
(* named: when it changes the catalog, the row it changes still has the   *)
(* source identifier the id was resolved from.                           *)
ByIdWriteTargetsSource ==
    [][\A c \in Clients :
         (/\ req[c].pc \in {"rename", "drop"}
          /\ req'[c] = Idle
          /\ tbl' # tbl)
         => IdentOf(tbl[req[c].id]) = req[c].src]_vars


(* The catalog as its clients see it: module AtomicCatalog, on the same   *)
(* "table" relation.                                                      *)
Atomic == INSTANCE AtomicCatalog

(* Every step of the catalog is one atomic step of AtomicCatalog, or      *)
(* leaves the "table" relation unchanged: in particular the bulk UPDATE   *)
(* of commit_table_transaction installs metadata that keeps every         *)
(* snapshot of the row it replaces, which needs the metadata it computed  *)
(* from a read to still extend the row when it writes.                    *)
ImplementsAtomic == Atomic!Spec
=============================================================================
