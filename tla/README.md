# TLA+ models of the Iceberg REST catalog

This directory holds TLA+ models of the Postgres-backed table catalog in
`src/crates/iceberg-catalog`, of its warehouse management service, and of the pagination tokens in
`src/crates/iceberg-rest-server`. It also holds the TLC configurations that
model-check them and the TLAPS proofs about them.

## The system and its parts

| Part | Source | Module | Status |
|---|---|---|---|
| Identifier registry: `table_ident_to_id`, `table_idents_to_ids` | `postgres/table.rs` 28-169 | `Catalog` | modelled |
| Table rows: `create_table`, `rename_table`, `drop_table` | `postgres/table.rs` 171-262, 508-625 | `Catalog` | modelled |
| Commit engine: `get_commit_context`, `apply_commits`, `commit_table_transaction` | `postgres/table.rs` 627-852 | `Catalog`, `CatalogProofs` | modelled |
| Location lookup: `get_table_metadata_by_s3_location` | `postgres/table.rs` 438-462 | `LocationLookup`, `LocationLookupProofs` | modelled |
| Read paths: `load_table`, `list_tables`, `get_table_metadata_by_id` | `postgres/table.rs` 264-428 | `Catalog` | modelled (read-only operators) |
| What the catalog promises: every request one atomic step | spec sections 4 and 8 | `AtomicCatalog` | abstract specification |
| Pagination tokens: `PageToken`, `NextPageToken` | `iceberg-rest-server/src/types.rs` | `PageToken` | modelled |
| Warehouse service: `create_warehouse`, `delete_warehouse` | `api/management/v1/warehouse.rs` 98-140, 209-225 | `Warehouse`, `WarehouseProofs` | partly (see below) |
| Ident types, router, service traits | `tabular/idents.rs`, `api/mod.rs`, `service/v1/mod.rs` | none | not modelled: no state |

Every table operation runs in its own Postgres transaction, and requests are
served concurrently. Commits, renames and drops all first resolve
identifiers to `table_id`s and then write by id. The state they share is the
`"table"` relation.

## Module `Catalog`

State:

- `tbl`: the `"table"` relation, keyed by `table_id`. A row has a namespace,
  a name, a location, `staged` (metadata_location IS NULL) and its metadata.
  The metadata has a uuid, a location, a set of snapshots and the main ref.
- `minted`: the table ids handed out so far.
- `snapSeq`: a counter for fresh snapshot ids.
- `req`: each client's request in flight.
- `committed`: a history variable. For every table it records the snapshots
  that a successful commit added to it.

Actions:

- `CreateTable`: the INSERT ... ON CONFLICT DO UPDATE ... WHERE
  metadata_location IS NULL of `create_table`. It overwrites a staged row
  and takes its name under a new id.
- A commit is two atomic steps. This matches the two statements whose
  relative timing matters:
  - `CommitRead` covers everything up to the bulk UPDATE:
    `table_idents_to_ids` with include_staged, `get_commit_context`, the
    `MAX_PARAMETERS / 4` bound, the requirement checks and `apply_commits`.
    The two SELECTs (`table_idents_to_ids` and `get_commit_context`) are
    merged into one step. Both run in the commit's transaction, and at
    REPEATABLE READ they read one snapshot. At READ COMMITTED a write
    between them is possible in the code and not in the model. The bug of
    run `catalog_read_committed` needs no such write.
  - `MaxTablesPerCommit` stands for both batch limits: `MAX_PARAMETERS / 4`
    on the changes of a commit (line 780) and `MAX_PARAMETERS / 2` on the
    identifiers of `table_idents_to_ids` (line 95), scaled down.
    `MaxSnaps` bounds the snapshot counter, and through it the number of
    changes a run can make.
  - `CommitWrite` is the `UPDATE ... FROM (VALUES ...) WHERE c.table_id =
    t.table_id`, keyed by the uuid of the new metadata, followed by the
    `updated.len() != responses.len()` check. It ends in COMMIT or in
    ROLLBACK.
  - `Isolation` selects the database's behaviour. At REPEATABLE READ a row
    changed since the read aborts the write. At READ COMMITTED the write
    goes ahead.
- `ResolveForRename` / `RenameWrite` and `ResolveForDrop` / `DropWrite`: the
  caller resolves the source ident with `table_ident_to_id`, then
  `rename_table` or `drop_table` writes by id.
  - The same-namespace rename matches on the id alone.
  - The cross-namespace rename also requires the source name.
  - A name clash with another row fails on the unique constraint.

The read paths are operators, not actions, since they change nothing:
`LoadTable` (committed rows only, `metadata_location IS NOT NULL`),
`ListTables` (by namespace, with or without staged rows) and
`GetTableMetadataById`. `RenameUnique` is the unique constraint
`unique_table_name_per_namespace` that fails a rename's UPDATE into the `_`
error arm of `rename_table`.

At the end of the module, `Atomic == INSTANCE AtomicCatalog` with the
identity mapping (`tbl` is `tbl`), and `ImplementsAtomic == Atomic!Spec`.

Every warehouse is taken to be active: warehouse status changes are `todo!()`
in the service. `TableRequirement::assert` and `TableMetadataAggregate::apply`
belong to the `iceberg` / `iceberg_ext` crates, not to this repository. They
are modelled from their documented meaning (`RequirementHolds`,
`AggregateApply`).

## Module `AtomicCatalog`

The abstract specification: the `"table"` relation alone, and one atomic
step per request. `Create` takes a fresh id and may replace only staged rows
of its name. `Commit(S)` gives every table of `S` new metadata in one step,
with the same uuid and location, every snapshot it had, and `staged` false.
`Rename` moves a live table to an identifier no other live table has.
`Drop` removes one. `Commit` is stated on the next state, so it is used only
as the target of the refinement, never run by TLC on its own.

## Module `Warehouse`

State: `wh` (the committed `warehouse` rows by id), `store` (the secrets the
secret store holds), `req` (each client's `create_warehouse` request),
`minted` (ids handed out) and `requests` (a counter bounded by
`MaxRequests`).

`create_warehouse` is one action per await, in the order of the code:

- `Begin`: `begin_write`. The authorization check and the profile
  validation come before any write; when they fail nothing changes, so
  they are left out.
- `CreateSecret` (line 121): the store keeps the credential under a fresh
  handle, or fails and `?` returns.
- `CreateWarehouseProfile` (line 126): the INSERT. It waits while another
  request holds an uncommitted row with the same `(project_id,
  warehouse_name)` (`InFlight`), fails on a committed one (`Taken`), and
  otherwise inserts under a fresh id, visible to others only at the commit.
- `Commit` (line 135): the row becomes visible, or the commit fails.
- `Cancel`: the task is dropped at an await and the transaction rolls back.
  Dropped while `create_secret` is in flight, the store may still have
  created the secret.
- `DeleteWarehouse`: `delete_warehouse` as one atomic transaction. The
  secret is left in the store. Spec section 3 calls the delete soft: the
  row is marked deleted rather than removed. The database side is not in
  this repository. For the properties here a soft-deleted row counts as
  gone: it is no longer live, and it still does not release its secret.

The database side of `create_warehouse_profile` and `delete_warehouse` is
not in this repository, so `InFlight`, `Taken` and `Cancel` are modelled
from the spec (its schema and section 5). A failed commit and a later
delete of the same warehouse give the same state, so `DeleteWarehouse`
adds no state of its own in the `warehouse` run, though it fires there.

## Module `LocationLookup`

A location is a sequence of characters. `LikePrefix(path, loc)` is
`$path LIKE loc || '%'`, read as Postgres reads the pattern:

- `_` matches any one character;
- `%` matches any run of characters;
- `\\`, the default escape character, makes the character after it
  literal. That includes the appended `%` when the location ends in `\\`.

`Like` is written without recursion, so that it can be proved about:

- `Escaped` counts the escape characters that precede a position;
- `Tokens` are the positions of the pattern that are not escape characters
  in use;
- a match is a split `e` of the path among the tokens (`SplitFits`), with
  `e[i]` the position where token `i`'s part ends.

`MC_LocationLookup` checks it against `LikeRef`, a recursive reference
matcher that scans the pattern as Postgres does. The check is the assumption
`LikeAgreesWithReference`, over every location of up to two characters and
every path of up to three, over the alphabet `{a, b, _, %, \\}`.

`LocationMatches` adds the `LENGTH(location) <= len(path)` guard, and
`fetch_one` returns any one of the matches. The `include_staged` check that
follows `fetch_one` (lines 476-483) is not modelled. It only turns a staged
row that was found into an error, and it runs after the choice that the
properties are about. `SequencesAssumption` says that locations and paths
are strings. `IsPrefixOf` is `IsPrefix` of `SequencesExt`, written out with
`SubSeq`. `SequencesExt` declares RECURSIVE operators, and a module that
reaches one cannot hold a proof.

## Module `PageToken`

- The constructors (`new_present`, `new_next_token`), `Serialize` and
  `Deserialize` of both token types, translated arm by arm. The two
  `Deserialize` matches have guards that overlap (`Some(s) if !s.is_empty()`
  also fits `"null"`), and Rust takes the first arm that fits. They are
  written as `IF ... ELSE IF` chains in the code's order. A TLA+ `CASE`
  with two true guards has an unspecified value: TLC would take the first
  arm, but the provers could not.
- Exchanges on a set of connections `Conns`, each going through the same
  four steps:
  1. a client sends a query page token;
  2. the server parses it;
  3. the server responds with a next-page token built by a constructor;
  4. the client parses the response.

## Runs

| Run | Checks | Result |
|---|---|---|
| `catalog_core` (`MC_Catalog.cfg`) | `TypeOK`, `MetadataMatchesRow`, `NoLostSnapshot`, `ReadPathsAgree`, `CommittedNotReplaced` at REPEATABLE READ | pass, 767,238 states |
| `catalog_refinement` (`MC_Catalog_Refinement.cfg`) | `ImplementsAtomic` at REPEATABLE READ | pass |
| `warehouse` (`MC_Warehouse.cfg`) | `CreateReturns` | pass, 20,310 states |
| `warehouse_orphan_secret` | `NoOrphanSecret` | violated: a request with a credential is cancelled while `create_secret` runs; the store keeps a secret no warehouse or request refers to |
| `catalog_read_committed` | `NoLostSnapshot` at READ COMMITTED | violated: two commits read the same metadata; the second write drops the first's snapshot |
| `catalog_stale_id` | `ByIdWriteTargetsSource` | violated: two renames of `(ns1, n1)` in one namespace resolve its id; one renames it to `n2`; the other's stale `UPDATE ... WHERE table_id = id` renames the table, now `n2`, back to `n1` |
| `location_lookup` | `LookupComplete`, `OwnerUnlessWildcard` | pass, 28,824 states |
| `location_wildcard` | `LookupReturnsOwner` | violated: location `a\\` matches path `a%`, because the backslash escapes the appended `%` (`a_` and `a%` fail it the same way) |
| `location_nested` | `LookupUnambiguous` | violated: two tables created at the same location `a` both match path `a` |
| `location_escape` | `LookupFindsOwner` | violated: the table at location `a\\` is not found at its own path `a\\` |
| `page_token` | `TypeOK`, `PageTokenRoundTrip` | pass |
| `next_page_token_roundtrip` | `NextPageTokenRoundTrip` | violated: `Finished` is sent as `"null"` and read back as `NextToken("null")` |

The tests of `table.rs` open their transactions with `pool.begin()`, which
gives Postgres's default READ COMMITTED. That is why the READ COMMITTED run
is the one that describes the code as deployed. The REPEATABLE READ run shows
what the code guarantees when it runs under snapshot isolation.

Properties that deserve a note:

- `NoLostSnapshot` relates the metadata to the history of successful commits.
  Breaking it takes two clients and four steps.
- `CommittedNotReplaced` is an action property. In no step may a committed
  table lose its id or location, or be replaced under its name.
- `ByIdWriteTargetsSource` is an action property. It relates the write to the
  state at the time the id was resolved.
- `ReadPathsAgree`: for every identifier, `table_ident_to_id`, `load_table`,
  `list_tables` and `get_table_metadata_by_id` return the same table, all
  without staged rows.
- `ImplementsAtomic`: the catalog refines `AtomicCatalog`. Without the
  REPEATABLE READ abort in `NoConcurrentWrite`, a commit's write lands on
  metadata it never read and is no step of the abstract `Commit`.
- `LookupComplete`: the query finds every table whose location is a prefix
  of the path, unless the location holds a backslash. `LookupFindsOwner` is
  the same property without that exception, and run `location_escape`
  shows it false.
- `OwnerUnlessWildcard`: every row the location query returns owns the path,
  unless its location holds `_`, `%` or `\\`. It bounds the wildcard
  finding: LIKE's special characters are the only way the lookup returns a
  table that does not own the path.
- `CreateReturns` is a liveness property: every request returns.
- `NoOrphanSecret` states what the spec's secret indirection implies: every
  stored secret belongs to a warehouse or a request in flight.

### Bounds

`MC_Catalog` uses:

- 2 clients;
- 3 table ids (one more than needed to drop and recreate a name);
- 2 namespaces and 1 name, so that every create conflicts or renames across
  namespaces. Run `catalog_stale_id` uses 2 names and 2 ids instead, with one
  snapshot and one change per commit. A rename within one namespace changes
  a row only when the names differ. Ids are never reused, so a dropped
  table's id cannot name a recreated one;
- 2 locations;
- 2 snapshots;
- at most 2 changes per commit, so a commit can name one table twice or two
  tables.

The requirements sample each kind. The updates are AddSnapshot, AssignUuid of
one uuid and SetLocation of one location. Clients are a symmetry set: they
run the same code. The lookup runs use the 4 locations `a`, `a_`, `a%` and `a\\`: a prefix of
each of the others, and one location for each special character of LIKE.
They use every path of one or two characters over `{a, b, _, %, \\}`.
Two characters are enough for each way a location of two characters can be
matched: the match itself, a wildcard standing for `b`, and a literal `%`
after an escape.

`MC_Warehouse` uses 2 clients, 1 project, 2 names, 3 warehouse ids,
3 secrets and at most 3 requests: enough for two requests on one name, a
third after a delete, and a secret per request. There is no symmetry set,
because symmetry is unsound with a liveness property.

`CHECK_DEADLOCK FALSE` is set because the catalog can always accept another
request. The only stops are the ends of the model's bounds: the ids are all
minted, or the snapshot counter is at its bound.

### Fairness

`Warehouse` assumes weak fairness of each request's server steps:
`CreateSecret`, `CreateWarehouseProfile` and `Commit`, per client. Spec
section 5 says the runtime schedules tasks fairly, so a task whose await can
complete does complete it. New requests, cancellation and deletes are not
assumed to happen. `MaxRequests` bounds the requests, so a waiting insert
cannot be starved forever by a stream of new ones. `CreateReturns` needs the
insert to fail on a committed name rather than wait. The catalog model has
no liveness property: its handlers never wait.

## Proofs (`CatalogProofs`, checked by `tlapm`)

- `TypeCorrect`: `Spec => []TypeOK`. There is one lemma per action, and a
  lemma on `ApplyUpdate` that shows it keeps the uuid and the location.
- `MetadataMatchesRowInvariant`: `Spec => []MetadataMatchesRow`. The
  invariant is not inductive on its own, because `CommitWrite` installs
  metadata computed earlier. The strengthening `IInv` adds two facts:
  - `LiveMinted`: every live id was minted.
  - `PendingConsistent`: every change in flight has a minted id, and new
    metadata with that id as uuid and with the location of the row it read.
    The row under that id, if any, still has that location. This holds
    because ids are never reused (`u \notin minted`) and no operation
    changes a row's location in place.

  `IInv` was first checked with TLC on the `catalog_core` instance. The
  lemma `PendingStable` gives the preservation argument shared by all
  actions.

These results use only `ConstantsAssumption`, and they hold at either
isolation level.

- The lemma `IdentsUniqueInvariant`: `Spec => []IdentsUnique`, from
  `TypeOK` and one lemma per writing action. No run checks `IdentsUnique`,
  which restates the database's unique constraint. The proofs below rest
  on it. `CreateTable` replaces every row of its name,
  and `RenameWrite` checks `RenameUnique`.
- `ReadPathsAgreeInvariant`: `Spec => []ReadPathsAgree`. It follows
  from `IdentsUnique` alone: a name has at most one live row, so
  `table_ident_to_id`, `load_table`, `list_tables` and
  `get_table_metadata_by_id` all find that row or none.

## Refinement proof (`CatalogRefinementProofs`)

`Refinement`: at `Isolation = "repeatable_read"`, `Spec => ImplementsAtomic`.
`Init` maps to `Atomic!Init`. Every step is a step of `AtomicCatalog` or
stutters on `tbl`:

- `CreateTable` is `Create`;
- `CommitWrite` is `Commit` of the written tables;
- `RenameWrite` is `Rename`, and `DropWrite` is `Drop`;
- the read steps stutter.

The commit step needs an invariant `RInv`: `IInv` and `PendingGrows`, which
says the new metadata of every change in flight keeps the snapshots of the
row it read. `NoConcurrentWrite` makes sure the row is still the one read,
so the write keeps every snapshot. Lemmas show that `ApplyUpdate` only adds
snapshots and that the steps of other clients leave commits in flight alone.

## Warehouse proofs (`WarehouseProofs`)

- `TypeCorrect`: `Spec => []TypeOK`.

## Snapshot proofs (`SnapshotProofs`)

- `NoLostSnapshotInvariant`: at `Isolation = "repeatable_read"`,
  `Spec => []NoLostSnapshot`. The property is not inductive, because the
  bulk `UPDATE` of `commit_table_transaction` installs metadata computed
  at an earlier read. `SInv` strengthens it with three facts:
  - `RInv`, the invariant of the refinement proof: the row is still the
    one read, and its snapshots were kept;
  - `AddedInMeta`: the snapshot a change in flight adds is in its new
    metadata;
  - `CommittedMinted`: an id that was never minted has no history.

  The step that needs most work is the write. The check
  `updated.len() != responses.len()` fails the commit when two changes name
  one table or a change names a row that is gone. The lemma `DistinctImage`
  reads it as: the ids of the changes are distinct and all live. So each
  table written takes the metadata of the only change that names it. At
  READ COMMITTED the property is false (run `catalog_read_committed`), so
  the hypothesis on the isolation level is needed.
- `CommittedNotReplacedHolds`: `Spec => CommittedNotReplaced`, the action
  property, at either isolation level. It is proved from `IInv` and
  `IdentsUnique`. `DropWrite` is the case that needs `IdentsUnique`: the
  dropped row was the only one of its name.

## Page token proofs (`PageTokenProofs`)

Only `StringsAssumption` is assumed: `""` and `"null"` are sample strings,
and `None` is not a string.

- `TypeCorrect`: `Spec => []TypeOK`.
- `PageTokenRoundTripInvariant`: `Spec => []PageTokenRoundTrip`, with the
  type invariant as strengthening. It rests on the lemma
  `PageTokenSerdeInverse`: `Deserialize` inverts `Serialize` on every
  `PageToken`.
- `NextTokenRoundTripExactly`: a token built by `new_next_token(str)`
  survives the wire if and only if `str # ""`. This states the bug found by
  run `next_page_token_roundtrip` for every set of strings. `Finished` is
  written as `"null"` and read back as `NextToken("null")`.

## Location lookup proofs (`LocationLookupProofs`)

These proofs hold for every alphabet, every set of locations and paths, and
every value of the catalog's constants. They assume `SequencesAssumption`
and use `TypeCorrect` of `CatalogProofs`. The lookup reads only the live
rows' locations, so the property follows from the type invariant.

- `LookupCompleteInvariant`: `Spec => []LookupComplete`. The lemma
  `PrefixMatches` gives the witness split. Each character of the location
  takes the same character of the path, and the appended `%` takes the
  rest. Three lemmas let the provers evaluate `Like` on a pattern without
  a backslash:
  - `NoEscRun`: no position is escaped;
  - `PlainTokens`: every position is a token;
  - `PlainStart`: the part before token `i` ends where token `i - 1`'s
    part ends. It uses `IntervalMax`.

`OwnerUnlessWildcard` is only model-checked. Its proof would need an
induction over the positions of the split. The library states that
induction with an operator parameter, which the installed provers cannot
instantiate.

Only model-checked:

- `CreateReturns`: liveness and `ENABLED` are beyond TLAPS.
- The properties of the violation runs, which are false by design.

## Not modelled

- In the warehouse service:
  - `rename_warehouse` passes no new name to the catalog;
  - `list_projects`, `list_warehouses` and `get_warehouse` only read;
  - `activate_warehouse`, `deactivate_warehouse`, `update_storage` and
    `update_credential` are `todo!()`.
- The ident types, router and service traits hold no state.
- Postgres row locks and deadlocks. A write is one atomic step that commits
  or rolls back.
- Views.
