# TLA+ models of the start-os backup subsystem

This directory holds TLA+ models of the backend code in `src/backend/src/`.
Each model is checked with TLC. The modules model the code, not `spec.md`. The
one exception is `helpers::AtomicFile`, which is not under `src/`, so it is
modelled from spec 4.1. Each run either checks a property that holds, or shows
a property that the code breaks, with the spec's wording quoted.

## 1. Inventory

### Components

| Component | Source | State it keeps | Operations that change state |
|---|---|---|---|
| Backup Orchestrator | `backup/mod.rs` `BackupActions` | none of its own; it writes the backup directory (`<id>.s9pk`, `metadata.cbor`, the data the package's procedure writes into the backup volume), the package's installed entry in patch-db (`marketplace_url`) and the package's volumes | `create`, `restore` (`validate` only checks) |
| Durable Write Primitive | `helpers::AtomicFile` (not in `src/`) | a temporary file beside the target | `new`, write, `save` (fsync and rename), drop (remove temp) |
| Metadata Envelope | `BackupMetadata` in `backup/mod.rs` | the CBOR file | serde encode/decode |
| Notification Ledger | `notifications.rs` | `NotificationManager.cache` (a mutex-guarded map from (package, level, title) to the last-issued second), the `notifications` SQL table, patch-db `server_info.unread_notification_count` | `notify` (and the `create` RPC command, which calls it with interval `None`), `list`, `delete`, `delete_before` |
| Authentication | `auth.rs` | `session` table, `account` password (secret store, `ctx.account` RwLock), patch-db `server_info.password_hash` | `login`, `logout`, `session kill`, `reset_password` |
| Migration v0.3.3 | `version/v0_3_3.rs` | the patch-db `ui` document | `up`, `down` |
| CLI / display | all files | none | command declarations, table printing, password prompts |

### How they interact

A bulk backup or restore driver (`backup_bulk.rs` and `restore.rs`, not in
`src/`) calls `BackupActions::create` or `restore` once per package. The
driver must not run two of these calls on the same package at once (spec
section 5). The orchestrator calls several collaborators:

- the sandboxed procedure runtime (`PackageProcedure::execute`);
- the secret store (`Key::for_package`);
- patch-db (reads the installed entry and puts `marketplace_url`);
- the dependency module (`reconfigure_dependents_with_live_pointers`).

It writes the archive copy and the envelope through `AtomicFile`. The drivers
then report the outcome through `NotificationManager::notify`. Many tasks call
`notify` at the same time, each awaiting the debounce mutex, patch-db and
Postgres. `list(None)` marks everything as read by putting 0 into the counter
that `notify` increments.

### What is hard

- **Concurrency.** `notify` reads the counter with `get_mut`, then inserts
  the row, then saves the counter. Nothing locks across these three steps.
  Other `notify` calls and `list(None)` can run between them.
- **Partial failure.** Every `?` in `create`, `restore` and `notify` returns
  early, and nothing already done is rolled back. This covers the package's
  procedure output, a saved s9pk, the debounce stamp, an inserted row and a
  url already put.
- **Crash.** The server can stop between any two awaits. `AtomicFile` is what
  keeps the files whole. The debounce cache is lost on a restart.
- **Three copies of the password.** `reset_password` changes `ctx.account`
  in memory, then saves it to the secret store, then puts the hash into
  patch-db. It holds the account lock throughout and rolls nothing back.
  `login` reads only the secret store.
- **Ordering.** `restore` runs the package's procedure before it checks that
  an envelope exists. `create` takes the timestamp after the archive copy.

### Properties that make each component correct

- **Orchestrator.**
  - An Ok `create` leaves a complete backup of itself.
  - `restore` writes only the envelope's url, and never writes when the
    envelope is missing.
  - An Ok `restore` has applied the url and reconfigured dependents exactly
    once, with the restored entry.
  - The envelope's timestamp is the instant the procedure succeeded.
- **Ledger.**
  - The counter equals the number of rows inserted since the last reset
    (spec invariant 4), and never exceeds the number of rows ever inserted.
  - Debounce: admissions of a key come at least the interval apart.
  - A suppressed call is covered by a row that really exists.
- **Auth.**
  - An Ok `reset_password` has set the new password in the secret store,
    `ctx.account` and patch-db.
  - A `reset_password` is all or nothing: login and the next reset accept
    the password the caller was last told is current (it is not).
- **Durable write.**
  - Readers see a whole content only, and `save()` returns Ok only for a
    durable content.
- **Migration.**
  - `up` keeps every host URL, slash-terminated, and selects a known host.
  - `up` carries the selected marketplace over (it does not).
  - A `down` followed by an `up` gives back every named host.
  - `down` keeps the selection (it loses it).

The full list of hazards, each at its source line, is `hazards` in
`PROJECT.json`.

## 2. Plan

The order runs from most to least important behaviour:

1. **`Backup`**: create and restore with step failures and a crash. AtomicFile
   semantics are built in. *Done.*
2. **`Notifications`**: concurrent `notify`, `list`, `delete`, debounce,
   restart. *Done.*
3. **`Auth`**: sessions and `reset_password`, with the RwLock, the secret-store
   save and the patch-db put as separate steps, plus crashes. *Done.*
4. **`MigrationV033`**: `up` and `down` as pure operators over small `ui`
   documents. *Done.*
5. **`AtomicFileSpec`** plus a refinement. This is an abstract module for the
   durable write: the target is either old or new. A detailed module has
   temp-file, fsync and rename steps. The detailed module is shown to implement
   the abstract one with `INSTANCE ... WITH`. *Done.* `Backup` keeps using
   the abstract behaviour, which the refinement justifies.
6. **`BackupLedger`**: `Backup` composed with `Notifications`. This waits
   until the bulk driver's reporting is in view. It is not in `src/`, so
   spec_modelled.

Abstract specifications worth stating:

- the ledger as a sequence of rows with a read-marker, which the
  counter-based implementation should refine (it does not, see
  `notif_counter_race`);
- the durable write (step 5).

## 3. Modules

### `Backup.tla` (with `MC_Backup.tla`)

The model covers one package. The caller serialises operations, so there is
one `pc`. The table maps each variable to the code:

| Variable | Code |
|---|---|
| `backupData` | what the package's create procedure wrote into the backup volume |
| `s9pk` | `<id>.s9pk` |
| `metadata` | `metadata.cbor` |
| `liveData` | the package's own volumes |
| `dbUrl` | `installed.marketplace_url` |
| `version` | the installed version |
| `op` | the locals of the call in flight |
| `ret` | ghost: what the last call returned |
| `reconf` | ghost: the calls to `reconfigure_dependents_with_live_pointers` |

Contents are abstracted to the generation, meaning the create attempt that
wrote them. Each `.await?` is an action, with its error path as a disjunct:

| Actions | Lines of `backup/mod.rs` |
|---|---|
| `StartCreate` | 106-111 |
| `CreateProc` | 112-124 |
| `CreateKeys` | 125-135 |
| `CreateUrl` | 136-147 |
| `CreateCopy` | 148-168 |
| `CreateSaveS9pk` | 169 |
| `CreateMeta` | 170-182 |
| `CreateSaveMeta` | 183-190 |
| `StartRestore`, `RestoreProc` | 202-216 |
| `RestoreMeta` | 217-225 |
| `RestorePut` | 226-236 |
| `RestoreEntry` | 238-247 |
| `RestoreReconf` | 249-253 |

A procedure that fails or is interrupted may leave its volume `Torn`. AtomicFile
targets change only at `save`.

The environment has three actions:

- `Install` changes the version and marketplace between operations;
- `Tick` advances `Utc::now()`;
- `Crash` ends the call in flight.

`network_keys`/`tor_keys` are left out of the envelope, because `restore`
never reads them. The restore driver outside `src/` re-imports keys.

### `Notifications.tla` (with `MC_Notifications.tla`)

Each caller of `Procs` has its own `pc`. The table maps each variable to the
code:

| Variable | Code |
|---|---|
| `cache` | `NotificationManager.cache` |
| `rows` | the table |
| `nextId` | the serial id |
| `count` | the patch-db counter |
| `lockHolder` | the Write lock `list(None)` takes on the counter |
| `req` | a call's locals, including the counter value it read |
| `sinceReset` | ghost |
| `log` | ghost: every row ever inserted |
| `suppressed` | ghost: the calls turned away |

The actions match the code as follows:

| Action | Code |
|---|---|
| `Notify` | `should_notify` (atomic under the mutex) |
| `ReadCount` | `get_mut` |
| `Insert` | the INSERT |
| `SaveCount` | `*count += 1; save` |
| `ListLock`, `ListSelect`, `ListPut` | `list(None)` |
| `ListBefore` | `list(Some(b))`, read-only |
| `Delete`, `DeleteBefore` | `delete`, `delete_before` |
| `Restart` | the process restarts: empty cache, calls lost, lock dropped |
| `Tick` | time passes |

A key stands for a (package_id, level, title) triple. The constant `LevelOf`
gives each key's level. A row carries the text of its level column, which is
`DisplayLevel` of that level. `ParseLevel` is `FromStr`. `ListSelect` returns
`ParseDbField` and releases the lock without the put when a row's level does
not parse (`RowsParse`). The `LIMIT` is taken to cover the table, so the
model does not say which rows a `list` returns. `list(None)` puts the counter
to 0 even when more rows were unread than it returned; this is recorded as a
hazard with no property. Message and
payload are left out; the data column is always `serde_json` output. The model assumes that patch-db's `get_mut`
takes no lock. The code never asks for one, and `list` locks explicitly. So a
Write lock held by `list` does not block `notify`.

### `MigrationV033.tla` (with `MC_MigrationV033.tla`)

`up` and `down` each call `get_mut` once, rewrite the document in memory and
`save` it once, so each is a single step: `MigrateUp` and `MigrateDown`. Each
step applies a pure operator (`Up`, `Down`) to the document. A document is a
record of `selected-id`, `selected-url`, `known-hosts` (key to
`[name, url]`, each field possibly absent), and whether `pkg-order` and
`auto-check-updates` are present. A URL is `[base, slash]`. That is all that
`ensure_trailing_slashes` and `MarketPlaceUrls::url` read or change. The
new uuids of `down` are `<<"uuid", url>>`, one per host. `Init` enumerates
every small v0.3.2 document: hosts are objects under ids, and selected-id is
missing, valid or dangling. It also enumerates every small v0.3.3 document:
hosts are `{}` or `{name}` under slash-terminated URLs.
`DEFAULT_MARKETPLACE` is outside `src/`. It is a constant, set to the registry
URL without its slash, which is its value in the crate.

### `Auth.tla` (with `MC_Auth.tla`)

Each RPC call is a process with its own `pc`. `login` is three steps:
decrypt, check against the secret store, and INSERT the session.
`reset_password` is five steps: decrypt, take `ctx.account.write()`, verify
and `set_password`, `account.save`, and the patch-db put. `logout`,
`session kill` and `session list` are one SQL statement each, so each is one
step. Every await may fail. `Restart` loses the calls in flight, drops the
guard and reloads `ctx.account` from the secret store.

| Variable | Code |
|---|---|
| `dbPw` | `account.password` in the secret store, which `login` checks |
| `memPw` | `ctx.account.password`, which `reset_password` checks and sets |
| `pdbHash` | patch-db `server_info.password_hash` |
| `lock` | the holder of `ctx.account.write()` |
| `sessions` | the `session` table: none, active, or logged out |
| `known` | ghost: the password of the last Ok `reset_password` |

The password arguments are `PasswordType`s. A `String` always decrypts. An
`EncryptedWire` decrypts only when it was sealed for the key in `ctx`
(`Decrypts`). An omitted argument goes through `unwrap_or_default`, so it is
`DefaultPassword`, the empty string. This holds for the new password of
`reset_password` too: the model reaches states where a reset with no new
password has set the account password to the empty string.

An argon2 hash is the password it encodes. `HasLoggedOutSessions::new` is in
the middleware, not in `src/`. It is modelled as one UPDATE that sets
`logged_out`.

### `AtomicFileSpec.tla`, `AtomicFile.tla` (with `MC_AtomicFile.tla`)

`AtomicFileSpec` is what the durable write promises for one path. A reader
sees no file or a whole content. A content is published, then persisted, and
`save()` acknowledges it only when it is durable. A crash restores the
durable content.

`AtomicFile` is the algorithm of spec 4.1, over inodes that have a cached
and a durable content:

- create or truncate the temporary file;
- write two chunks;
- `sync_all`;
- rename;
- directory sync;
- Ok.

A failure drops the temporary name. A crash keeps only synced data and
directory entries. `Abstract == INSTANCE AtomicFileSpec WITH ...` maps the
target to the generation whose whole content its inode holds, or to `Torn`.
`AtomicFileRefines == Abstract!Spec` is checked as a property. The module
follows the spec because `helpers::AtomicFile` is not under `src/`.

## 4. Runs

| Run | Expect | What it shows |
|---|---|---|
| `backup_safety` | pass | See the three properties below. |
| `backup_timestamp` | violation | `MetadataTimestampIsProcSuccess`: the timestamp is taken at line 170, after the copy, so one tick during the copy breaks spec invariant 2. |
| `migration_safety` | pass | `UpKeepsHostsAndSelectsKnown`, and `DownUpKeepsNamedHosts` (down then up gives back every named host), from every small document. |
| `migration_up_selection` | violation | `UpCarriesSelection`: the lookup at line 35 yields the host object, and line 30 matches it against a string. The selected host is dropped for the default. |
| `migration_down_selection` | violation | `DownKeepsSelection`: line 79 compares the host's name with the selected URL, so no `selected-id` is written. |
| `auth_safety` | pass | `OkResetInstallsNewPassword`, with two callers, failures and a restart. |
| `auth_partial_reset` | violation | `ResetIsAllOrNothing`: `set_password` (line 390) changes `ctx.account`, then `account.save` fails. `reset_password` returns Err, but login and reset now accept different passwords. A failed put after a good save (line 395) also breaks it. |
| `atomicfile_refinement` | pass | `AtomicFileRefines`: three writes, two crashes, a failure at every step. |
| `notif_safety` | pass | `TypeOK`, `CounterNeverOverstates`, `DebounceSpacing`, with two callers, errors and a restart. |
| `notif_counter_race` | violation | `CounterMatchesInserted` (spec invariant 4). No errors are enabled. A `notify` reads 0 and inserts, `list(None)` resets, then the `notify` saves 1. |
| `notif_retry_silenced` | violation | `SuppressionJustified`: the counter read fails after the debounce stamp, and the retry within 2s is suppressed with no row. |

`backup_safety` checks these three properties:

- **`CreateOkIsComplete`**: an Ok create leaves its own data, s9pk and
  envelope, and the returned timestamp.
- **`RestoreWritesOnlyMetadataUrl`**: the installed url is written only from
  an envelope on disk (spec section 8's restore precondition).
- **`RestoreOkApplied`**: an Ok restore leaves url = the envelope's url (None
  included), and reconfigure was called once with that entry.

Each property of a passing run has a mutant in `PROJECT.json`: a plausible bug
next to the definition it mutates, which TLC must catch. The mutants are:

- a dropped error from `save()`;
- a missing envelope decoded to defaults;
- the url put only when `Some`;
- a `None` admission that does not restamp the cache;
- an INSERT error that is ignored;
- a counter that is decremented;
- `up` keying hosts by the URL without its slash;
- `down` reading the URL from the host object instead of the key;
- a write guard that is not exclusive (caught by `OkResetInstallsNewPassword`);
- `save()` renaming without syncing the temporary file (caught by the
  refinement).

`TypeOK` of `Backup` is not in a run: no plausible code bug produces an
ill-typed state in this abstraction.

### Bounds

**`MC_Backup.cfg`:**

- two urls plus None, which is enough for the url to change between backup and
  restore and for None to matter;
- two versions;
- three create attempts, which is enough for a good backup, a failed one after
  it, and another;
- two seconds, which lets the clock tick inside a create;
- one crash;
- symmetry on urls.

It reaches about 490k states in about 15s. The violation cfgs are smaller.

**`MC_Notifications.cfg`:**

- two callers, which is the smallest number for a race;
- one key, because debounce is per key and keys never interact;
- interval 2;
- clock 0..2, which is enough for a stamp at 0, a None call at 1 and a
  Some(2) call at 2;
- three notify calls;
- one restart;
- errors on;
- symmetry on callers.

It reaches about 1.1M states in about 35s.

**`MC_MigrationV033.cfg`:**

- two ids;
- two URL texts (the registry and one other), each with and without a slash;
- two names.

This covers each rule:

- a host with and without a URL or name;
- a URL already slash-terminated and not;
- a host URL equal to the registry (a key collision);
- a selection that is valid, dangling or missing.

A v0.3.3 document can be migrated down and then up again. This is how
`DownUpKeepsNamedHosts` compares the final document with the input.

**`MC_Auth.cfg`:**

- two callers, the fewest for two resets to contend for the lock;
- two passwords plus `DefaultPassword`, so two resets can install different
  passwords and a reset can install the empty one;
- four session ids, one per possible login, so a fresh token is always
  available;
- four calls;
- one restart;
- failures on;
- symmetry over callers, tokens and passwords.

It reaches about 120k states in about 55s. `MC_Auth_fail.cfg` has the same
bounds.

**`MC_AtomicFile.cfg`:** three writes and two crashes. A crash may keep the
temporary name that `File::create` added, because nothing syncs the directory
after it. So a later write can begin on a temporary file that a crashed write
left behind, and a second crash can strike it again. It reaches about 2k
states.

### Fairness

No run states liveness, so no fairness is assumed.

- `create`, `restore` and `notify` are straight lines of awaits. Whether one
  returns depends on the runtime and the external procedures, not on this
  code.
- `reset_password`'s guard is an RAII `RwLockWriteGuard`, which is dropped on
  every return, and tokio's `RwLock` is FIFO. With a fairness assumption on
  each step, "every reset eventually returns" would hold whatever the code
  does, so it is not stated.

## 5. Not modelled

- **`BackupActions::validate`** checks procedures and changes no state.
- **The report structs** are built by the bulk driver.
- **serde/CBOR encoding** is abstracted to "decodes or fails".
- **The `data` column** is always `serde_json::to_string` output, so its
  parse in `list` cannot fail on rows `notify` wrote.
- **The rows `list` returns.** Only its effect on the counter and the lock is
  modelled.
- **`PasswordType::from_str`** is only used to parse CLI arguments. It tries
  JSON first, so a password typed as a JSON string literal loses its quotes.
  This is recorded as a hazard.
- **Postgres id allocation.** A serial's `nextval` and the commit are one step
  here. With concurrent inserts, ids can become visible out of order. This is
  not modelled.
- **`get_pubkey`, `cli_*` and the password prompts** change no state.
- **`SetPasswordReceipt`** builds a lock receipt that nothing in
  `reset_password` uses.
- **Callers of create and restore.** Two concurrent operations on one
  package are not modelled. Spec 5 makes serialising them the callers' job,
  and the callers are not in `src/`.
- **`pkg-order` contents** are the installed package ids. Only their presence
  is modelled.
- **CLI prompts and table printing** are I/O only.

**What remains of the four source files.** The lines no definition maps are:

- imports;
- the `#[test]` functions;
- `Debug` and `Display` impls for error text;
- the report structs and `BackupMetadata`'s field list;
- `BackupActions::validate`;
- the command declarations;
- `cli_login` and `cli_reset_password`;
- session-table printing;
- `SetPasswordReceipt`;
- `get_pubkey`.

None of them changes the state of the system, so no further action can be
modelled from them. The envelope stays "partly" modelled because its
encoding is serde's CBOR and only "decodes or fails" is modelled.
