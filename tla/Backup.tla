------------------------------- MODULE Backup -------------------------------
(***************************************************************************)
(* BackupActions::create and BackupActions::restore of                     *)
(* src/backend/src/backup/mod.rs, for one package.  The caller serialises  *)
(* create and restore per package (spec section 5), so one operation is in *)
(* flight at a time; each await that can fail or be interrupted by a crash *)
(* is a step of its own:                                                   *)
(*   create: "idle" -StartCreate-> "c_proc" -CreateProc-> "c_keys"         *)
(*           -CreateKeys-> "c_url" -CreateUrl-> "c_copy" -CreateCopy->     *)
(*           "c_s9pk" -CreateSaveS9pk-> "c_meta" -CreateMeta-> "c_save"    *)
(*           -CreateSaveMeta-> "idle"                                      *)
(*   restore: "idle" -StartRestore-> "r_proc" -RestoreProc-> "r_meta"      *)
(*           -RestoreMeta-> "r_put" -RestorePut-> "r_entry" -RestoreEntry->*)
(*           "r_reconf" -RestoreReconf-> "idle"                            *)
(* Every step may instead fail and return Err to the caller ("idle").      *)
(*                                                                         *)
(* The files of the backup directory are written through AtomicFile       *)
(* (helpers crate, modelled from spec 4.1): the temporary file is renamed  *)
(* onto the target by save(), so the target holds the old or the new       *)
(* content and a crash before save() leaves it untouched.  The data the    *)
(* package's own create procedure writes into the backup volume is not     *)
(* written through AtomicFile: a procedure that fails or is interrupted    *)
(* may leave it Torn.  Contents are abstracted to the create attempt       *)
(* (generation) that wrote them; package data of the installed package is *)
(* generation 0.                                                           *)
(***************************************************************************)
EXTENDS Naturals, Sequences

CONSTANTS
    Urls,        \* marketplace URLs, as model values
    NoUrl,       \* marketplace_url = None
    Versions,    \* package versions
    NoFile,      \* a path with no file
    Torn,        \* content left half-written
    MaxGen,      \* bound: create attempts
    MaxTime,     \* bound: seconds on the clock
    MaxCrash     \* bound: crashes of the server

UrlOpt == Urls \cup {NoUrl}
Gens == 1..MaxGen

\* What BackupMetadata holds (the ghost field procAt is the second the
\* create procedure reported success); network_keys / tor_keys are copied
\* from the secret store and left out, restore never reads them.
Meta == [gen : Gens, ts : 0..MaxTime, url : UrlOpt, procAt : 0..MaxTime]
S9pk == [gen : Gens, ver : Versions]

VARIABLES
    pc,          \* where the operation in flight is
    op,          \* its locals: generation, procedure time, url, timestamp,
                 \* metadata read, installed entry read
    backupData,  \* what the create procedure wrote to the backup volume
    s9pk,        \* <backup>/<id>/<id>.s9pk
    metadata,    \* <backup>/<id>/metadata.cbor
    liveData,    \* the installed package's volumes
    dbUrl,       \* package_data[id].installed.marketplace_url in patch-db
    version,     \* the installed version (its s9pk under PKG_ARCHIVE_DIR)
    reconf,      \* ghost: installed-entry urls passed to
                 \* reconfigure_dependents_with_live_pointers by this restore
    ret,         \* ghost: what the last operation returned
    gen,         \* create attempts so far
    clock,       \* Utc::now()
    crashes      \* crashes so far

vars == <<pc, op, backupData, s9pk, metadata, liveData, dbUrl, version, reconf,
          ret, gen, clock, crashes>>

\* Variable groups for UNCHANGED: the files, and the rest of the system.
files == <<backupData, s9pk, metadata, liveData>>
world == <<dbUrl, version, gen, clock, crashes>>

Op == [gen : 0..MaxGen, procAt : 0..MaxTime, url : UrlOpt, ts : 0..MaxTime,
       meta : Meta \cup {NoFile}, entry : UrlOpt]
NoOp == [gen |-> 0, procAt |-> 0, url |-> NoUrl, ts |-> 0, meta |-> NoFile, entry |-> NoUrl]

Ret == [kind : {"none", "create_ok", "create_err", "restore_ok", "restore_err"},
        gen : 0..MaxGen, ts : 0..MaxTime]

TypeOK ==
    /\ pc \in {"idle", "c_proc", "c_keys", "c_url", "c_copy", "c_s9pk", "c_meta",
               "c_save", "r_proc", "r_meta", "r_put", "r_entry", "r_reconf"}
    /\ op \in Op
    /\ backupData \in Gens \cup {NoFile, Torn}
    /\ s9pk \in S9pk \cup {NoFile, Torn}
    /\ metadata \in Meta \cup {NoFile, Torn}
    /\ liveData \in (0..MaxGen) \cup {NoFile, Torn}
    /\ dbUrl \in UrlOpt /\ version \in Versions
    /\ reconf \in Seq(UrlOpt)
    /\ ret \in Ret
    /\ gen \in 0..MaxGen /\ clock \in 0..MaxTime /\ crashes \in 0..MaxCrash

Init ==
    /\ pc = "idle" /\ op = NoOp
    /\ backupData = NoFile /\ s9pk = NoFile /\ metadata = NoFile
    /\ liveData = 0
    /\ dbUrl \in UrlOpt /\ version \in Versions
    /\ reconf = <<>>
    /\ ret = [kind |-> "none", gen |-> 0, ts |-> 0]
    /\ gen = 0 /\ clock = 0 /\ crashes = 0

\* Step to the next await of the operation.
Goto(l) == pc' = l /\ UNCHANGED ret

\* Return Err(_) to the caller; nothing is rolled back.
Fail(kind) ==
    /\ pc' = "idle" /\ op' = NoOp
    /\ ret' = [kind |-> kind, gen |-> op.gen, ts |-> 0]

(***************************************************************************)
(* create                                                                  *)
(***************************************************************************)

\* Lines 106-111: add the writable backup volume; create_dir_all the backup
\* directory when it is missing, which may fail.
StartCreate ==
    /\ pc = "idle" /\ gen < MaxGen
    /\ gen' = gen + 1
    /\ \/ /\ Goto("c_proc")
          /\ op' = [NoOp EXCEPT !.gen = gen']
       \/ /\ pc' = "idle" /\ op' = NoOp
          /\ ret' = [kind |-> "create_err", gen |-> gen', ts |-> 0]
    /\ UNCHANGED <<files, dbUrl, version, reconf, clock, crashes>>

\* Lines 112-124: the package's create procedure writes the backup volume.
\* On failure it may have written part of it; the error is returned with
\* kind Backup and nothing is retried.
CreateProc ==
    /\ pc = "c_proc"
    /\ \/ /\ backupData' = op.gen
          /\ op' = [op EXCEPT !.procAt = clock]
          /\ Goto("c_keys")
       \/ /\ backupData' \in {backupData, Torn}
          /\ Fail("create_err")
    /\ UNCHANGED <<world, s9pk, metadata, liveData, reconf>>

\* Lines 125-135: Key::for_package reads the keys from the secret store.
CreateKeys ==
    /\ pc = "c_keys"
    /\ \/ Goto("c_url") /\ UNCHANGED op
       \/ Fail("create_err")
    /\ UNCHANGED <<files, world, reconf>>

\* Lines 136-147: read the installed entry's marketplace_url.
CreateUrl ==
    /\ pc = "c_url"
    /\ \/ /\ op' = [op EXCEPT !.url = dbUrl]
          /\ Goto("c_copy")
       \/ Fail("create_err")
    /\ UNCHANGED <<files, world, reconf>>

\* Lines 148-168: open the installed s9pk, AtomicFile::new on the backup
\* copy and stream the archive into the temporary file.  Any failure drops
\* the AtomicFile, and with it the temporary file.
CreateCopy ==
    /\ pc = "c_copy"
    /\ \/ Goto("c_s9pk") /\ UNCHANGED op
       \/ Fail("create_err")
    /\ UNCHANGED <<files, world, reconf>>

\* A plausible bug: the error of save() is dropped and create goes on.
CreateSaveS9pkIgnoringError ==
    /\ pc = "c_s9pk"
    /\ \/ s9pk' = [gen |-> op.gen, ver |-> version]
       \/ UNCHANGED s9pk
    /\ Goto("c_meta") /\ UNCHANGED op
    /\ UNCHANGED <<world, backupData, metadata, liveData, reconf>>

\* Line 169: outfile.save() renames the copy onto <id>.s9pk.
CreateSaveS9pk ==
    /\ pc = "c_s9pk"
    /\ \/ /\ s9pk' = [gen |-> op.gen, ver |-> version]
          /\ Goto("c_meta") /\ UNCHANGED op
       \/ /\ Fail("create_err") /\ UNCHANGED s9pk
    /\ UNCHANGED <<world, backupData, metadata, liveData, reconf>>

\* Lines 170-182: timestamp = Utc::now(), AtomicFile::new on metadata.cbor
\* and write the CBOR of BackupMetadata into the temporary file.
CreateMeta ==
    /\ pc = "c_meta"
    /\ \/ /\ op' = [op EXCEPT !.ts = clock]
          /\ Goto("c_save")
       \/ Fail("create_err")
    /\ UNCHANGED <<files, world, reconf>>

\* Lines 183-189: save() renames the envelope onto metadata.cbor; create
\* returns PackageBackupInfo carrying the timestamp.
CreateSaveMeta ==
    /\ pc = "c_save"
    /\ \/ /\ metadata' = [gen |-> op.gen, ts |-> op.ts, url |-> op.url, procAt |-> op.procAt]
          /\ pc' = "idle" /\ op' = NoOp
          /\ ret' = [kind |-> "create_ok", gen |-> op.gen, ts |-> op.ts]
       \/ /\ Fail("create_err") /\ UNCHANGED metadata
    /\ UNCHANGED <<world, backupData, s9pk, liveData, reconf>>

(***************************************************************************)
(* restore                                                                 *)
(***************************************************************************)

\* Lines 202-203: the package's volumes plus the read-only backup volume.
StartRestore ==
    /\ pc = "idle"
    /\ Goto("r_proc")
    /\ op' = NoOp /\ reconf' = <<>>
    /\ UNCHANGED <<files, world>>

\* Lines 204-216: the package's restore procedure copies the backup volume
\* into its own volumes, before anything checks that metadata.cbor exists
\* (with no backup there, what it copies is nothing).  On failure it may
\* have overwritten part of them (kind Restore).
RestoreProc ==
    /\ pc = "r_proc"
    /\ \/ /\ liveData' = backupData
          /\ Goto("r_meta") /\ UNCHANGED op
       \/ /\ liveData' \in {liveData, Torn}
          /\ Fail("restore_err")
    /\ UNCHANGED <<world, backupData, s9pk, metadata, reconf>>

\* A plausible bug: a missing or undecodable envelope decodes to defaults
\* (no marketplace_url) and restore goes on.
RestoreMetaDefaulting ==
    /\ pc = "r_meta"
    /\ op' = [op EXCEPT !.meta = IF metadata \in Meta THEN metadata
                                ELSE [gen |-> 1, ts |-> 0, url |-> NoUrl, procAt |-> 0]]
    /\ Goto("r_put")
    /\ UNCHANGED <<files, world, reconf>>

\* Lines 217-225: read and decode metadata.cbor; a missing file is a
\* Filesystem error, undecodable content a Serialization error.
RestoreMeta ==
    /\ pc = "r_meta"
    /\ \/ /\ metadata \in Meta
          /\ op' = [op EXCEPT !.meta = metadata]
          /\ Goto("r_put")
       \/ Fail("restore_err")
    /\ UNCHANGED <<files, world, reconf>>

\* A plausible bug: the url is put only when the envelope has one
\* (if let Some(url) = metadata.marketplace_url).
RestorePutSomeOnly ==
    /\ pc = "r_put"
    /\ \/ /\ dbUrl' = IF op.meta.url = NoUrl THEN dbUrl ELSE op.meta.url
          /\ Goto("r_entry") /\ UNCHANGED op
       \/ /\ Fail("restore_err") /\ UNCHANGED dbUrl
    /\ UNCHANGED <<files, version, reconf, gen, clock, crashes>>

\* Lines 226-236: put the envelope's marketplace_url into the installed entry.
RestorePut ==
    /\ pc = "r_put"
    /\ \/ /\ dbUrl' = op.meta.url
          /\ Goto("r_entry") /\ UNCHANGED op
       \/ /\ Fail("restore_err") /\ UNCHANGED dbUrl
    /\ UNCHANGED <<files, version, reconf, gen, clock, crashes>>

\* Lines 238-247: read the installed entry again, after the put.
RestoreEntry ==
    /\ pc = "r_entry"
    /\ \/ /\ op' = [op EXCEPT !.entry = dbUrl]
          /\ Goto("r_reconf")
       \/ Fail("restore_err")
    /\ UNCHANGED <<files, world, reconf>>

\* Lines 249-252: ConfigReceipts::new, then one call of
\* reconfigure_dependents_with_live_pointers with the entry; its error is
\* the restore's error, with the package's data and url already restored.
RestoreReconf ==
    /\ pc = "r_reconf"
    /\ \/ /\ Fail("restore_err") /\ UNCHANGED reconf
       \/ /\ reconf' = Append(reconf, op.entry)
          /\ \/ Fail("restore_err")
             \/ /\ pc' = "idle" /\ op' = NoOp
                /\ ret' = [kind |-> "restore_ok", gen |-> op.meta.gen, ts |-> op.meta.ts]
    /\ UNCHANGED <<files, world>>

(***************************************************************************)
(* Environment                                                             *)
(***************************************************************************)

\* Between operations the package is installed or updated: a new version
\* and the marketplace it came from.
Install ==
    /\ pc = "idle"
    /\ \E v \in Versions, u \in UrlOpt : version' = v /\ dbUrl' = u
    /\ UNCHANGED <<files, pc, op, reconf, ret, gen, clock, crashes>>

Tick ==
    /\ clock < MaxTime
    /\ clock' = clock + 1
    /\ UNCHANGED <<files, pc, op, dbUrl, version, reconf, ret, gen, crashes>>

\* The server crashes and restarts: the operation in flight never returns;
\* a procedure it was running may have written part of its volume; a
\* pending AtomicFile leaves its target as it was.
Crash ==
    /\ crashes < MaxCrash
    /\ crashes' = crashes + 1
    /\ pc' = "idle" /\ op' = NoOp
    /\ backupData' \in IF pc = "c_proc" THEN {backupData, Torn} ELSE {backupData}
    /\ liveData' \in IF pc = "r_proc" THEN {liveData, Torn} ELSE {liveData}
    /\ UNCHANGED <<s9pk, metadata, dbUrl, version, reconf, ret, gen, clock>>

Next ==
    \/ StartCreate \/ CreateProc \/ CreateKeys \/ CreateUrl \/ CreateCopy
    \/ CreateSaveS9pk \/ CreateMeta \/ CreateSaveMeta
    \/ StartRestore \/ RestoreProc \/ RestoreMeta \/ RestorePut \/ RestoreEntry
    \/ RestoreReconf
    \/ Install \/ Tick \/ Crash

Spec == Init /\ [][Next]_vars

(***************************************************************************)
(* Properties                                                              *)
(***************************************************************************)

\* A create that returns Ok has left a complete backup of itself: the data
\* its procedure wrote, the s9pk copy and the envelope all come from this
\* create, and the envelope carries the timestamp returned in
\* PackageBackupInfo.  Every error of the two AtomicFile saves must reach
\* the caller for this to hold.
CreateOkIsComplete ==
    [][ (ret'.kind = "create_ok" /\ ret' # ret)
        => /\ metadata' \in Meta /\ metadata'.gen = ret'.gen
           /\ metadata'.ts = ret'.ts
           /\ s9pk' \in S9pk /\ s9pk'.gen = ret'.gen
           /\ backupData' = ret'.gen ]_vars

\* Spec invariant 5 and section 8: restore writes the installed entry's
\* marketplace_url only with the value of a metadata.cbor present on disk;
\* with no readable envelope it fails without writing the database.
RestoreWritesOnlyMetadataUrl ==
    [][ (pc = "r_put" /\ dbUrl' # dbUrl)
        => metadata \in Meta /\ dbUrl' = metadata.url ]_vars

\* The step in which restore returns Ok: the dependent reconfiguration was
\* called and succeeded.
RestoreReturnsOk ==
    pc = "r_reconf" /\ Len(reconf') > Len(reconf) /\ ret'.kind = "restore_ok"

\* Spec 4.3 restore steps 4-5: a restore that returns Ok leaves the
\* installed entry's marketplace_url equal to the envelope's, None
\* included, and called the dependent reconfiguration exactly once, with
\* the entry as it stands after the put.
RestoreOkApplied ==
    [][ RestoreReturnsOk
        => /\ metadata \in Meta
           /\ dbUrl' = metadata.url
           /\ reconf' = <<metadata.url>> ]_vars

\* Spec invariant 2: the envelope's timestamp is the instant the create
\* procedure reported success.  create takes Utc::now() only after copying
\* the s9pk, so it is later by the duration of the copy.
MetadataTimestampIsProcSuccess ==
    metadata \in Meta => metadata.ts = metadata.procAt

=============================================================================
