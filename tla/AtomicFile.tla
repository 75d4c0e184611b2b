----------------------------- MODULE AtomicFile -----------------------------
(***************************************************************************)
(* The durable write of spec 4.1, as BackupActions::create uses it for     *)
(* <id>.s9pk and metadata.cbor (src/backend/src/backup/mod.rs 158-169,     *)
(* 172-183): AtomicFile::new creates (or truncates) a temporary file in    *)
(* the target's directory, the content is written into it chunk by chunk, *)
(* and save() syncs the temporary file, renames it onto the target and     *)
(* syncs the directory; dropping it unsaved removes the temporary file.    *)
(* helpers::AtomicFile is not under src/, so this module follows spec 4.1. *)
(*                                                                         *)
(* Files are inodes with a cached and a durable content; the two names     *)
(* (target, temporary) map to inodes, visibly and durably.  A crash keeps  *)
(* only what was synced.  One caller writes at a time, as spec 5 obliges   *)
(* callers of create and restore.  The content of write number g is the    *)
(* sequence of its two chunks, Whole(g); generation 0 is the content the   *)
(* target had before.                                                      *)
(***************************************************************************)
EXTENDS Naturals, Sequences

CONSTANTS
    MaxGen,    \* bound: writes
    MaxCrash,  \* bound: crashes
    None,      \* a name that maps to no inode
    Torn       \* a content that is no write's whole content

Gens == 0..MaxGen
Inodes == 0..MaxGen
Whole(g) == <<<<g, 1>>, <<g, 2>>>>

VARIABLES
    pc,              \* where the write in flight is
    cur,             \* its generation
    gen,             \* writes begun
    tgt, tgtDur,     \* inode of the target name: visible, durable
    tmp, tmpDur,     \* inode of the temporary name: visible, durable
    data, dataDur,   \* inode -> content: cached, durable
    nextIno,         \* next free inode
    acked,           \* generation of the last save() that returned Ok
    crashes

vars == <<pc, cur, gen, tgt, tgtDur, tmp, tmpDur, data, dataDur, nextIno,
          acked, crashes>>

Init ==
    /\ pc = "idle" /\ cur = 0 /\ gen = 0
    /\ tgt = 0 /\ tgtDur = 0 /\ tmp = None /\ tmpDur = None
    /\ data = [i \in Inodes |-> IF i = 0 THEN Whole(0) ELSE <<>>]
    /\ dataDur = data
    /\ nextIno = 1 /\ acked = 0 /\ crashes = 0

\* An error returned by any step: the AtomicFile is dropped, which removes
\* the temporary name.
Drop ==
    /\ pc' = "idle"
    /\ tmp' = None
    /\ UNCHANGED <<cur, gen, tgt, tgtDur, tmpDur, data, dataDur, nextIno,
                   acked, crashes>>

\* AtomicFile::new: File::create on the temporary name, a new inode or
\* the one a crashed write left there, truncated.
New ==
    /\ pc = "idle" /\ gen < MaxGen
    /\ gen' = gen + 1 /\ cur' = gen + 1
    /\ \/ /\ tmp = None
          /\ tmp' = nextIno /\ nextIno' = nextIno + 1
          /\ data' = [data EXCEPT ![nextIno] = <<>>]
       \/ /\ tmp # None
          /\ data' = [data EXCEPT ![tmp] = <<>>]
          /\ UNCHANGED <<tmp, nextIno>>
    /\ pc' = "write"
    /\ UNCHANGED <<tgt, tgtDur, tmpDur, dataDur, acked, crashes>>

\* tokio::io::copy / write_all into the temporary file, one chunk a step.
Write ==
    /\ pc = "write"
    /\ \/ /\ data' = [data EXCEPT ![tmp] = Append(@, <<cur, Len(@) + 1>>)]
          /\ pc' = IF Len(data[tmp]) + 1 = 2 THEN "sync" ELSE "write"
          /\ UNCHANGED <<cur, gen, tgt, tgtDur, tmp, tmpDur, dataDur,
                         nextIno, acked, crashes>>
       \/ Drop

\* Mutant: save() renames without syncing the temporary file first.
SyncTmpSkipped ==
    /\ pc = "sync"
    /\ pc' = "rename"
    /\ UNCHANGED <<cur, gen, tgt, tgtDur, tmp, tmpDur, data, dataDur,
                   nextIno, acked, crashes>>

\* save(): sync_all the temporary file.
SyncTmp ==
    /\ pc = "sync"
    /\ \/ /\ dataDur' = [dataDur EXCEPT ![tmp] = data[tmp]]
          /\ pc' = "rename"
          /\ UNCHANGED <<cur, gen, tgt, tgtDur, tmp, tmpDur, data, nextIno,
                         acked, crashes>>
       \/ Drop

\* save(): rename the temporary name onto the target.
Rename ==
    /\ pc = "rename"
    /\ \/ /\ tgt' = tmp /\ tmp' = None
          /\ pc' = "syncdir"
          /\ UNCHANGED <<cur, gen, tgtDur, tmpDur, data, dataDur, nextIno,
                         acked, crashes>>
       \/ Drop

\* save(): sync the directory, which makes the rename durable.
SyncDir ==
    /\ pc = "syncdir"
    /\ \/ /\ tgtDur' = tgt /\ tmpDur' = tmp
          /\ pc' = "ack"
       \/ /\ pc' = "idle" /\ UNCHANGED <<tgtDur, tmpDur>>
    /\ UNCHANGED <<cur, gen, tgt, tmp, data, dataDur, nextIno, acked, crashes>>

\* save() returns Ok.
Ack ==
    /\ pc = "ack"
    /\ acked' = cur /\ pc' = "idle"
    /\ UNCHANGED <<cur, gen, tgt, tgtDur, tmp, tmpDur, data, dataDur,
                   nextIno, crashes>>

\* The machine crashes: file contents not synced are lost, and so is the
\* rename the directory sync did not cover.  The temporary name that
\* File::create added may or may not have reached the disk (nothing syncs
\* the directory after it), so a crash may leave it behind, holding what
\* was synced into it.
Crash ==
    /\ crashes < MaxCrash
    /\ crashes' = crashes + 1
    /\ pc' = "idle"
    /\ data' = dataDur /\ tgt' = tgtDur
    /\ tmp' \in {tmpDur, tmp}
    /\ tmpDur' = tmp'
    /\ UNCHANGED <<cur, gen, tgtDur, dataDur, nextIno, acked>>

Next == New \/ Write \/ SyncTmp \/ Rename \/ SyncDir \/ Ack \/ Crash

Spec == Init /\ [][Next]_vars

-----------------------------------------------------------------------------
(* Refinement                                                              *)

\* The generation whose whole content an inode holds, or Torn.
ContentOf(s) == IF \E g \in Gens : s = Whole(g)
                THEN CHOOSE g \in Gens : s = Whole(g) ELSE Torn

Abstract == INSTANCE AtomicFileSpec
    WITH Contents <- Gens,
         NoFile   <- None,
         target   <- ContentOf(data[tgt]),
         durable  <- ContentOf(dataDur[tgtDur]),
         acked    <- acked

\* The write sequence implements the promise of spec 4.1: a reader of the
\* target sees a whole content at every step, a crash at any step brings
\* back a whole content, and save() returns Ok only for a content that a
\* crash no longer takes away.
AtomicFileRefines == Abstract!Spec
=============================================================================
