---------------------------- MODULE Notifications ----------------------------
(***************************************************************************)
(* The notification ledger of src/backend/src/notifications.rs.            *)
(*                                                                         *)
(* NotificationManager::notify runs in several awaited steps, and any      *)
(* number of tasks call it at once, so every call is a process of Procs    *)
(* with its own program counter:                                           *)
(*   "idle" --Notify--> "read" --ReadCount--> "insert" --Insert-->         *)
(*   "save" --SaveCount--> "idle"                                          *)
(* should_notify (the debounce check and update under the cache mutex) is  *)
(* the atomic first step.  The unread counter lives in patch-db and is     *)
(* read with get_mut and written back with save; notify takes no patch-db  *)
(* lock around this read-modify-write.  list(before = None) takes a Write  *)
(* lock on the counter, selects the newest rows and puts 0:                *)
(*   "idle" --ListLock--> "lselect" --ListSelect--> "lput" --ListPut-->    *)
(*   "idle"                                                                *)
(* The notifications table is the set rows; ids come from the table's     *)
(* serial column (nextId).  A notification's (package_id, level, title)    *)
(* is abstracted to one key of Keys; message and payload are left out.     *)
(* Crash restarts the process: the cache and the in-flight calls are lost, *)
(* the table and the counter survive.                                      *)
(***************************************************************************)
EXTENDS Naturals

CONSTANTS
    Procs,          \* concurrent callers of notify / list / delete
    Keys,           \* (package_id, level, title) triples, as model values
    Intervals,      \* debounce intervals (seconds) callers pass as Some(i)
    NoInterval,     \* debounce_interval = None
    NotCached,      \* no entry in the debounce cache
    NoLock,         \* nobody holds the Write lock on the counter
    MaxCalls,       \* bound: notify calls in a behaviour
    MaxTime,        \* bound: seconds on the clock
    MaxEpoch,       \* bound: process restarts
    CanFail,        \* whether database calls may return an error
    LevelOf         \* the NotificationLevel of each key

ASSUME Intervals \subseteq Nat
ASSUME CanFail \in BOOLEAN

(***************************************************************************)
(* NotificationLevel: notify stores format!("{}", level) in the level      *)
(* column, list parses it back with FromStr and fails the whole call with  *)
(* ParseDbField on a text that names no level.                             *)
(***************************************************************************)
Levels == {"Success", "Info", "Warning", "Error"}

ASSUME LevelOf \in [Keys -> Levels]

\* impl fmt::Display for NotificationLevel.
DisplayLevel(l) ==
    CASE l = "Success" -> "success"
      [] l = "Info"    -> "info"
      [] l = "Warning" -> "warning"
      [] l = "Error"   -> "error"

\* impl FromStr for NotificationLevel: InvalidNotificationLevel on any
\* other text.
ParseLevel(s) ==
    CASE s = "success" -> "Success"
      [] s = "info"    -> "Info"
      [] s = "warning" -> "Warning"
      [] s = "error"   -> "Error"
      [] OTHER         -> "InvalidNotificationLevel"

VARIABLES
    cache,       \* NotificationManager.cache: key -> last-issued second
    rows,        \* the notifications table: set of rows
    nextId,      \* next value of the id serial
    count,       \* server_info.unread_notification_count in patch-db
    lockHolder,  \* holder of the Write lock list takes on the counter
    pc,          \* per caller: where its call is
    req,         \* per caller: the call's arguments and locals
    clock,       \* Utc::now().timestamp()
    epoch,       \* number of process restarts
    calls,       \* notify calls made (bounded by MaxCalls)
    sinceReset,  \* ghost: rows inserted since the counter was last put to 0
    log,         \* ghost: every row ever inserted (delete does not touch it)
    suppressed   \* ghost: every notify call should_notify turned away

vars == <<cache, rows, nextId, count, lockHolder, pc, req, clock,
          epoch, calls, sinceReset, log, suppressed>>

\* Variable groups for UNCHANGED: the ghosts, and clock, restarts, calls.
ghosts == <<sinceReset, log, suppressed>>
env == <<clock, epoch, calls>>

IntervalOpt == Intervals \cup {NoInterval}

\* A row of the table, with the ghost fields at (the second should_notify
\* admitted the call), iv (its debounce interval), ep (the process
\* lifetime that admitted it) and n (the call's number, the order in which
\* should_notify admitted calls).  lvl is the text of the level column.
Row == [id : Nat, key : Keys, lvl : {DisplayLevel(l) : l \in Levels},
        at : 0..MaxTime, iv : IntervalOpt, ep : Nat, n : Nat]

Req == [key : Keys, iv : IntervalOpt, at : 0..MaxTime, n : Nat, cnt : Nat]

NoReq == [key |-> CHOOSE k \in Keys : TRUE, iv |-> NoInterval, at |-> 0, n |-> 0, cnt |-> 0]

\* The outcomes of one database call: an error is possible only when
\* CanFail.
Outcomes == IF CanFail THEN {TRUE, FALSE} ELSE {TRUE}

TypeOK ==
    /\ cache \in [Keys -> (0..MaxTime) \cup {NotCached}]
    /\ rows \subseteq Row /\ log \subseteq Row
    /\ nextId \in Nat \ {0}
    /\ count \in Nat
    /\ lockHolder \in Procs \cup {NoLock}
    /\ pc \in [Procs -> {"idle", "read", "insert", "save", "lselect", "lput"}]
    /\ req \in [Procs -> Req]
    /\ clock \in 0..MaxTime /\ epoch \in 0..MaxEpoch /\ calls \in 0..MaxCalls
    /\ sinceReset \in Nat
    /\ suppressed \subseteq [key : Keys, at : 0..MaxTime, iv : Intervals, ep : Nat]

Init ==
    /\ cache = [k \in Keys |-> NotCached]
    /\ rows = {} /\ log = {}
    /\ nextId = 1
    /\ count = 0
    /\ lockHolder = NoLock
    /\ pc = [p \in Procs |-> "idle"]
    /\ req = [p \in Procs |-> NoReq]
    /\ clock = 0 /\ epoch = 0 /\ calls = 0
    /\ sinceReset = 0
    /\ suppressed = {}

(***************************************************************************)
(* should_notify: admit when the key is not cached, when no interval is    *)
(* given, or when last_issued + interval <= now.                           *)
(***************************************************************************)
ShouldNotify(k, i) ==
    \/ cache[k] = NotCached
    \/ i = NoInterval
    \/ ~(cache[k] + i > clock)

Ids == {r.id : r \in rows}

Finish(p) == /\ pc' = [pc EXCEPT ![p] = "idle"]
             /\ req' = [req EXCEPT ![p] = NoReq]

\* An admitted call goes on to read the counter with its arguments.
Admit(p, k, i) ==
    /\ pc' = [pc EXCEPT ![p] = "read"]
    /\ req' = [req EXCEPT ![p] = [key |-> k, iv |-> i, at |-> clock,
                                  n |-> calls', cnt |-> 0]]
    /\ UNCHANGED suppressed

\* A turned-away call returns Ok(()); the ghost records it.
Suppress(k, i) ==
    /\ suppressed' = suppressed \cup {[key |-> k, at |-> clock, iv |-> i, ep |-> epoch]}
    /\ UNCHANGED <<cache, pc, req>>

\* A plausible bug: the None branch of should_notify admits without
\* stamping the cache.
NotifyNoStampOnNone(p) ==
    /\ pc[p] = "idle" /\ calls < MaxCalls
    /\ calls' = calls + 1
    /\ \E k \in Keys, i \in IntervalOpt :
         IF ShouldNotify(k, i)
         THEN /\ cache' = IF i = NoInterval /\ cache[k] # NotCached
                          THEN cache ELSE [cache EXCEPT ![k] = clock]
              /\ Admit(p, k, i)
         ELSE Suppress(k, i)
    /\ UNCHANGED <<rows, nextId, count, lockHolder, clock, epoch, sinceReset, log>>

(***************************************************************************)
(* notify, first step: should_notify under the cache mutex.  An admitted   *)
(* call stamps the cache with now and goes on; a turned-away call returns  *)
(* Ok(()) at once.                                                         *)
(***************************************************************************)
Notify(p) ==
    /\ pc[p] = "idle" /\ calls < MaxCalls
    /\ calls' = calls + 1
    /\ \E k \in Keys, i \in IntervalOpt :
         IF ShouldNotify(k, i)
         THEN /\ cache' = [cache EXCEPT ![k] = clock]
              /\ Admit(p, k, i)
         ELSE Suppress(k, i)
    /\ UNCHANGED <<rows, nextId, count, lockHolder, clock, epoch, sinceReset, log>>

\* unread_notification_count().get_mut(db): read the counter, no lock.
ReadCount(p) ==
    /\ pc[p] = "read"
    /\ \E ok \in Outcomes :
         IF ok THEN /\ pc' = [pc EXCEPT ![p] = "insert"]
                    /\ req' = [req EXCEPT ![p].cnt = count]
               ELSE Finish(p)
    /\ UNCHANGED <<ghosts, env, cache, rows, nextId, count, lockHolder>>

\* The INSERT's row: the serial gives it its id, the level column the
\* text format!("{}", level).
AddRow(p) ==
    LET r == [id |-> nextId, key |-> req[p].key,
              lvl |-> DisplayLevel(LevelOf[req[p].key]), at |-> req[p].at,
              iv |-> req[p].iv, ep |-> epoch, n |-> req[p].n]
    IN  /\ rows' = rows \cup {r}
        /\ log' = log \cup {r}
        /\ nextId' = nextId + 1
        /\ sinceReset' = sinceReset + 1

\* A plausible bug: the INSERT's error is dropped and notify goes on to
\* bump the counter.
InsertIgnoringError(p) ==
    /\ pc[p] = "insert"
    /\ \E ok \in Outcomes :
         IF ok
         THEN AddRow(p)
         ELSE UNCHANGED <<rows, log, nextId, sinceReset>>
    /\ pc' = [pc EXCEPT ![p] = "save"]
    /\ UNCHANGED <<env, cache, count, lockHolder, req, suppressed>>

\* INSERT INTO notifications ...: the serial gives the row its id.
Insert(p) ==
    /\ pc[p] = "insert"
    /\ \E ok \in Outcomes :
         IF ok
         THEN /\ AddRow(p)
              /\ pc' = [pc EXCEPT ![p] = "save"]
              /\ UNCHANGED req
         ELSE /\ Finish(p)
              /\ UNCHANGED <<rows, log, nextId, sinceReset>>
    /\ UNCHANGED <<env, cache, count, lockHolder, suppressed>>

\* A plausible bug: the counter is decremented instead of incremented.
SaveCountDecrement(p) ==
    /\ pc[p] = "save"
    /\ \E ok \in Outcomes : count' = IF ok THEN req[p].cnt - 1 ELSE count
    /\ Finish(p)
    /\ UNCHANGED <<ghosts, env, cache, rows, nextId, lockHolder>>

\* *count += 1; count.save(db): write back the value read plus one.
SaveCount(p) ==
    /\ pc[p] = "save"
    /\ \E ok \in Outcomes : count' = IF ok THEN req[p].cnt + 1 ELSE count
    /\ Finish(p)
    /\ UNCHANGED <<ghosts, env, cache, rows, nextId, lockHolder>>

(***************************************************************************)
(* list(before = None): lock the counter for writing, select the newest    *)
(* Limit rows, put 0.  The lock is released when the handle is dropped,    *)
(* on the error paths as well.                                             *)
(***************************************************************************)
ListLock(p) ==
    /\ pc[p] = "idle" /\ lockHolder = NoLock
    /\ lockHolder' = p
    /\ pc' = [pc EXCEPT ![p] = "lselect"]
    /\ UNCHANGED <<ghosts, env, cache, rows, nextId, count, req>>

\* The SELECT of the newest rows (Limit is taken to cover the table), then
\* the parse of every row's level: one bad level returns ParseDbField
\* before the counter is put to 0.
RowsParse == \A r \in rows : ParseLevel(r.lvl) \in Levels

ListSelect(p) ==
    /\ pc[p] = "lselect"
    /\ \E ok \in Outcomes :
         IF ok /\ RowsParse THEN /\ pc' = [pc EXCEPT ![p] = "lput"]
                    /\ UNCHANGED lockHolder
               ELSE /\ pc' = [pc EXCEPT ![p] = "idle"]
                    /\ lockHolder' = NoLock
    /\ UNCHANGED <<ghosts, env, cache, rows, nextId, count, req>>

ListPut(p) ==
    /\ pc[p] = "lput"
    /\ \E ok \in Outcomes :
         IF ok THEN count' = 0 /\ sinceReset' = 0
               ELSE UNCHANGED <<count, sinceReset>>
    /\ pc' = [pc EXCEPT ![p] = "idle"]
    /\ lockHolder' = NoLock
    /\ UNCHANGED <<env, cache, rows, nextId, req, log, suppressed>>

\* list(before = Some(b)): one SELECT ... WHERE id < b under no lock; it
\* changes no state, whether it returns rows or a database error.
ListBefore(p) ==
    /\ pc[p] = "idle"
    /\ UNCHANGED vars

\* delete(id) and delete_before(before): remove rows, never the counter.
Delete(p) ==
    /\ pc[p] = "idle"
    /\ \E i \in Ids : rows' = {r \in rows : r.id # i}
    /\ UNCHANGED <<ghosts, env, cache, nextId, count, lockHolder, pc, req>>

DeleteBefore(p) ==
    /\ pc[p] = "idle"
    /\ \E b \in Ids : rows' = {r \in rows : r.id >= b}
    /\ UNCHANGED <<ghosts, env, cache, nextId, count, lockHolder, pc, req>>

(***************************************************************************)
(* Environment: time passes; the process restarts, losing the cache        *)
(* (NotificationManager::new builds an empty one) and every call in        *)
(* flight, and dropping the lock with its handle.                          *)
(***************************************************************************)
Tick ==
    /\ clock < MaxTime
    /\ clock' = clock + 1
    /\ UNCHANGED <<ghosts, cache, rows, nextId, count, lockHolder, pc, req,
                   epoch, calls>>

Restart ==
    /\ epoch < MaxEpoch
    /\ epoch' = epoch + 1
    /\ cache' = [k \in Keys |-> NotCached]
    /\ pc' = [p \in Procs |-> "idle"]
    /\ req' = [p \in Procs |-> NoReq]
    /\ lockHolder' = NoLock
    /\ UNCHANGED <<ghosts, rows, nextId, count, clock, calls>>

Next ==
    \/ \E p \in Procs :
         \/ Notify(p) \/ ReadCount(p) \/ Insert(p) \/ SaveCount(p)
         \/ ListLock(p) \/ ListSelect(p) \/ ListPut(p) \/ ListBefore(p)
         \/ Delete(p) \/ DeleteBefore(p)
    \/ Tick
    \/ Restart

Spec == Init /\ [][Next]_vars

(***************************************************************************)
(* Properties                                                              *)
(***************************************************************************)

\* The unread counter never claims more notifications than were ever
\* inserted: notify bumps the value it read only after its INSERT
\* succeeded, even when its read is stale because another notify or a
\* list(None) wrote the counter in between.
CounterNeverOverstates == count <= nextId - 1

\* Debounce (spec 4.4 step 1, section 8): within one process lifetime, a
\* notification admitted with debounce_interval = Some(I) comes at least I
\* seconds after every earlier admitted notification with the same
\* (package_id, level, title), whatever interval the earlier call passed.
\* should_notify must stamp the cache on every admission for this to hold.
DebounceSpacing ==
    \A r1, r2 \in log :
        (/\ r1.key = r2.key /\ r1.ep = r2.ep /\ r1.n < r2.n
         /\ r2.iv # NoInterval)
        => r2.at - r1.at >= r2.iv

\* Spec invariant 4: whenever no call is in flight, the unread counter is
\* exactly the number of notifications inserted since it was last put to 0.
\* notify's get_mut ... save is a read-modify-write with no lock, so two
\* concurrent notify calls, or a notify straddling list(None), break it.
CounterMatchesInserted ==
    (\A p \in Procs : pc[p] = "idle") => count = sinceReset

\* Spec section 8 debounce: a call should_notify turns away is covered by a
\* notification of the same key inserted less than I seconds earlier in the
\* same lifetime, or by an admitted call still in flight.  should_notify
\* stamps the cache before the database calls, so a notify whose database
\* call fails still silences the same key for I seconds.
SuppressionJustified ==
    \A s \in suppressed :
        \/ \E r \in log : r.key = s.key /\ r.ep = s.ep /\ s.at - r.at < s.iv
        \/ \E p \in Procs : pc[p] \in {"read", "insert"} /\ req[p].key = s.key
                           /\ s.ep = epoch

=============================================================================
