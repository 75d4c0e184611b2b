-------------------------------- MODULE Auth --------------------------------
(***************************************************************************)
(* Passwords and sessions of src/backend/src/auth.rs.                      *)
(*                                                                         *)
(* The account password lives in three places:                             *)
(*   dbPw     the secret store's account table, which login checks         *)
(*            (check_password_against_db);                                 *)
(*   memPw    ctx.account, the in-memory account behind a tokio RwLock,    *)
(*            which reset_password checks and changes;                     *)
(*   pdbHash  patch-db server_info.password_hash.                          *)
(* An argon2 hash is abstracted to the password it encodes, so             *)
(* verify_encoded(h, pw) is h = pw.                                        *)
(*                                                                         *)
(* Each RPC call is a process of Procs with its own program counter:       *)
(*   login:  "idle" -LoginStart-> "l_check" -LoginCheck-> "l_insert"       *)
(*           -LoginInsert-> "idle"                                         *)
(*   reset:  "idle" -ResetStart-> "r_lock" -ResetLock-> "r_verify"         *)
(*           -ResetVerify-> "r_save" -ResetSave-> "r_put" -ResetPut->      *)
(*           "idle"                                                        *)
(* logout, session kill and session list are one SQL statement each and    *)
(* are single steps.  Every await may return an error when CanFail.        *)
(* Restart loses the in-flight calls, drops the lock and reloads ctx.account*)
(* from the secret store; the stores themselves survive.                   *)
(***************************************************************************)
EXTENDS Naturals

CONSTANTS
    Procs,      \* concurrent RPC callers
    Passwords,  \* passwords callers send (the decrypted PasswordType)
    DefaultPassword, \* String::default(), the empty password
    NoPassword, \* an omitted password argument (None)
    SessionIds, \* hashed session tokens
    NoCookie,   \* a request without a session cookie
    MaxCalls,   \* bound: RPC calls in a behaviour
    MaxCrash,   \* bound: restarts
    CanFail     \* whether an await may return an error

ASSUME CanFail \in BOOLEAN
ASSUME DefaultPassword \notin Passwords

AllPasswords == Passwords \cup {DefaultPassword}

(***************************************************************************)
(* PasswordType, the password argument of login and reset_password: a      *)
(* plain String or an EncryptedWire; `sealed` is whether the wire was      *)
(* encrypted for the key in ctx, the only one decrypt can open.            *)
(***************************************************************************)
PasswordType ==
    [kind : {"String"}, pw : AllPasswords, sealed : {TRUE}]
    \cup [kind : {"EncryptedWire"}, pw : Passwords, sealed : BOOLEAN]

\* What a caller can send: a PasswordType, or nothing.
PasswordArg == PasswordType \cup {NoPassword}

\* Option::unwrap_or_default, with PasswordType's Default: String("").
unwrap_or_default(x) ==
    IF x = NoPassword THEN [kind |-> "String", pw |-> DefaultPassword, sealed |-> TRUE]
    ELSE x

\* PasswordType::decrypt succeeds on a String and on a wire it can open;
\* then it yields the password.
Decrypts(x) == x.kind = "String" \/ x.sealed
decrypt(x) == x.pw

VARIABLES
    dbPw, memPw, pdbHash,
    lock,      \* the callers holding ctx.account.write() (at most one)
    sessions,  \* session table: id -> "none" | "active" | "out"
    pc,        \* per caller: where its call is
    arg,       \* per caller: [old, new] passwords of its call
    ret,       \* per caller: what its last call returned: "ok", "err", "lost"
    calls, crashes,
    known      \* ghost: the password the last Ok reset_password set

vars == <<dbPw, memPw, pdbHash, lock, sessions, pc, arg, ret, calls,
          crashes, known>>

\* Variable groups for UNCHANGED: the three password copies, the bounds.
stores == <<dbPw, memPw, pdbHash>>
budget == <<calls, crashes>>

Outcomes == IF CanFail THEN {TRUE, FALSE} ELSE {TRUE}

Init ==
    \E pw \in Passwords :
        /\ dbPw = pw /\ memPw = pw /\ pdbHash = pw /\ known = pw
        /\ lock = {}
        /\ sessions = [s \in SessionIds |-> "none"]
        /\ pc = [p \in Procs |-> "idle"]
        /\ arg = [p \in Procs |-> [old |-> pw, new |-> pw]]
        /\ ret = [p \in Procs |-> "ok"]
        /\ calls = 0 /\ crashes = 0

\* The caller's call returns r; the guard on ctx.account, if it holds it,
\* is dropped.
Return(p, r) ==
    /\ pc' = [pc EXCEPT ![p] = "idle"]
    /\ ret' = [ret EXCEPT ![p] = r]
    /\ lock' = lock \ {p}

\* A new call by an idle caller, within the bound.
Begin(p) == pc[p] = "idle" /\ calls < MaxCalls /\ calls' = calls + 1

\* verify_encoded(hash, password), and check_password.
check_password(hash, pw) == hash = pw

-----------------------------------------------------------------------------
(* login                                                                   *)

\* password.unwrap_or_default().decrypt(&ctx): a wire-encrypted password
\* may fail to decrypt; an omitted one is the empty password.
LoginStart(p) ==
    /\ Begin(p)
    /\ \E a \in PasswordArg :
         LET x == unwrap_or_default(a) IN
         IF Decrypts(x)
         THEN /\ pc' = [pc EXCEPT ![p] = "l_check"]
              /\ arg' = [arg EXCEPT ![p] = [old |-> decrypt(x), new |-> decrypt(x)]]
              /\ UNCHANGED ret
         ELSE /\ ret' = [ret EXCEPT ![p] = "err"] /\ UNCHANGED <<pc, arg>>
    /\ UNCHANGED <<stores, lock, sessions, crashes, known>>

\* secret_store.acquire and SELECT password FROM account, then
\* check_password against what was read.
LoginCheck(p) ==
    /\ pc[p] = "l_check"
    /\ \E ok \in Outcomes :
         IF ok /\ check_password(dbPw, arg[p].old)
         THEN pc' = [pc EXCEPT ![p] = "l_insert"] /\ UNCHANGED <<ret, lock>>
         ELSE Return(p, "err")
    /\ UNCHANGED <<stores, budget, sessions, arg, known>>

\* INSERT INTO session with a fresh token, then the set-cookie header.
LoginInsert(p) ==
    /\ pc[p] = "l_insert"
    /\ \E ok \in Outcomes :
         IF ok THEN \E s \in {t \in SessionIds : sessions[t] = "none"} :
                       /\ sessions' = [sessions EXCEPT ![s] = "active"]
                       /\ Return(p, "ok")
               ELSE Return(p, "err") /\ UNCHANGED sessions
    /\ UNCHANGED <<stores, budget, arg, known>>

-----------------------------------------------------------------------------
(* logout, session kill, session list                                      *)

\* HasLoggedOutSessions::new: UPDATE session SET logged_out for the given
\* tokens (rows that do not exist are not touched).
LogOut(ids) ==
    sessions' = [s \in SessionIds |->
                   IF s \in ids /\ sessions[s] = "active" THEN "out"
                   ELSE sessions[s]]

\* logout: without a session cookie it returns Ok(None).
Logout(p) ==
    /\ Begin(p)
    /\ \E c \in SessionIds \cup {NoCookie}, ok \in Outcomes :
         IF c = NoCookie \/ ~ok THEN UNCHANGED sessions ELSE LogOut({c})
    /\ UNCHANGED <<stores, lock, pc, arg, ret, crashes, known>>

\* session kill ids.
Kill(p) ==
    /\ Begin(p)
    /\ \E ids \in SUBSET SessionIds, ok \in Outcomes :
         IF ok THEN LogOut(ids) ELSE UNCHANGED sessions
    /\ UNCHANGED <<stores, lock, pc, arg, ret, crashes, known>>

\* session list: a SELECT; it changes nothing.
List(p) ==
    /\ Begin(p)
    /\ UNCHANGED <<stores, lock, sessions, pc, arg, ret, crashes, known>>

-----------------------------------------------------------------------------
(* reset_password                                                          *)

\* Both passwords are decrypted before anything else; an omitted one is
\* the empty password, for the new password as well.
ResetStart(p) ==
    /\ Begin(p)
    /\ \E a, b \in PasswordArg :
         LET old == unwrap_or_default(a)
             new == unwrap_or_default(b)
         IN
         IF Decrypts(old) /\ Decrypts(new)
         THEN /\ pc' = [pc EXCEPT ![p] = "r_lock"]
              /\ arg' = [arg EXCEPT ![p] = [old |-> decrypt(old), new |-> decrypt(new)]]
              /\ UNCHANGED ret
         ELSE /\ ret' = [ret EXCEPT ![p] = "err"] /\ UNCHANGED <<pc, arg>>
    /\ UNCHANGED <<stores, lock, sessions, crashes, known>>

\* Mutant: the write guard is not exclusive.
ResetLockShared(p) ==
    /\ pc[p] = "r_lock"
    /\ pc' = [pc EXCEPT ![p] = "r_verify"]
    /\ UNCHANGED <<stores, budget, lock, sessions, arg, ret, known>>

\* ctx.account.write().await
ResetLock(p) ==
    /\ pc[p] = "r_lock"
    /\ lock = {}
    /\ lock' = {p}
    /\ pc' = [pc EXCEPT ![p] = "r_verify"]
    /\ UNCHANGED <<stores, budget, sessions, arg, ret, known>>

\* verify_encoded against ctx.account's hash; on a match
\* account.set_password changes the in-memory account at once.
ResetVerify(p) ==
    /\ pc[p] = "r_verify"
    /\ IF check_password(memPw, arg[p].old)
       THEN /\ memPw' = arg[p].new
            /\ pc' = [pc EXCEPT ![p] = "r_save"]
            /\ UNCHANGED <<ret, lock>>
       ELSE Return(p, "err") /\ UNCHANGED memPw
    /\ UNCHANGED <<budget, dbPw, pdbHash, sessions, arg, known>>

\* account.save(&ctx.secret_store): the account as it now is in memory.
ResetSave(p) ==
    /\ pc[p] = "r_save"
    /\ \E ok \in Outcomes :
         IF ok THEN dbPw' = memPw /\ pc' = [pc EXCEPT ![p] = "r_put"]
                    /\ UNCHANGED <<ret, lock>>
               ELSE Return(p, "err") /\ UNCHANGED dbPw
    /\ UNCHANGED <<budget, memPw, pdbHash, sessions, arg, known>>

\* put of server_info.password_hash, then Ok(()).
ResetPut(p) ==
    /\ pc[p] = "r_put"
    /\ \E ok \in Outcomes :
         IF ok THEN /\ pdbHash' = memPw
                    /\ Return(p, "ok")
                    /\ known' = arg[p].new
               ELSE Return(p, "err") /\ UNCHANGED <<pdbHash, known>>
    /\ UNCHANGED <<budget, dbPw, memPw, sessions, arg>>

-----------------------------------------------------------------------------
\* The server restarts: calls in flight are lost, the guard is gone and
\* ctx.account is loaded again from the secret store; a caller whose call
\* was in flight gets no answer ("lost").
Restart ==
    /\ crashes < MaxCrash
    /\ crashes' = crashes + 1
    /\ pc' = [p \in Procs |-> "idle"]
    /\ lock' = {}
    /\ memPw' = dbPw
    /\ ret' = [p \in Procs |-> IF pc[p] = "idle" THEN ret[p] ELSE "lost"]
    /\ UNCHANGED <<dbPw, pdbHash, sessions, arg, calls, known>>

Next ==
    \/ \E p \in Procs :
         \/ LoginStart(p) \/ LoginCheck(p) \/ LoginInsert(p)
         \/ Logout(p) \/ Kill(p) \/ List(p)
         \/ ResetStart(p) \/ ResetLock(p) \/ ResetVerify(p)
         \/ ResetSave(p) \/ ResetPut(p)
    \/ Restart

Spec == Init /\ [][Next]_vars

-----------------------------------------------------------------------------
(* Properties.                                                             *)

TypeOK ==
    /\ {dbPw, memPw, pdbHash, known} \subseteq AllPasswords
    /\ lock \subseteq Procs
    /\ sessions \in [SessionIds -> {"none", "active", "out"}]
    /\ ret \in [Procs -> {"ok", "err", "lost"}]

ResetInFlight == \E p \in Procs : pc[p] \in {"r_verify", "r_save", "r_put"}

\* A reset_password that returns Ok has put its new password in all three
\* places: the secret store login checks, ctx.account that the next
\* reset_password checks, and patch-db.
OkResetInstallsNewPassword ==
    [][\A p \in Procs :
         (pc[p] = "r_put" /\ pc'[p] = "idle" /\ ret'[p] = "ok") =>
             dbPw' = arg[p].new /\ memPw' = arg[p].new
                                /\ pdbHash' = arg[p].new]_vars

\* reset_password is all or nothing: once no reset is between its check and
\* its return, login (secret store) and the next reset_password
\* (ctx.account) both accept exactly the password the last Ok reset set,
\* so a reset that reported an error changed nothing.
ResetIsAllOrNothing == ~ResetInFlight => memPw = known /\ dbPw = known

=============================================================================
