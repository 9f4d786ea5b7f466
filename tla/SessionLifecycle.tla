-------------------------- MODULE SessionLifecycle --------------------------
(***************************************************************************)
(* Signing in, restoring, and signing out of one account directory.        *)
(*                                                                         *)
(* Three actors share the directory, the keychain and one Rust handle:     *)
(*   - the Qt main thread (AppController), which starts the app, persists  *)
(*     and forgets the session, and shows the forms;                       *)
(*   - one authentication task (login, register, submit_registration_auth  *)
(*     or restore_session), spawned on the handle's tokio runtime;         *)
(*   - one logout task, spawned on the same runtime, so it interleaves     *)
(*     with the authentication task at every await point.                  *)
(* A step of a task is the code between two points where another actor     *)
(* can observe or change what the task works on.  The process may die      *)
(* between any two steps; disk and keychain survive, memory does not.      *)
(*                                                                         *)
(* Passphrases and sessions are numbered by the authentication attempt     *)
(* that created them: every passphrase is freshly drawn and every          *)
(* successful login is a new device, so numbers never repeat.              *)
(***************************************************************************)
EXTENDS Naturals

CONSTANTS
    MaxAttempts,    \* bound: login, register and submit calls
    MaxGeneration,  \* bound: value of auth_generation in one process
    MaxCrashes,     \* bound: deaths of the process
    SafetyTimer     \* may the 15 s timers of AppController fire before logout ends?

ASSUME MaxAttemptsAssumption   == MaxAttempts \in Nat \ {0}
ASSUME MaxGenerationAssumption == MaxGeneration \in Nat \ {0}
ASSUME MaxCrashesAssumption    == MaxCrashes \in Nat
ASSUME SafetyTimerAssumption   == SafetyTimer \in BOOLEAN

None == 0
Ids  == 1..MaxAttempts
MaybeId == Ids \cup {None}

VARIABLES
    store,       \* passphrase the SDK store directory is encrypted with, or None
    caches,      \* local secret the cache databases are encrypted with, or None
    secSess,     \* session -> the store passphrase among its keychain entries, or None
    secLocal,    \* session whose local cache passphrases the keychain holds, or None
    saved,       \* session named by the settings file, or None
    named,       \* session named by the settings in memory, or None
    client,      \* MatrixProtocol.client: the live session, or None
    pending,     \* pending_auth_store_passphrase, or None
    generation,  \* auth_generation
    storeLock,   \* holder of the per-directory store lock
    cacheOpen,   \* local secret of the open cache handles, or None
    auth,        \* the authentication task
    logout,      \* the logout task
    challenged,  \* a registration challenge awaits submit_registration_auth
    ui,          \* what AppController shows, and its place in a multi-step handler
    attempts, crashes,
    overtaken,   \* history: the current sign-in began in the tail of a logout
    unsaved,     \* history: the last write of the settings failed
    ghosts       \* history: sessions left in the file by a failed write, with their passphrase

secrets == <<secSess, secLocal>>
bounds  == <<attempts, crashes, overtaken, unsaved, ghosts>>
vars == <<store, caches, secSess, secLocal, saved, named,
          client, pending, generation, storeLock, cacheOpen,
          auth, logout, challenged, ui, attempts, crashes, overtaken, unsaved, ghosts>>

AuthKinds == {"login", "register", "submit", "restore"}
AuthPcs   == {"idle", "wipe", "reset", "pass", "acquire", "open", "sdk",
              "commit", "caches", "client", "report"}
LogoutPcs == {"idle", "take", "check", "close", "acquire",
              "moveStore", "moveCaches", "scrub", "done"}
Screens   == {"down", "drop", "cleanup", "intro", "main", "restoreFailed",
              "giveUp", "forgetLocal", "forgetSettings", "clearAll", "signingOut"}

AuthStates ==
    [pc : AuthPcs, kind : AuthKinds, id : MaybeId, pass : MaybeId, ok : BOOLEAN]
LogoutStates ==
    [pc : LogoutPcs, gen : 0..MaxGeneration, victim : MaybeId, ok : BOOLEAN, alone : BOOLEAN]

(* The tail of logout(): past the generation check, still destroying.      *)
LogoutTail == {"close", "acquire", "moveStore", "moveCaches", "scrub"}

NoAuth   == [pc |-> "idle", kind |-> "login", id |-> None, pass |-> None, ok |-> FALSE]
NoLogout == [pc |-> "idle", gen |-> 0, victim |-> None, ok |-> FALSE, alone |-> FALSE]

(* logout() as AppController starts it: the first thing the task does is   *)
(* to snapshot auth_generation.  "alone" is history: no authentication     *)
(* task has run beside this logout.                                        *)
NewLogout == [pc |-> "take", gen |-> generation, victim |-> None,
              ok |-> FALSE, alone |-> auth.pc = "idle"]

NewAuth(kind, pc, id) ==
    [pc |-> pc, kind |-> kind, id |-> id, pass |-> None, ok |-> FALSE]

-----------------------------------------------------------------------------
(* What the disk holds for a session.                                      *)

HasLocalSecrets == secLocal # None
SecretsComplete(s) == secSess[s] # None /\ HasLocalSecrets
SecretsAbsent(s)   == secSess[s] = None /\ ~HasLocalSecrets

Forgotten(s) == [secSess EXCEPT ![s] = None]

(* keychainDelete() may fail for the session's entries; no one looks.      *)
ForgetSession(s) == secSess' \in {secSess, IF s = None THEN secSess ELSE Forgotten(s)}
ForgetLocalSecrets == secLocal' \in {secLocal, None}

(* Mutant: the settings are changed, and not saved.                        *)
WriteSettingsLater(s) == named' = s /\ UNCHANGED <<saved, unsaved, ghosts>>

(* saveSettings(), with the session that the settings in memory now name:  *)
(* that the file could not be written is logged, and the handler goes on.  *)
(* A session that was to leave the file then stays in it.                  *)
WriteSettings(s) ==
    /\ named' = s
    /\ \/ saved' = s /\ unsaved' = FALSE /\ UNCHANGED ghosts
       \/ /\ unsaved' = TRUE /\ UNCHANGED saved
          /\ ghosts' = ghosts \cup {x \in {saved} \ {s, None} : secSess[x] # None}

(* AppCacheStore::open rebuilds a database whose key does not match, so    *)
(* opening the caches with a key always leaves them encrypted with it.     *)
OpenCaches(key) ==
    /\ cacheOpen' = IF cacheOpen = None THEN key ELSE cacheOpen
    /\ caches'    = IF cacheOpen = None THEN key ELSE caches

-----------------------------------------------------------------------------
(* The authentication task.                                                *)

AuthGoto(pc) == auth' = [auth EXCEPT !.pc = pc]
AuthFails    == auth' = [auth EXCEPT !.pc = "report", !.ok = FALSE]

(* A new authentication task makes every running logout no longer alone,   *)
(* and is overtaken when that logout is already past its check.            *)
Overlap ==
    /\ logout' = [logout EXCEPT !.alone = FALSE]
    /\ overtaken' = (logout.pc \in LogoutTail)

(* login(), register(): a newer sign-in is announced before anything else. *)
BeginSignIn(kind) ==
    /\ ui = "intro" /\ auth.pc = "idle"
    /\ attempts < MaxAttempts /\ generation < MaxGeneration
    /\ generation' = generation + 1
    /\ attempts' = attempts + 1
    /\ auth' = NewAuth(kind, "wipe", attempts + 1)
    /\ challenged' = FALSE
    /\ Overlap
    /\ UNCHANGED <<store, caches, secSess, secLocal, saved, named, client, pending,
                   storeLock, cacheOpen, ui, crashes, unsaved, ghosts>>

(* submit_registration_auth(): neither a new generation nor a wipe; it     *)
(* reopens the store the first register() call created.                    *)
BeginSubmit ==
    /\ ui = "intro" /\ auth.pc = "idle" /\ challenged
    /\ attempts < MaxAttempts
    /\ attempts' = attempts + 1
    /\ auth' = NewAuth("submit", "pass", attempts + 1)
    /\ logout' = [logout EXCEPT !.alone = FALSE]
    /\ overtaken' = (overtaken \/ logout.pc \in LogoutTail)
    /\ UNCHANGED <<store, caches, secSess, secLocal, saved, named, client, pending,
                   generation, storeLock, cacheOpen, challenged, ui, crashes, unsaved,
                   ghosts>>

(* Mutant: fetch_sub for fetch_add.                                        *)
BeginRestoreCountsDown(s) ==
    /\ auth' = NewAuth("restore", "pass", s)
    /\ generation' = generation - 1

(* restore_session() for the session the settings name: part of the        *)
(* AppController step that calls it.                                       *)
BeginRestore(s) ==
    /\ auth' = NewAuth("restore", "pass", s)
    /\ generation' = generation + 1

(* Mutant: the sign-in goes on although the wipe reported survivors.       *)
WipeFailureIgnored == store # None /\ AuthGoto("reset") /\ UNCHANGED store

(* wipe_store_dir_inner(): files survive eight attempts, the sign-in fails. *)
WipeFails == store # None /\ AuthFails /\ UNCHANGED store

(* prepare_fresh_login(): the verified wipe runs under the store lock.     *)
WipeStore ==
    /\ auth.pc = "wipe" /\ storeLock = "free"
    /\ (store' = None /\ AuthGoto("reset")) \/ WipeFails
    /\ UNCHANGED <<caches, secSess, secLocal, saved, named, client, pending, generation,
                   storeLock, cacheOpen, logout, challenged, ui, bounds>>

(* reset_local_cache_stores_for_new_session(): handles closed, databases   *)
(* deleted; a failed deletion is ignored.                                  *)
ResetCaches ==
    /\ auth.pc = "reset"
    /\ cacheOpen' = None
    /\ caches' \in {None, caches}
    /\ AuthGoto("pass")
    /\ UNCHANGED <<store, secSess, secLocal, saved, named, client, pending, generation,
                   storeLock, logout, challenged, ui, bounds>>

(* pending_auth_store_passphrase(): drawn once, then handed out again until *)
(* it is cleared.                                                          *)
PendingPassphrase == IF pending = None THEN auth.id ELSE pending

TakePassphrase ==
    /\ auth.pc = "pass" /\ auth.kind # "restore"
    /\ pending' = PendingPassphrase
    /\ auth' = [auth EXCEPT !.pc = "acquire", !.pass = pending']
    /\ UNCHANGED <<store, caches, secSess, secLocal, saved, named, client, generation,
                   storeLock, cacheOpen, logout, challenged, ui, bounds>>

(* prepare_restore_session(): every secret must be there; the caches are   *)
(* opened before the store.                                                *)
LoadSecrets ==
    /\ auth.pc = "pass" /\ auth.kind = "restore"
    /\ \/ /\ SecretsComplete(auth.id)
          /\ OpenCaches(secLocal)
          /\ auth' = [auth EXCEPT !.pc = "acquire", !.pass = secSess[auth.id]]
       \/ /\ ~SecretsComplete(auth.id)
          /\ AuthFails /\ UNCHANGED <<caches, cacheOpen>>
    /\ UNCHANGED <<store, secSess, secLocal, saved, named, client, pending, generation,
                   storeLock, logout, challenged, ui, bounds>>

(* build_client(): takes the store lock ...                                *)
AcquireStore ==
    /\ auth.pc = "acquire" /\ storeLock = "free"
    /\ storeLock' = "auth"
    /\ AuthGoto("open")
    /\ UNCHANGED <<store, caches, secSess, secLocal, saved, named, client, pending,
                   generation, cacheOpen, logout, challenged, ui, bounds>>

Openable == store \in {None, auth.pass}

(* Mutant: the failing way out keeps the lock.                             *)
BuildFailsHoldingLock == UNCHANGED storeLock /\ AuthFails

(* build_client() drops its guard on every way out.                        *)
BuildFails    == storeLock' = "free" /\ AuthFails
BuildSucceeds == storeLock' = "free" /\ AuthGoto("sdk")

(* ... opens the four databases, creating them when absent, and builds the *)
(* SDK client (15 s).                                                      *)
OpenStore ==
    /\ auth.pc = "open"
    /\ \/ Openable /\ store' = auth.pass /\ (BuildSucceeds \/ BuildFails)
       \/ ~Openable /\ UNCHANGED store /\ BuildFails
    /\ UNCHANGED <<caches, secSess, secLocal, saved, named, client, pending, generation,
                   cacheOpen, logout, challenged, ui, bounds>>

(* Mutant: register() forgets its passphrase with the client it drops.     *)
ChallengeForgets ==
    /\ auth.kind \in {"register", "submit"}
    /\ auth' = NoAuth /\ challenged' = TRUE /\ pending' = None

(* register(): the user-interactive stages are returned to the form; the   *)
(* client is dropped, store and passphrase wait for the next stage.        *)
Challenge ==
    /\ auth.kind \in {"register", "submit"}
    /\ auth' = NoAuth /\ challenged' = TRUE /\ UNCHANGED pending

(* The homeserver accepts, refuses, or (registering) asks for more.        *)
SdkCall ==
    /\ auth.pc = "sdk"
    /\ \/ AuthGoto(IF auth.kind = "restore" THEN "client" ELSE "commit")
          /\ UNCHANGED <<challenged, pending>>
       \/ AuthFails /\ UNCHANGED <<challenged, pending>>
       \/ Challenge
    /\ UNCHANGED <<store, caches, secSess, secLocal, saved, named, client, generation,
                   storeLock, cacheOpen, logout, ui, bounds>>

CommittedPassphrase == auth.pass

(* commit_session_secrets(): all six entries in one keychain write.        *)
CommitSecrets ==
    /\ auth.pc = "commit"
    /\ \/ /\ secSess' = [secSess EXCEPT ![auth.id] = CommittedPassphrase]
          /\ secLocal' = auth.id
          /\ AuthGoto("caches")
       \/ AuthFails /\ UNCHANGED secrets
    /\ UNCHANGED <<store, caches, saved, named, client, pending, generation, storeLock,
                   cacheOpen, logout, challenged, ui, bounds>>

(* activate_authenticated_session(): on a cache error the store directory  *)
(* is removed, without the store lock and ignoring that it could not be;   *)
(* the secrets and the pending passphrase stay.                            *)
OpenCacheStores ==
    /\ auth.pc = "caches"
    /\ \/ /\ OpenCaches(auth.id)
          /\ pending' = None
          /\ AuthGoto("client") /\ UNCHANGED store
       \/ /\ cacheOpen = None
          /\ store' \in {None, store} /\ AuthFails
          /\ \/ OpenCaches(auth.id)          \* only the preview store failed
             \/ UNCHANGED <<caches, cacheOpen>>
          /\ UNCHANGED pending
    /\ UNCHANGED <<secSess, secLocal, saved, named, client, generation, storeLock,
                   logout, challenged, ui, bounds>>

SetClient ==
    /\ auth.pc = "client"
    /\ client' = auth.id
    /\ auth' = [auth EXCEPT !.pc = "report", !.ok = TRUE]
    /\ UNCHANGED <<store, caches, secSess, secLocal, saved, named, pending, generation,
                   storeLock, cacheOpen, logout, challenged, ui, bounds>>

(* persistSessionFor(): the settings name the session only when the handle *)
(* still has it and the keychain holds everything it needs.                *)
PersistSession ==
    IF client = None THEN
        WriteSettings(None) /\ UNCHANGED secrets
    ELSE IF SecretsComplete(client) THEN
        WriteSettings(client) /\ UNCHANGED secrets
    ELSE WriteSettings(None) /\ ForgetSession(client) /\ ForgetLocalSecrets

(* The result reaches the main thread.                                     *)
ReportSignIn ==
    /\ auth.pc = "report" /\ auth.kind # "restore"
    /\ \/ /\ auth.ok
          /\ PersistSession
          /\ ui' = "main" /\ challenged' = FALSE
       \/ /\ ~auth.ok
          /\ UNCHANGED <<saved, named, unsaved, ghosts, secSess, secLocal, ui, challenged>>
    /\ auth' = NoAuth
    /\ UNCHANGED <<store, caches, client, pending, generation, storeLock,
                   cacheOpen, logout, attempts, crashes, overtaken>>

(* A failed restore asks the user, unless a sign-out is already running.   *)
ReportRestore ==
    /\ auth.pc = "report" /\ auth.kind = "restore"
    /\ ui \in {"main", "signingOut"}
    /\ ui' = IF ~auth.ok /\ ui = "main" THEN "restoreFailed" ELSE ui
    /\ auth' = NoAuth
    /\ UNCHANGED <<store, caches, secSess, secLocal, saved, named, client, pending,
                   generation, storeLock, cacheOpen, logout, challenged, bounds>>

-----------------------------------------------------------------------------
(* The logout task.                                                        *)

LogoutGoto(pc) == logout' = [logout EXCEPT !.pc = pc]

(* The client is taken, the runtime torn down, the server told (3 s).      *)
TakeClient ==
    /\ logout.pc = "take"
    /\ logout' = [logout EXCEPT !.pc = "check", !.victim = client]
    /\ client' = None
    /\ UNCHANGED <<store, caches, secSess, secLocal, saved, named, pending, generation,
                   storeLock, cacheOpen, auth, challenged, ui, bounds>>

(* Mutant: the check is gone.                                              *)
NeverNewer == FALSE

NewerSignIn == generation # logout.gen

(* A sign-in that began meanwhile owns everything below: leave it alone.   *)
CheckGeneration ==
    /\ logout.pc = "check"
    /\ IF NewerSignIn
       THEN logout' = [logout EXCEPT !.pc = "done", !.ok = TRUE, !.alone = FALSE]
       ELSE LogoutGoto("close")
    /\ UNCHANGED <<store, caches, secSess, secLocal, saved, named, client, pending,
                   generation, storeLock, cacheOpen, auth, challenged, ui, bounds>>

(* finish_logout_local_cleanup(): handles and pending passphrase first.    *)
CloseHandles ==
    /\ logout.pc = "close"
    /\ cacheOpen' = None /\ pending' = None
    /\ LogoutGoto("acquire")
    /\ UNCHANGED <<store, caches, secSess, secLocal, saved, named, client, generation,
                   storeLock, auth, challenged, ui, bounds>>

AcquireMove ==
    /\ logout.pc = "acquire" /\ storeLock = "free"
    /\ storeLock' = "logout"
    /\ LogoutGoto("moveStore")
    /\ UNCHANGED <<store, caches, secSess, secLocal, saved, named, client, pending,
                   generation, cacheOpen, auth, challenged, ui, bounds>>

(* move_stores_to_trash(): each relocation is best effort ...              *)
MoveStore ==
    /\ logout.pc = "moveStore"
    /\ store' \in {None, store}
    /\ LogoutGoto("moveCaches")
    /\ UNCHANGED <<caches, secSess, secLocal, saved, named, client, pending, generation,
                   storeLock, cacheOpen, auth, challenged, ui, bounds>>

(* Mutant: what the relocation left behind is not looked at.               *)
NoGate == UNCHANGED store /\ logout' = [logout EXCEPT !.pc = "scrub", !.ok = TRUE]

(* ... but a store still there afterwards is wiped in place, and makes the *)
(* logout fail when it survives that too.                                  *)
StoreGate ==
    /\ store' \in {None, store}
    /\ logout' = [logout EXCEPT !.pc = "scrub", !.ok = (store' = None)]

MoveCachesAndGate ==
    /\ logout.pc = "moveCaches"
    /\ caches' \in {None, caches}
    /\ StoreGate
    /\ storeLock' = "free"
    /\ UNCHANGED <<secSess, secLocal, saved, named, client, pending, generation, cacheOpen,
                   auth, challenged, ui, bounds>>

(* Mutant: the error leaves logout() before anyone is told.                *)
ScrubFailsSilently == logout' = NoLogout /\ UNCHANGED secrets

ScrubFails == logout' = [logout EXCEPT !.pc = "done", !.ok = FALSE] /\ UNCHANGED secrets

(* delete_account_secrets(): the victim's three entries and the three of   *)
(* the directory, whatever became of the stores.                           *)
ScrubSecrets ==
    /\ logout.pc = "scrub"
    /\ \/ /\ secSess' = IF logout.victim = None THEN secSess ELSE Forgotten(logout.victim)
          /\ secLocal' = None
          /\ LogoutGoto("done")
       \/ ScrubFails
    /\ UNCHANGED <<store, caches, saved, named, client, pending, generation, storeLock,
                   cacheOpen, auth, challenged, ui, bounds>>

-----------------------------------------------------------------------------
(* The main thread.                                                        *)

(* A new bridge: MatrixProtocol::new() opens the caches when the keychain  *)
(* has their keys; "held" is the cache the directory still holds then.     *)
NewHandle(local, held) ==
    /\ client' = None /\ pending' = None /\ generation' = 0
    /\ storeLock' = "free"
    /\ cacheOpen' = local
    /\ caches' = IF local = None THEN held ELSE local

NoSecrets == [s \in Ids |-> None]

(* startUnauthorisedCleanup() on the handle just made: the forms are       *)
(* disabled until loggedOut arrives or the timer fires.                    *)
StartCleanup ==
    /\ ui' = "cleanup"
    /\ logout' = [pc |-> "take", gen |-> 0, victim |-> None, ok |-> FALSE, alone |-> TRUE]

(* No saved session: the constructor prunes the account directory          *)
(* (QDir::removeRecursively, result ignored), start() cleans up.           *)
RestartSignedOut ==
    /\ ui = "down" /\ saved = None
    /\ store' \in {None, store}
    /\ \E held \in {None, caches} : NewHandle(secLocal, held)
    /\ StartCleanup
    /\ UNCHANGED <<secSess, secLocal, saved, named, auth, challenged, bounds>>

RestartRestoring ==
    /\ ui = "down" /\ saved # None /\ SecretsComplete(saved)
    /\ client' = None /\ pending' = None /\ storeLock' = "free"
    /\ cacheOpen' = secLocal /\ caches' = secLocal
    /\ named' = saved
    /\ BeginRestore(saved)
    /\ ui' = "main"
    /\ UNCHANGED <<store, secSess, secLocal, saved, logout, challenged, bounds>>

(* dropInsecureSession(): only a half-present set of secrets proves the    *)
(* session unusable.  Storage and secrets go before the settings are       *)
(* saved; every removal may fail, and none is looked at.                   *)
RestartIncomplete ==
    /\ ui = "down" /\ saved # None
    /\ ~SecretsComplete(saved) /\ ~SecretsAbsent(saved)
    /\ store' \in {None, store} /\ caches' \in {None, caches}
    /\ secSess' \in {secSess, Forgotten(saved), NoSecrets} /\ ForgetLocalSecrets
    /\ named' = saved
    /\ ui' = "drop"
    /\ UNCHANGED <<saved, client, pending, generation, storeLock, cacheOpen, auth,
                   logout, challenged, bounds>>

DropSettings ==
    /\ ui = "drop"
    /\ WriteSettings(None)
    /\ NewHandle(secLocal, caches)
    /\ StartCleanup
    /\ UNCHANGED <<store, secSess, secLocal, auth, challenged, attempts, crashes,
                   overtaken>>

(* No secret visible may mean an unreadable keychain: the user decides.    *)
(* Signing out here erases what is left and shows the forms, no cleanup.   *)
RestartAbsent ==
    /\ ui = "down" /\ saved # None /\ SecretsAbsent(saved)
    /\ secSess' \in {secSess, NoSecrets}
    /\ WriteSettings(None)
    /\ NewHandle(None, caches)
    /\ ui' = "intro"
    /\ UNCHANGED <<store, secLocal, auth, logout, challenged, attempts, crashes,
                   overtaken>>

(* Whatever setting the user changes, all of them are saved again.         *)
SaveSettings ==
    /\ ui \in {"cleanup", "intro", "main", "signingOut"} /\ saved # named
    /\ saved' = named /\ unsaved' = FALSE
    /\ UNCHANGED <<store, caches, secSess, secLocal, named, client, pending, generation,
                   storeLock, cacheOpen, auth, logout, challenged, ui, attempts, crashes,
                   overtaken, ghosts>>

(* The 15 s safety timer of startUnauthorisedCleanup().                    *)
CleanupTimer ==
    /\ SafetyTimer /\ ui = "cleanup"
    /\ ui' = "intro"
    /\ UNCHANGED <<store, caches, secSess, secLocal, saved, named, client, pending, generation,
                   storeLock, cacheOpen, auth, logout, challenged, bounds>>

(* Mutant: the Rust logout first, and the secrets left to it.              *)
SignOutLeavesItToRust ==
    /\ ui = "main" /\ logout.pc = "idle"
    /\ logout' = NewLogout
    /\ ui' = "signingOut"
    /\ UNCHANGED <<store, caches, secSess, secLocal, saved, named, client, pending, generation,
                   storeLock, cacheOpen, auth, challenged, bounds>>

(* signOut(): the session's own keychain entries go first, ...             *)
SignOut ==
    /\ ui = "main" /\ logout.pc = "idle"
    /\ ForgetSession(named)
    /\ ui' = "forgetLocal"
    /\ UNCHANGED <<store, caches, secLocal, saved, named, client, pending, generation,
                   storeLock, cacheOpen, auth, logout, challenged, bounds>>

ForgetLocal ==
    /\ ui = "forgetLocal"
    /\ ForgetLocalSecrets
    /\ ui' = "forgetSettings"
    /\ UNCHANGED <<store, caches, secSess, saved, named, client, pending, generation,
                   storeLock, cacheOpen, auth, logout, challenged, bounds>>

(* ... then the settings, ...                                              *)
ForgetSettings ==
    /\ ui = "forgetSettings"
    /\ WriteSettings(None)
    /\ ui' = "clearAll"
    /\ UNCHANGED <<store, caches, secSess, secLocal, client, pending, generation,
                   storeLock, cacheOpen, auth, logout, challenged, attempts, crashes,
                   overtaken>>

(* ... then every secret there is, and only then the Rust logout.          *)
ClearAllAndLogout ==
    /\ ui = "clearAll"
    /\ \/ secSess' = NoSecrets /\ secLocal' = None
       \/ UNCHANGED secrets
    /\ logout' = NewLogout
    /\ ui' = "signingOut"
    /\ UNCHANGED <<store, caches, saved, named, client, pending, generation, storeLock,
                   cacheOpen, auth, challenged, bounds>>

(* loggedOut, or the timer: the old runtime is destroyed with whatever     *)
(* still runs on it, and a new bridge is made on the same directory.       *)
FinishSignOut ==
    /\ ui = "signingOut"
    /\ logout.pc = "done" \/ SafetyTimer
    /\ NewHandle(secLocal, caches)
    /\ auth' = NoAuth /\ logout' = NoLogout /\ challenged' = FALSE
    /\ ui' = "intro"
    /\ UNCHANGED <<store, secSess, secLocal, saved, named, bounds>>

(* loggedOut of the startup cleanup.                                       *)
FinishCleanup ==
    /\ logout.pc = "done" /\ ui # "signingOut"
    /\ logout' = NoLogout
    /\ ui' = IF ui = "cleanup" THEN "intro" ELSE ui
    /\ UNCHANGED <<store, caches, secSess, secLocal, saved, named, client, pending, generation,
                   storeLock, cacheOpen, auth, challenged, bounds>>

(* "Try again" after a failed restore, while the token can be read.        *)
RetryRestore ==
    /\ ui = "restoreFailed" /\ secSess[named] # None
    /\ generation < MaxGeneration
    /\ BeginRestore(named)
    /\ ui' = "main"
    /\ UNCHANGED <<store, caches, secSess, secLocal, saved, named, client, pending,
                   storeLock, cacheOpen, logout, challenged, bounds>>

(* "Sign out" there: secrets, then settings; no Rust logout is run.        *)
GiveUpRestore ==
    /\ ui = "restoreFailed"
    /\ ForgetSession(named) /\ ForgetLocalSecrets
    /\ ui' = "giveUp"
    /\ UNCHANGED <<store, caches, saved, named, client, pending, generation, storeLock,
                   cacheOpen, auth, logout, challenged, bounds>>

GiveUpSettings ==
    /\ ui = "giveUp"
    /\ WriteSettings(None)
    /\ ui' = "intro"
    /\ UNCHANGED <<store, caches, secSess, secLocal, client, pending, generation,
                   storeLock, cacheOpen, auth, logout, challenged, attempts, crashes,
                   overtaken>>

(* The process dies, or is quit: what was in memory is gone.               *)
Crash ==
    /\ ui # "down" /\ crashes < MaxCrashes
    /\ crashes' = crashes + 1
    /\ client' = None /\ pending' = None /\ generation' = 0
    /\ storeLock' = "free" /\ cacheOpen' = None
    /\ auth' = NoAuth /\ logout' = NoLogout /\ challenged' = FALSE
    /\ ui' = "down" /\ named' = None /\ unsaved' = FALSE
    /\ UNCHANGED <<store, caches, secSess, secLocal, saved, attempts, overtaken, ghosts>>

-----------------------------------------------------------------------------
Init ==
    /\ store = None /\ caches = None /\ secSess = NoSecrets /\ secLocal = None
    /\ saved = None /\ named = None
    /\ client = None /\ pending = None /\ generation = 0 /\ storeLock = "free"
    /\ cacheOpen = None
    /\ auth = NoAuth /\ logout = NoLogout /\ challenged = FALSE
    /\ ui = "down" /\ attempts = 0 /\ crashes = 0 /\ overtaken = FALSE
    /\ unsaved = FALSE /\ ghosts = {}

AuthStep ==
    \/ WipeStore \/ ResetCaches \/ TakePassphrase \/ LoadSecrets \/ AcquireStore
    \/ OpenStore \/ SdkCall \/ CommitSecrets \/ OpenCacheStores \/ SetClient

LogoutStep ==
    \/ TakeClient \/ CheckGeneration \/ CloseHandles \/ AcquireMove
    \/ MoveStore \/ MoveCachesAndGate \/ ScrubSecrets

(* Steps the main thread takes by itself, once it is where they start.     *)
MainStep ==
    \/ ReportSignIn \/ ReportRestore \/ DropSettings
    \/ ForgetLocal \/ ForgetSettings \/ ClearAllAndLogout \/ GiveUpSettings
    \/ (logout.pc = "done" /\ FinishSignOut) \/ FinishCleanup

(* Steps the user, the clock or the operating system decides on.           *)
UserStep ==
    \/ \E kind \in {"login", "register"} : BeginSignIn(kind)
    \/ BeginSubmit \/ SignOut \/ RetryRestore \/ GiveUpRestore
    \/ RestartSignedOut \/ RestartRestoring \/ RestartIncomplete \/ RestartAbsent
    \/ SaveSettings

Next == AuthStep \/ LogoutStep \/ MainStep \/ UserStep
        \/ CleanupTimer \/ FinishSignOut \/ Crash

(* The runtime polls its tasks and the event loop its handlers; the user   *)
(* and the timers owe nothing.                                             *)
Fairness == WF_vars(AuthStep) /\ WF_vars(LogoutStep) /\ WF_vars(MainStep)

Spec     == Init /\ [][Next]_vars
FairSpec == Spec /\ Fairness

-----------------------------------------------------------------------------
(* Properties.                                                             *)

(* Every variable stays in its range.                                      *)
TypeOK ==
    /\ store \in MaybeId /\ caches \in MaybeId
    /\ secSess \in [Ids -> MaybeId] /\ secLocal \in MaybeId
    /\ saved \in MaybeId /\ named \in MaybeId
    /\ client \in MaybeId /\ pending \in MaybeId
    /\ generation \in 0..MaxGeneration
    /\ storeLock \in {"free", "auth", "logout"}
    /\ cacheOpen \in MaybeId
    /\ auth \in AuthStates /\ logout \in LogoutStates
    /\ challenged \in BOOLEAN /\ ui \in Screens
    /\ attempts \in 0..MaxAttempts /\ crashes \in 0..MaxCrashes
    /\ overtaken \in BOOLEAN /\ unsaved \in BOOLEAN /\ ghosts \subseteq Ids

(* The store lock is held by exactly the task whose place in the code says *)
(* so: an authentication task while it opens the databases, a logout while *)
(* it moves them.  (store_guard.rs, lock_store_dir)                        *)
StoreLockHeldWhereUsed ==
    /\ storeLock = "auth" <=> auth.pc = "open"
    /\ storeLock = "logout" <=> logout.pc \in {"moveStore", "moveCaches"}

(* Whatever happens in between -- a crash at any point of a login, of a    *)
(* sign-out, of a cleanup -- a saved session whose secrets are all there   *)
(* finds the store those secrets open.  Anything else restores an account  *)
(* onto a missing or undecipherable crypto store.  The one exception is a  *)
(* session that both the settings and the keychain failed to forget.       *)
SavedSessionRestorable ==
    saved # None /\ SecretsComplete(saved) /\ saved \notin ghosts => store = secSess[saved]

(* build_client() never opens a store created with another passphrase: the *)
(* wipe of prepare_fresh_login, the passphrase kept across a registration  *)
(* challenge and the keychain agree with the directory; but for the        *)
(* restore of a session that was to be forgotten, as above.                *)
OpensOnlyItsOwnStore == auth.pc = "open" => Openable \/ auth.id \in ghosts

(* While a registration challenge is outstanding, the passphrase of the    *)
(* store the first register() call created is still at hand.               *)
ChallengeKeepsItsStore ==
    challenged /\ auth.pc = "idle" => pending # None /\ store \in {None, pending}

(* A logout that wiped and reported success, with no authentication task   *)
(* beside it, left neither store nor secrets of the account it signed out. *)
LogoutErasesDeparted ==
    logout.pc = "done" /\ logout.ok /\ logout.alone =>
        /\ store = None /\ pending = None /\ secLocal = None
        /\ logout.victim # None => secSess[logout.victim] = None

(* A session on screen is the one the settings name, on its own store and *)
(* with cache databases open; and the file names it too, which is what a   *)
(* restart restores, unless it could not be written ("account/session      *)
(* state NOT persisted").                                                  *)
LiveSessionIntact ==
    ui = "main" /\ auth.pc = "idle" /\ client # None =>
        /\ named = client /\ (unsaved \/ saved = client) /\ SecretsComplete(client)
        /\ store = secSess[client] /\ cacheOpen # None

(* The same, with a slow startup cleanup underneath: unless the sign-in    *)
(* began after the cleanup had already looked at the generation counter.   *)
OnlyTheWindowHurts ==
    ~overtaken => SavedSessionRestorable /\ OpensOnlyItsOwnStore
                  /\ ChallengeKeepsItsStore /\ LiveSessionIntact

(* The cleanup of a start without a session leaves no account's secrets in *)
(* the keychain (app_controller.cpp: logout() wipes any local data left    *)
(* from a previous start, "store, caches, keychain").                      *)
CleanupLeavesNoSecrets ==
    ui = "cleanup" /\ logout.pc = "done" /\ logout.ok => secSess = NoSecrets

(* Every disabled screen gives way: the cleanup overlay, the sign-out      *)
(* curtain, the steps of forgetting a session.                             *)
ScreensComeBack ==
    ui \notin {"down", "intro", "main", "restoreFailed"} ~>
        ui \in {"down", "intro", "main", "restoreFailed"}

(* Every sign-in and every restore ends, with success or an error, even    *)
(* when a logout holds the store lock meanwhile.                           *)
SignInSettles == auth.pc # "idle" ~> auth.pc = "idle"
=============================================================================
