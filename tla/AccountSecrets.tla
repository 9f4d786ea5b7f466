--------------------------- MODULE AccountSecrets ---------------------------
(***************************************************************************)
(* The accounts of the device and the one secret store they share: start,  *)
(* sign-in, key-storage choice, sign-out and the sweeping of dead accounts *)
(* of src/src/app/app_controller.cpp and src/src/intro/, on top of the     *)
(* calls of src/rust/src/keychain.rs (SecretCalls, which SecretStore shows *)
(* to be atomic).                                                          *)
(*                                                                         *)
(* The settings name the backend that holds each session's secrets; the    *)
(* store itself records nothing of the kind.  The program may be killed    *)
(* between any two writes, and the keychain may refuse to answer or answer *)
(* that it has no such item when it has.                                   *)
(***************************************************************************)
EXTENDS Sequences, Naturals

CONSTANTS
  Accounts,   \* sessions, each with a device id and a directory of its own
  MaxKey,     \* vault keys told apart: one retained, one sealing, one fresh
  NoOne

ASSUME AccountsAssumption == MaxKey \in Nat \ {0}

\* An account's six secrets: three named by the session, three by its directory.
Kinds == {"session", "local"}
Secrets == Accounts \X Kinds
INSTANCE SecretCalls

VARIABLES
  store,     \* the secret store
  mem,       \* settings in memory: a marker per signed-in account, a preference
  disk,      \* settings as last saved
  active,    \* the account on screen, NoOne if it has no session
  screen,    \* what the user interface waits for
  embedded,  \* the sign-in form is a popup over a running account
  todo,      \* what remains of the handler that runs
  asked,     \* accounts that the user or the server asked to sign out
  dropped,   \* accounts that the program gave up by itself
  causes     \* which of the known ways to lose secrets have been taken

vars == <<store, mem, disk, active, screen, embedded, todo, asked,
          dropped, causes>>

Mine(a) == {a} \X Kinds
SignedIn(settings) == {a \in Accounts : settings.marker[a] # "none"}

-----------------------------------------------------------------------------
(* What the store answers, given how the keychain takes it (its mood m).  *)

Moods == {"answers", "refuses", "withholds"}

Refused(m) == store.backend = "keychain" /\ m = "refuses"

CanLook(m) == store.cache.full \/ (Opens(store) /\ ~Refused(m))
Seen(m) == IF store.cache.full THEN store.cache.held
           ELSE IF store.backend = "keychain" /\ m = "withholds" THEN {}
           ELSE Held(store)
Looked(m) == IF CanLook(m) THEN Cached(store, Seen(m)) ELSE store

(* Mutant: a vault that is not unlocked counts as absent, file or not.     *)
StateWithoutFile(m) ==
  IF store.backend = "keychain"
    THEN IF Refused(m) THEN "KeychainUnavailable" ELSE "KeychainReady"
  ELSE IF store.key # 0 THEN "VaultUnlocked" ELSE "VaultAbsent"

\* secretStoreState: the probe goes to the keychain, past the cache.
State(m) == IF store.backend = "keychain"
           THEN IF Refused(m) THEN "KeychainUnavailable" ELSE "KeychainReady"
         ELSE IF store.key # 0 THEN "VaultUnlocked"
         ELSE IF store.file.key # 0 THEN "VaultLocked" ELSE "VaultAbsent"

Ready(m) == State(m) \in {"KeychainReady", "VaultUnlocked"}

\* ClassifySessionSecrets.
Class(m, a) == IF ~CanLook(m) THEN "ReadFailed"
            ELSE IF Mine(a) \subseteq Seen(m) THEN "Complete"
            ELSE IF Mine(a) \cap Seen(m) = {} THEN "AllAbsent" ELSE "Incomplete"

\* wantVault: any signed-in account answers for all; the preference only when
\* nobody is signed in.
StartBackend(settings) ==
  IF \/ \E a \in Accounts : settings.marker[a] = "vault"
     \/ SignedIn(settings) = {} /\ settings.preferred = "vault"
  THEN "vault" ELSE "keychain"

-----------------------------------------------------------------------------
(* The pieces that handlers are made of, run one after the other. *)

Step(op, arg) == <<op, arg>>

\* Account::deleteSecrets, key by key; sessions first.
Scrub(a) == <<Step("scrub", <<a, "session">>), Step("scrub", <<a, "local">>)>>
Clear(a) == <<Step("clear", a)>>
Save == <<Step("save", NoOne)>>
WipeIfNone == <<Step("wipe", NoOne)>>
Go(s) == <<Step("go", s)>>
Sweep == <<Step("sweep", NoOne)>>
Bury(dead) == <<Step("bury", dead)>>

\* dropInsecureSession.
Drop(a) == Scrub(a) \o Clear(a) \o WipeIfNone \o Save

Idle == todo = <<>>
Rest == Tail(todo)
Doing(op) == todo # <<>> /\ Head(todo)[1] = op
Arg == Head(todo)[2]

\* A delete loads the bundle, and saves it only if it held the secret; its failure
\* is ignored.
DoScrub(m) ==
  /\ Doing("scrub")
  /\ \/ store' = Looked(m)
     \/ /\ CanLook(m) /\ ~Refused(m) /\ Saves(store)
        /\ Arg \in Seen(m)
        /\ store' = Written(Looked(m), Seen(m) \ {Arg})
  /\ todo' = Rest
  /\ UNCHANGED <<mem, disk, active, screen, embedded, asked, dropped, causes>>

DoClear ==
  /\ Doing("clear")
  /\ mem' = [mem EXCEPT !.marker[Arg] = "none"]
  /\ active' = IF active = Arg THEN NoOne ELSE active
  /\ todo' = Rest
  /\ UNCHANGED <<store, disk, screen, embedded, asked, dropped, causes>>

\* saveSettings: no caller looks at its result, and what was asked for or dropped
\* stays so until the file says it too.
DoSave ==
  /\ Doing("save")
  /\ \/ UNCHANGED <<disk, asked, dropped>>
     \/ /\ disk' = mem
        /\ asked' = asked \cap SignedIn(mem)
        /\ dropped' = dropped \cap SignedIn(mem)
  /\ todo' = Rest
  /\ UNCHANGED <<store, mem, active, screen, embedded, causes>>

(* Mutant: the store is wiped although others are signed in.              *)
DoWipeAnyway(m) ==
  /\ Doing("wipe")
  /\ store' = IF ~Refused(m) THEN Erased(store, FALSE) ELSE store
  /\ todo' = Rest
  /\ UNCHANGED <<mem, disk, active, screen, embedded, asked, dropped, causes>>

\* keychainClearAll, when nobody is signed in.  A copy whose removal fails stays; if
\* it is the one in use, the rest stays with it.
DoWipe(m) ==
  /\ Doing("wipe")
  /\ \/ /\ SignedIn(mem) = {} /\ ~Refused(m)
        /\ \E kept \in BOOLEAN : store' = Erased(store, kept)
     \/ UNCHANGED store
  /\ todo' = Rest
  /\ UNCHANGED <<mem, disk, active, screen, embedded, asked, dropped, causes>>

DoGo ==
  /\ Doing("go")
  /\ screen' = Arg
  /\ embedded' = FALSE
  /\ todo' = Rest
  /\ UNCHANGED <<store, mem, disk, active, asked, dropped, causes>>

\* sweepUndeadAccounts: absence is proof only beside a complete set.
Undead(m) ==
  {a \in SignedIn(mem) \ {active} :
     \/ Class(m, a) = "Incomplete"
     \/ Class(m, a) = "AllAbsent" /\ \E b \in SignedIn(mem) : Class(m, b) = "Complete"}

\* Classified once; then the dead are put down one after the other, and the settings
\* saved once.
DoSweep(m) ==
  /\ Doing("sweep")
  /\ todo' = (IF Ready(m) /\ Undead(m) # {} THEN Bury(Undead(m)) ELSE <<>>) \o Rest
  /\ store' = IF Ready(m) /\ SignedIn(mem) # {} THEN Looked(m) ELSE store
  /\ UNCHANGED <<mem, disk, active, screen, embedded, asked, dropped, causes>>

DoBury ==
  /\ Doing("bury")
  /\ \E a \in Arg :
       /\ todo' = Scrub(a) \o Clear(a)
                    \o (IF Arg = {a} THEN Save ELSE Bury(Arg \ {a})) \o Rest
       /\ dropped' = dropped \union {a}
  /\ UNCHANGED <<store, mem, disk, active, screen, embedded, asked, causes>>

DoMove == DoClear \/ DoSave \/ DoGo \/ DoBury

-----------------------------------------------------------------------------
(* Start-up. *)

\* The constructor, up to its gate: a locked vault or a keychain that does not
\* answer is never taken for missing secrets.
Launch ==
  /\ screen = "off"
  /\ mem' = disk
  /\ store' = Restarted(store, StartBackend(disk))
  /\ active' \in IF SignedIn(disk) = {} THEN {NoOne} ELSE SignedIn(disk)
  /\ screen' = "gate"
  /\ UNCHANGED <<disk, embedded, todo, asked, dropped, causes>>

Gate(m) ==
  /\ screen = "gate" /\ Idle
  /\ IF active = NoOne
       THEN /\ screen' = "intro"
            /\ todo' = Sweep
            /\ UNCHANGED <<store, dropped>>
     ELSE IF State(m) \in {"KeychainUnavailable", "VaultLocked"}
       THEN /\ screen' = "locked"
            /\ UNCHANGED <<store, todo, dropped>>
     ELSE IF State(m) = "VaultAbsent" \/ Class(m, active) = "Incomplete"
       THEN /\ todo' = Drop(active) \o Go("intro") \o Sweep
            /\ dropped' = dropped \union {active}
            /\ store' = IF State(m) = "VaultAbsent" THEN store ELSE Looked(m)
            /\ UNCHANGED screen
       ELSE /\ store' = Looked(m)
            /\ screen' = "token"
            /\ UNCHANGED <<todo, dropped>>
  /\ embedded' = FALSE
  /\ UNCHANGED <<mem, disk, active, asked, causes>>

\* start(): the unlock screen; its reset; and a keychain that has come back.
UnlockVault(m) ==
  /\ screen = "locked" /\ Idle
  /\ State(m) = "VaultLocked"
  /\ store' = Unlocked(store)
  /\ screen' = "token"
  /\ UNCHANGED <<mem, disk, active, embedded, todo, asked, dropped, causes>>

ResetVault(m) ==
  /\ screen = "locked" /\ Idle
  /\ State(m) = "VaultLocked"
  /\ todo' = Drop(active) \o Go("intro") \o Sweep
  /\ asked' = asked \union {active}
  /\ UNCHANGED <<store, mem, disk, active, screen, embedded, dropped, causes>>

Recover(m) ==
  /\ screen = "locked" /\ Idle
  /\ Ready(m)
  /\ IF Class(m, active) = "Incomplete"
       THEN /\ todo' = Drop(active) \o Go("intro") \o Sweep
            /\ dropped' = dropped \union {active}
            /\ UNCHANGED screen
       ELSE screen' = "token" /\ UNCHANGED <<todo, dropped>>
  /\ store' = Looked(m)
  /\ UNCHANGED <<mem, disk, active, embedded, asked, causes>>

\* The token decides; when it is absent, whether any of its kin can be seen.
SignOutHere(a) ==
  Scrub(a) \o Clear(a) \o WipeIfNone \o Save \o Go("intro")

ReadToken(m) ==
  /\ screen = "token" /\ Idle
  /\ Class(m, active) \in {"Complete", "Incomplete"}
  /\ IF <<active, "session">> \in Seen(m)
       THEN todo' = Go("main") \o Sweep /\ UNCHANGED dropped
       ELSE /\ todo' = SignOutHere(active)
            /\ dropped' = dropped \union {active}
  /\ store' = Looked(m)
  /\ UNCHANGED <<mem, disk, active, screen, embedded, asked, causes>>

\* Otherwise a dialog offers to try again, or to sign out, asking twice.
TryAgain(m) ==
  /\ screen = "token" /\ Idle
  /\ Class(m, active) \in {"ReadFailed", "AllAbsent"}
  /\ store' = Forgotten(store)
  /\ UNCHANGED <<mem, disk, active, screen, embedded, todo, asked, dropped, causes>>

GiveUpToken(m) ==
  /\ screen = "token" /\ Idle
  /\ Class(m, active) \in {"ReadFailed", "AllAbsent"}
  /\ store' = Looked(m)
  /\ todo' = SignOutHere(active)
  /\ asked' = asked \union {active}
  /\ UNCHANGED <<mem, disk, active, screen, embedded, dropped, causes>>

-----------------------------------------------------------------------------
(* The sign-in form, and the choice of the key storage beside it. *)

(* Mutant: one derivation more than the bound.                            *)
NewKeyPastEnd == (1..(MaxKey + 1)) \ {store.key, store.file.key}

NewKey == (1..MaxKey) \ {store.key, store.file.key}

Prefer(b) == IF embedded THEN UNCHANGED <<mem, todo>>
             ELSE mem' = [mem EXCEPT !.preferred = b] /\ todo' = Save

\* The startup cleanup's logout deletes the passphrases of the new directory,
\* which are not there: all it does is load the bundle.
CleanUp(m) ==
  /\ screen = "intro" /\ Idle /\ ~embedded
  /\ SignedIn(mem) = {}
  /\ CanLook(m)
  /\ store' = Looked(m)
  /\ UNCHANGED <<mem, disk, active, screen, embedded, todo, asked, dropped, causes>>

\* Whose marker says that the vault holds their secrets.
InVault == {a \in SignedIn(mem) : mem.marker[a] = "vault"}

\* The keychain card, and "Or skip and use system keychain".  A failure is shown
\* by the card; the link ignores it and goes back to the form.
UseKeychain ==
  /\ screen = "intro" => ~embedded
  /\ screen \in {"intro", "create"} /\ Idle
  /\ IF store.backend = "keychain" THEN UNCHANGED <<store, causes>>
     ELSE \/ /\ Moves(store)
             /\ \E kept \in BOOLEAN : store' = SwitchedToKeychain(store, kept)
             /\ causes' = causes \union (IF InVault # {} THEN {"flip"} ELSE {})
          \/ screen = "create" /\ UNCHANGED <<store, causes>>
  /\ Prefer("keychain")
  /\ screen' = "intro"
  /\ UNCHANGED <<disk, active, embedded, asked, dropped>>

\* The vault card; without an unlocked vault the form for a new password opens.
UseVault(m) ==
  /\ screen = "intro" /\ Idle /\ ~embedded
  /\ IF State(m) = "VaultUnlocked"
       THEN Prefer("vault") /\ UNCHANGED screen
       ELSE screen' = "create" /\ UNCHANGED <<mem, todo>>
  /\ UNCHANGED <<store, disk, active, embedded, asked, dropped, causes>>

\* set_passphrase; a sealing that fails leaves the form open.
CreatePassword ==
  /\ screen = "create" /\ Idle
  /\ \E k \in NewKey :
       \/ /\ store' = Passphrased(store, k)
          /\ Prefer("vault")
          /\ screen' = "intro"
       \/ /\ Reseals(store)
          /\ store' = Flipped(store, k)
          /\ UNCHANGED <<mem, todo, screen>>
  /\ causes' = causes \union
       (IF SignedIn(mem) # {} THEN {"password"} ELSE {})
  /\ UNCHANGED <<disk, active, embedded, asked, dropped>>

\* checkSecretBackendForNewSession, before the form and again on submitting it.
NeedPassword(m) ==
  /\ screen = "intro" /\ Idle
  /\ ~Ready(m)
  /\ screen' = "create"
  /\ UNCHANGED <<store, mem, disk, active, embedded, todo, asked, dropped, causes>>

Unused(a) == /\ disk.marker[a] = "none" /\ mem.marker[a] = "none"
             /\ Mine(a) \cap (store.item \union store.file.held
                                \union store.cache.held) = {}

(* Mutant: a bundle that cannot be read does not stop the sign-in.         *)
CommitAnyway(m) ==
  /\ screen = "intro" /\ Idle
  /\ Ready(m)
  /\ \E a \in Accounts :
       /\ Unused(a)
       /\ store' = IF CanLook(m) THEN Written(Looked(m), Seen(m) \union Mine(a)) ELSE store
       /\ todo' = <<Step("persist", a)>>
  /\ UNCHANGED <<mem, disk, active, screen, embedded, asked, dropped, causes>>

\* commit_session_secrets, on the Rust side of the login.  A bundle that was
\* withheld is written back without what it held.
Commit(m) ==
  /\ screen = "intro" /\ Idle
  /\ Ready(m)
  /\ CanLook(m)
  /\ \E a \in Accounts :
       /\ Unused(a)
       /\ store' = Written(Looked(m), Seen(m) \union Mine(a))
       /\ todo' = <<Step("persist", a)>>
       /\ asked' = asked \ {a}
       /\ dropped' = dropped \ {a}
  /\ causes' = causes \union (IF Held(store) \subseteq Seen(m) THEN {} ELSE {"withheld"})
  /\ UNCHANGED <<mem, disk, active, screen, embedded>>

\* persistSessionFor: the marker names the backend in use.  The entry of another
\* session of the same user is replaced.
DoPersist(m) ==
  /\ Doing("persist")
  /\ IF Ready(m) /\ Class(m, Arg) \in {"AllAbsent", "Incomplete"}
       THEN /\ todo' = Scrub(Arg) \o Clear(Arg) \o Save
            /\ UNCHANGED <<mem, active, asked>>
       ELSE /\ mem' = [mem EXCEPT !.marker[Arg] =
                         IF State(m) \in {"VaultLocked", "VaultUnlocked"}
                           THEN "vault" ELSE "keychain"]
            /\ active' = Arg
            /\ \E twin \in {NoOne} \union SignedIn(mem) :
                 /\ todo' = (IF twin = NoOne THEN <<>> ELSE Scrub(twin) \o Clear(twin))
                              \o Save \o Go("main") \o Sweep
                 /\ asked' = asked \union ({twin} \ {NoOne})
  /\ store' = IF Ready(m) THEN Looked(m) ELSE store
  /\ UNCHANGED <<disk, screen, embedded, dropped, causes>>

-----------------------------------------------------------------------------
(* A running account. *)

\* showAddAccountIntro.
AddAccount(m) ==
  /\ screen = "main" /\ Idle
  /\ Ready(m)
  /\ screen' = "intro"
  /\ embedded' = TRUE
  /\ UNCHANGED <<store, mem, disk, active, todo, asked, dropped, causes>>

CloseForm ==
  /\ embedded
  /\ screen \in {"intro", "create"} /\ Idle
  /\ screen' = "main"
  /\ embedded' = FALSE
  /\ UNCHANGED <<store, mem, disk, active, todo, asked, dropped, causes>>

\* Restores and caches read their secrets at any time.
BackgroundRead(m) ==
  /\ screen = "main"
  /\ store' = Looked(m)
  /\ UNCHANGED <<mem, disk, active, screen, embedded, todo, asked, dropped, causes>>

\* activateAccount.
SwitchAccount ==
  /\ screen = "main" /\ Idle
  /\ active' \in SignedIn(mem)
  /\ UNCHANGED <<store, mem, disk, screen, embedded, todo, asked, dropped, causes>>

\* signOut: the account on screen; another one takes its place.
SignOut ==
  /\ screen = "main" /\ Idle
  /\ active # NoOne
  /\ asked' = asked \union {active}
  /\ todo' = Scrub(active) \o Clear(active) \o Save \o WipeIfNone \o
       (IF SignedIn(mem) = {active} THEN Go("intro") ELSE Go("next"))
  /\ UNCHANGED <<store, mem, disk, active, screen, embedded, dropped, causes>>

ShowNext ==
  /\ screen = "next" /\ Idle
  /\ active' \in SignedIn(mem)
  /\ screen' \in {"main", "intro"}
  /\ embedded' = FALSE
  /\ UNCHANGED <<store, mem, disk, todo, asked, dropped, causes>>

\* A restore that failed, and the dialog's "Sign out": the others stay.
GiveUpRestore ==
  /\ screen = "main" /\ Idle
  /\ active # NoOne
  /\ asked' = asked \union {active}
  /\ todo' = Scrub(active) \o Clear(active) \o Save \o Go("intro")
  /\ UNCHANGED <<store, mem, disk, active, screen, embedded, dropped, causes>>

\* An account in the background, signed out by its server or removed.
SignOutOther(a) ==
  /\ screen = "main" /\ Idle
  /\ a \in SignedIn(mem) \ {active}
  /\ asked' = asked \union {a}
  /\ todo' = Scrub(a) \o Clear(a) \o Save
  /\ UNCHANGED <<store, mem, disk, active, screen, embedded, dropped, causes>>

-----------------------------------------------------------------------------
\* The program ends, or is killed between any two writes.
Die ==
  /\ screen # "off"
  /\ screen' = "off"
  /\ todo' = <<>>
  /\ mem' = disk
  /\ active' = NoOne
  /\ embedded' = FALSE
  /\ store' = Forgotten(store)
  /\ UNCHANGED <<disk, asked, dropped, causes>>

DoCalls(m) == DoScrub(m) \/ DoWipe(m) \/ DoSweep(m) \/ DoPersist(m)

Nothing == [marker |-> [a \in Accounts |-> "none"], preferred |-> "keychain"]

Init ==
  /\ store = Fresh
  /\ mem = Nothing
  /\ disk = Nothing
  /\ active = NoOne
  /\ screen = "off"
  /\ embedded = FALSE
  /\ todo = <<>>
  /\ asked = {}
  /\ dropped = {}
  /\ causes = {}

Next ==
  \/ Launch
  \/ UseKeychain \/ CreatePassword
  \/ CloseForm \/ SwitchAccount \/ SignOut \/ ShowNext \/ GiveUpRestore
  \/ \E a \in Accounts : SignOutOther(a)
  \/ \E m \in Moods :
       \/ Gate(m) \/ UnlockVault(m) \/ ResetVault(m) \/ Recover(m)
       \/ ReadToken(m) \/ TryAgain(m) \/ GiveUpToken(m)
       \/ CleanUp(m) \/ UseVault(m) \/ NeedPassword(m) \/ Commit(m)
       \/ AddAccount(m) \/ BackgroundRead(m)
       \/ DoCalls(m)
  \/ DoMove
  \/ Die

Spec == Init /\ [][Next]_vars

-----------------------------------------------------------------------------
Settings == [marker : [Accounts -> {"none", "keychain", "vault"}],
             preferred : {"keychain", "vault"}]

\* The shapes of the store, of the settings in memory and saved, and of the
\* screens; markers are only those of accounts.
TypeOK ==
  /\ store \in Stores
  /\ mem \in Settings /\ disk \in Settings
  /\ active \in Accounts \union {NoOne}
  /\ screen \in {"off", "gate", "locked", "token", "intro", "create", "main", "next"}
  /\ embedded \in BOOLEAN
  /\ asked \subseteq Accounts /\ dropped \subseteq Accounts
  /\ causes \subseteq {"flip", "password", "withheld"}

Whole(a) == Mine(a) \subseteq store.item \/ Mine(a) \subseteq store.file.held

\* What the next start would read for the saved sessions.
StartCopy == IF StartBackend(disk) = "vault" THEN store.file.held ELSE store.item

\* A saved session that nobody asked to sign out and that the program did not give
\* up has its secrets, all of them, in the copy that the next start reads, whenever
\* the program is killed and whatever write fails: unless a pure flip of the backend,
\* a new master password or a bundle that the keychain withheld came before.
SessionsAreFound ==
  \A a \in SignedIn(disk) \ (asked \union dropped) :
    Mine(a) \subseteq StartCopy \/ causes # {}

\* The program never signs out by itself (dropInsecureSession, the sweep of dead
\* accounts, the absent token) an account that nobody asked to sign out and whose
\* secrets are all still in one of the copies; a withheld bundle alone never makes it.
DropsAreEarned ==
  [][\A a \in dropped' \ (dropped \union asked) :
       ~Whole(a) \/ causes \cap {"flip", "password"} # {}]_vars

\* A vault can be unlocked with a key that does not open its file: a new master
\* password was set over one that an earlier password sealed.  It locks out no
\* saved session, of those that are not on their way out, unless that password was
\* set beside one.
UnreadableVaultLocksOutNobody ==
  store.backend = "vault" /\ store.key # 0 /\ ~Readable(store) =>
    SignedIn(disk) \subseteq asked \union dropped \/ causes # {}
=============================================================================
