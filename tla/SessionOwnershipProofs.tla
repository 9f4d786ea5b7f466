----------------------- MODULE SessionOwnershipProofs -----------------------
(***************************************************************************)
(* TLAPS proofs of the remaining safety properties of SessionLifecycle:    *)
(* the store lock, which store a sign-in opens, what a registration        *)
(* challenge and a live session may rely on, and what a logout erases.     *)
(***************************************************************************)
EXTENDS SessionSafetyProofs

(* After its wipe a first sign-in finds no store: only build_client()      *)
(* makes one, and there is one authentication task.                        *)
FreshStore ==
    auth.kind \in {"login", "register"} /\ auth.pc \in {"reset", "pass", "acquire", "open"} =>
        store = None

(* From drawing it to committing it, the passphrase stays pending.         *)
PassphraseKept ==
    ~overtaken /\ auth.kind # "restore"
        /\ auth.pc \in {"acquire", "open", "sdk", "commit", "caches"} =>
        auth.pass # None /\ pending = auth.pass

(* The task that runs while a challenge is outstanding answers it.         *)
SubmitAnswers == auth.pc # "idle" => (auth.kind = "submit" <=> challenged)

(* ... and until it has committed, the store is that of the passphrase.    *)
StageKept ==
    ~overtaken /\ challenged /\ auth.pc # "client" /\ ~(auth.pc = "report" /\ auth.ok) =>
        pending # None /\ store \in {None, pending}

(* A restore is for the store that its passphrase opens, from before it    *)
(* reads the passphrase until it opens the store -- unless its session was *)
(* to be forgotten.                                                        *)
RestoreOpens ==
    ~overtaken /\ auth.kind = "restore" /\ auth.id \notin ghosts =>
        /\ auth.pc = "pass" /\ SecretsComplete(auth.id) => store \in {None, secSess[auth.id]}
        /\ auth.pc \in {"acquire", "open"} => store \in {None, auth.pass}

(* What a sign-in that has committed leaves for the session on screen ...  *)
CommittedIsLive ==
    ~overtaken /\ auth.kind # "restore" /\ Committed =>
        /\ auth.pass # None /\ secLocal # None
        /\ auth.pc # "caches" => cacheOpen # None

(* ... what a restore does, ...                                            *)
RestoreIsLive ==
    ~overtaken /\ auth.kind = "restore" /\ ui = "main"
        /\ (auth.pc \in {"acquire", "open", "sdk", "client"} \/ (auth.pc = "report" /\ auth.ok)) =>
        /\ SecretsComplete(auth.id) /\ cacheOpen # None
        /\ auth.pc \notin {"acquire", "open"} => store = secSess[auth.id]

RestoreHasNoClient ==
    /\ auth.kind = "restore" /\ auth.pc # "idle" /\ ui = "main" =>
           client \in (IF auth.pc = "report" /\ auth.ok THEN {None, auth.id} ELSE {None})
    /\ ui = "restoreFailed" => client = None

(* ... and the session on screen.                                          *)
LiveIsSaved ==
    ~overtaken /\ ui = "main" /\ auth.pc = "idle" /\ client # None =>
        /\ named = client /\ (unsaved \/ saved = client)
        /\ SecretsComplete(client) /\ store = secSess[client] /\ cacheOpen # None

OwnInv == /\ FreshStore /\ PassphraseKept /\ SubmitAnswers /\ StageKept /\ RestoreOpens
          /\ CommittedIsLive /\ RestoreIsLive /\ RestoreHasNoClient /\ LiveIsSaved

(* No restore runs beside a logout, unless the user signs out meanwhile.   *)
QuietRestore ==
    (auth.pc # "idle" /\ auth.kind = "restore" /\ ui = "main") \/ ui = "restoreFailed" =>
        logout.pc = "idle"

(* A logout with nobody beside it finds what it erased still erased.       *)
Erased ==
    logout.pc # "idle" /\ logout.alone =>
        /\ auth.pc = "idle"
        /\ logout.pc \in {"acquire", "moveStore", "moveCaches", "scrub"} => pending = None
        /\ logout.pc = "scrub" /\ logout.ok => store = None
        /\ logout.pc = "done" /\ logout.ok =>
               /\ store = None /\ pending = None /\ secLocal = None
               /\ logout.victim # None => secSess[logout.victim] = None

EraseInv == QuietRestore /\ Erased

-----------------------------------------------------------------------------
(* OwnInv, actor by actor.                                                 *)

LEMMA AuthStepKeepsOwnInv == ASSUME TypeInv, SafeInv, OwnInv, AuthStep PROVE OwnInv'
<1> USE DEF TypeInv, SafeInv, OwnInv
<1>1. CASE WipeStore
  <2>1. /\ SameTask /\ auth.kind # "restore"
        /\ (auth'.pc = "reset" /\ store' = None) \/ Failed
    BY <1>1, GotoKeeps, FailKeeps DEF TypeOK, WipeStore, RestorePath, WipeFails, AuthPcs
  <2>2. FreshStore'
    BY <1>1, <2>1 DEF FreshStore, WipeStore, WipeFails, bounds, SameTask, Failed
  <2>3. PassphraseKept' /\ SubmitAnswers' /\ StageKept' /\ RestoreOpens'
        /\ CommittedIsLive' /\ RestoreIsLive' /\ RestoreHasNoClient' /\ LiveIsSaved'
    BY <1>1, <2>1
       DEF PassphraseKept, SubmitAnswers, StageKept, RestoreOpens,
           CommittedIsLive, Committed, RestoreIsLive, SecretsComplete, HasLocalSecrets,
           RestoreHasNoClient, LiveIsSaved, WipeStore, WipeFails, bounds, SameTask,
           Failed
  <2> QED BY <2>2, <2>3
<1>2. CASE ResetCaches
  <2>1. SameTask /\ auth.kind # "restore" /\ auth'.pc = "pass"
    BY <1>2, GotoKeeps DEF TypeOK, ResetCaches, RestorePath, AuthPcs
  <2>2. FreshStore'
    BY <1>2, <2>1 DEF FreshStore, ResetCaches, bounds, SameTask, Failed
  <2>3. PassphraseKept' /\ SubmitAnswers' /\ StageKept' /\ RestoreOpens'
        /\ CommittedIsLive' /\ RestoreIsLive' /\ RestoreHasNoClient' /\ LiveIsSaved'
    BY <1>2, <2>1
       DEF PassphraseKept, SubmitAnswers, StageKept, RestoreOpens,
           CommittedIsLive, Committed, RestoreIsLive, SecretsComplete, HasLocalSecrets,
           RestoreHasNoClient, LiveIsSaved, ResetCaches, bounds, SameTask, Failed
  <2> QED BY <2>2, <2>3
<1>3. CASE TakePassphrase
  <2>1. /\ auth'.kind = auth.kind /\ auth'.id = auth.id /\ auth.kind # "restore"
        /\ auth'.pc = "acquire" /\ auth'.pass = pending' /\ pending' # None
        /\ pending # None => pending' = pending
    BY <1>3, IdFacts
       DEF TypeOK, TakePassphrase, PendingPassphrase, AuthStates, Placement
  <2>2. PassphraseKept'
    BY <1>3, <2>1 DEF PassphraseKept, TakePassphrase, PendingPassphrase, bounds
  <2>3. StageKept'
    BY <1>3, <2>1 DEF StageKept, TakePassphrase, PendingPassphrase, bounds
  <2>4. FreshStore' /\ SubmitAnswers' /\ RestoreOpens'
        /\ CommittedIsLive' /\ RestoreIsLive' /\ RestoreHasNoClient' /\ LiveIsSaved'
    BY <1>3, <2>1
       DEF FreshStore, SubmitAnswers, RestoreOpens, CommittedIsLive,
           Committed, RestoreIsLive, SecretsComplete, HasLocalSecrets,
           RestoreHasNoClient, LiveIsSaved, TakePassphrase, PendingPassphrase, bounds
  <2> QED BY <2>2, <2>3, <2>4
<1>4. CASE LoadSecrets
  <2>1. /\ auth'.kind = "restore" /\ auth'.id = auth.id /\ auth.pc = "pass" /\ auth.id \in Ids
        /\ (auth'.pc = "acquire" /\ auth'.pass = secSess[auth.id] /\ SecretsComplete(auth.id)
            /\ cacheOpen' # None) \/ Failed
    BY <1>4, FailKeeps
       DEF TypeOK, LoadSecrets, AuthStates, SameTask, Failed, OpenCaches,
           SecretsComplete, HasLocalSecrets, Placement
  <2>2. RestoreOpens'
    BY <1>4, <2>1, IdFacts
       DEF RestoreOpens, LoadSecrets, OpenCaches, bounds, SameTask, Failed,
           Placement, SavedSessionRestorable, SecretsComplete, HasLocalSecrets,
           Screening
  <2>3. RestoreIsLive'
    BY <1>4, <2>1
       DEF RestoreIsLive, SecretsComplete, HasLocalSecrets, LoadSecrets, OpenCaches,
           bounds, SameTask, Failed
  <2>4. FreshStore' /\ PassphraseKept' /\ SubmitAnswers' /\ StageKept'
        /\ CommittedIsLive' /\ RestoreHasNoClient' /\ LiveIsSaved'
    BY <1>4, <2>1
       DEF FreshStore, PassphraseKept, SubmitAnswers, StageKept,
           CommittedIsLive, Committed, RestoreHasNoClient, LiveIsSaved, SecretsComplete,
           HasLocalSecrets, LoadSecrets, OpenCaches, bounds, SameTask, Failed
  <2> QED BY <2>2, <2>3, <2>4
<1>5. CASE AcquireStore
  <2>1. SameTask /\ auth.pc = "acquire" /\ auth'.pc = "open"
    BY <1>5, GotoKeeps DEF TypeOK, AcquireStore, AuthPcs
  <2>2. FreshStore' /\ PassphraseKept' /\ SubmitAnswers' /\ StageKept'
        /\ RestoreOpens' /\ CommittedIsLive' /\ RestoreIsLive'
        /\ RestoreHasNoClient' /\ LiveIsSaved'
    BY <1>5, <2>1
       DEF FreshStore, PassphraseKept, SubmitAnswers, StageKept, RestoreOpens,
           CommittedIsLive, Committed, RestoreIsLive, SecretsComplete,
           HasLocalSecrets, RestoreHasNoClient, LiveIsSaved, AcquireStore, bounds,
           SameTask, Failed
  <2> QED BY <2>2
<1>6. CASE OpenStore
  <2>1. /\ SameTask /\ auth.pc = "open"
        /\ (auth'.pc = "sdk" /\ store' = auth.pass) \/ (Failed /\ store' \in {store, auth.pass})
    BY <1>6, GotoKeeps, FailKeeps
       DEF TypeOK, OpenStore, BuildFails, BuildSucceeds, AuthPcs
  <2>2. StageKept'
    BY <1>6, <2>1
       DEF StageKept, OpenStore, bounds, SameTask, Failed, PassphraseKept, SubmitAnswers
  <2>3. RestoreOpens'
    BY <1>6, <2>1 DEF RestoreOpens, OpenStore, bounds, SameTask, Failed
  <2>4. FreshStore' /\ PassphraseKept' /\ SubmitAnswers'
        /\ CommittedIsLive' /\ RestoreIsLive' /\ RestoreHasNoClient' /\ LiveIsSaved'
    BY <1>6, <2>1
       DEF FreshStore, PassphraseKept, SubmitAnswers, CommittedIsLive,
           Committed, RestoreIsLive, SecretsComplete, HasLocalSecrets, RestoreUsesItsOwn,
           RestoreHasNoClient, LiveIsSaved, OpenStore, bounds, SameTask, Failed
  <2> QED BY <2>2, <2>3, <2>4
<1>7. CASE SdkCall
  <2>1. /\ auth.pc = "sdk"
        /\ \/ SameTask /\ UNCHANGED challenged
              /\ (auth'.pc = (IF auth.kind = "restore" THEN "client" ELSE "commit") \/ Failed)
           \/ auth' = NoAuth /\ challenged' /\ auth.kind # "restore"
        /\ UNCHANGED pending
    BY <1>7, GotoKeeps, FailKeeps DEF TypeOK, SdkCall, AuthPcs, Challenge
  <2>2. SubmitAnswers'
    BY <1>7, <2>1, NoTasks DEF SubmitAnswers, SdkCall, bounds, SameTask, Failed
  <2>3. StageKept'
    BY <1>7, <2>1, NoTasks
       DEF StageKept, SdkCall, bounds, SameTask, Failed, PassphraseKept, SubmitAnswers,
           SignInOwnsStore, Opened
  <2>4. LiveIsSaved'
    BY <1>7, <2>1, NoTasks
       DEF LiveIsSaved, SecretsComplete, HasLocalSecrets, SdkCall, bounds, SameTask,
           Failed, Placement
  <2>5. FreshStore' /\ PassphraseKept' /\ RestoreOpens'
        /\ CommittedIsLive' /\ RestoreIsLive' /\ RestoreHasNoClient'
    BY <1>7, <2>1, NoTasks
       DEF FreshStore, PassphraseKept, RestoreOpens, CommittedIsLive,
           Committed, RestoreIsLive, SecretsComplete, HasLocalSecrets,
           RestoreHasNoClient, SdkCall, bounds, SameTask, Failed
  <2> QED BY <2>2, <2>3, <2>4, <2>5
<1>8. CASE CommitSecrets
  <2>1. /\ SameTask /\ auth.kind # "restore" /\ auth.pc = "commit" /\ ui = "intro"
        /\ (auth'.pc = "caches" /\ secLocal' # None) \/ Failed
    BY <1>8, GotoKeeps, FailKeeps, IdFacts
       DEF TypeOK, CommitSecrets, RestorePath, AuthPcs, Placement
  <2>2. CommittedIsLive'
    BY <1>8, <2>1
       DEF CommittedIsLive, Committed, CommitSecrets, bounds, SameTask, Failed,
           PassphraseKept
  <2>3. FreshStore' /\ PassphraseKept' /\ SubmitAnswers' /\ StageKept'
        /\ RestoreOpens' /\ RestoreIsLive' /\ RestoreHasNoClient'
        /\ LiveIsSaved'
    BY <1>8, <2>1
       DEF FreshStore, PassphraseKept, SubmitAnswers, StageKept, RestoreOpens,
           RestoreIsLive, SecretsComplete, HasLocalSecrets,
           RestoreHasNoClient, LiveIsSaved, CommitSecrets, bounds, SameTask, Failed
  <2> QED BY <2>2, <2>3
<1>9. CASE OpenCacheStores
  <2>1. /\ SameTask /\ auth.kind # "restore" /\ auth.pc = "caches" /\ ui = "intro"
        /\ \/ auth'.pc = "client" /\ cacheOpen' # None /\ UNCHANGED store
           \/ Failed /\ store' \in {None, store} /\ UNCHANGED pending
    BY <1>9, GotoKeeps, FailKeeps, IdFacts
       DEF TypeOK, OpenCacheStores, RestorePath, AuthPcs, Placement, OpenCaches
  <2>2. StageKept'
    BY <1>9, <2>1
       DEF StageKept, OpenCacheStores, bounds, SameTask, Failed, PassphraseKept,
           SignInOwnsStore, Opened
  <2>3. CommittedIsLive'
    BY <1>9, <2>1
       DEF CommittedIsLive, Committed, OpenCacheStores, bounds, SameTask, Failed
  <2>4. FreshStore' /\ PassphraseKept' /\ SubmitAnswers' /\ RestoreOpens'
        /\ RestoreIsLive' /\ RestoreHasNoClient' /\ LiveIsSaved'
    BY <1>9, <2>1
       DEF FreshStore, PassphraseKept, SubmitAnswers, RestoreOpens,
           RestoreIsLive, SecretsComplete, HasLocalSecrets, RestoreHasNoClient,
           LiveIsSaved, OpenCacheStores, bounds, SameTask, Failed
  <2> QED BY <2>2, <2>3, <2>4
<1>10. CASE SetClient
  <2>1. SameTask /\ auth.pc = "client" /\ auth'.pc = "report" /\ auth'.ok
    BY <1>10 DEF TypeOK, SetClient, AuthStates, SameTask
  <2>2. StageKept'
    BY <1>10, <2>1 DEF StageKept, SetClient, bounds, SameTask, Failed
  <2>3. RestoreHasNoClient'
    BY <1>10, <2>1
       DEF RestoreHasNoClient, SetClient, bounds, SameTask, Failed, Placement
  <2>4. FreshStore' /\ PassphraseKept' /\ SubmitAnswers' /\ RestoreOpens'
        /\ CommittedIsLive' /\ RestoreIsLive' /\ LiveIsSaved'
    BY <1>10, <2>1
       DEF FreshStore, PassphraseKept, SubmitAnswers, RestoreOpens,
           CommittedIsLive, Committed, RestoreIsLive, SecretsComplete, HasLocalSecrets,
           LiveIsSaved, SetClient, bounds, SameTask, Failed
  <2> QED BY <2>2, <2>3, <2>4
<1> QED BY <1>1, <1>2, <1>3, <1>4, <1>5, <1>6, <1>7, <1>8, <1>9, <1>10 DEF AuthStep

LEMMA LogoutStepKeepsOwnInv == ASSUME TypeInv, SafeInv, OwnInv, LogoutStep PROVE OwnInv'
<1> USE DEF TypeInv, SafeInv, OwnInv
<1>1. CASE TakeClient
  BY <1>1
     DEF FreshStore, PassphraseKept, SubmitAnswers, StageKept, RestoreOpens,
         CommittedIsLive, Committed, RestoreIsLive, SecretsComplete, HasLocalSecrets,
         RestoreHasNoClient, LiveIsSaved, TakeClient, bounds
<1>2. CASE CheckGeneration
  BY <1>2
     DEF FreshStore, PassphraseKept, SubmitAnswers, StageKept, RestoreOpens,
         CommittedIsLive, Committed, RestoreIsLive, SecretsComplete, HasLocalSecrets,
         RestoreHasNoClient, LiveIsSaved, CheckGeneration, bounds
<1>3. CASE CloseHandles
  <2>1. /\ ~overtaken => ui \in {"cleanup", "intro", "signingOut"} /\ ~challenged
        /\ ~overtaken /\ auth.pc # "idle" => auth.kind = "restore"
    BY <1>3 DEF TypeOK, CloseHandles, NobodyToHurt, LogoutCanWipe, LogoutTail
  <2>2. PassphraseKept'
    BY <1>3, <2>1 DEF PassphraseKept, CloseHandles, bounds
  <2>3. StageKept'
    BY <1>3, <2>1 DEF StageKept, CloseHandles, bounds
  <2>4. CommittedIsLive'
    BY <1>3, <2>1 DEF CommittedIsLive, Committed, CloseHandles, bounds
  <2>5. RestoreIsLive'
    BY <1>3, <2>1
       DEF RestoreIsLive, SecretsComplete, HasLocalSecrets, CloseHandles, bounds
  <2>6. LiveIsSaved'
    BY <1>3, <2>1
       DEF LiveIsSaved, SecretsComplete, HasLocalSecrets, CloseHandles, bounds
  <2>7. FreshStore' /\ SubmitAnswers' /\ RestoreOpens'
        /\ RestoreHasNoClient'
    BY <1>3, <2>1
       DEF FreshStore, SubmitAnswers, RestoreOpens, SecretsComplete, HasLocalSecrets,
           RestoreHasNoClient, CloseHandles, bounds
  <2> QED BY <2>2, <2>3, <2>4, <2>5, <2>6, <2>7
<1>4. CASE AcquireMove
  BY <1>4
     DEF FreshStore, PassphraseKept, SubmitAnswers, StageKept, RestoreOpens,
         CommittedIsLive, Committed, RestoreIsLive, SecretsComplete, HasLocalSecrets,
         RestoreHasNoClient, LiveIsSaved, AcquireMove, bounds
<1>5. CASE MoveStore
  <2>1. StageKept'
    BY <1>5 DEF StageKept, MoveStore, bounds
  <2>2. RestoreIsLive' /\ LiveIsSaved'
    BY <1>5
       DEF RestoreIsLive, LiveIsSaved, MoveStore, bounds, NobodyToHurt, LogoutCanWipe,
           LogoutTail
  <2>3. FreshStore' /\ PassphraseKept' /\ SubmitAnswers' /\ RestoreOpens'
        /\ CommittedIsLive' /\ RestoreHasNoClient'
    BY <1>5
       DEF FreshStore, PassphraseKept, SubmitAnswers, RestoreOpens, CommittedIsLive,
           Committed, SecretsComplete, HasLocalSecrets, RestoreHasNoClient, MoveStore,
           bounds
  <2> QED BY <2>1, <2>2, <2>3
<1>6. CASE MoveCachesAndGate
  BY <1>6
     DEF NobodyToHurt, LogoutCanWipe, LogoutTail, FreshStore, PassphraseKept, SubmitAnswers, StageKept, RestoreOpens,
         CommittedIsLive, Committed, RestoreIsLive, SecretsComplete, HasLocalSecrets,
         RestoreHasNoClient, LiveIsSaved, MoveCachesAndGate, StoreGate, bounds
<1>7. CASE ScrubSecrets
  <2>1. /\ ~overtaken => ui \in {"cleanup", "intro", "signingOut"} /\ ~challenged
        /\ ~overtaken /\ auth.pc # "idle" => auth.kind = "restore"
        /\ secSess' = secSess \/ secSess' = Forgotten(logout.victim)
    BY <1>7
       DEF TypeOK, ScrubSecrets, NobodyToHurt, LogoutCanWipe, LogoutTail, ScrubFails,
           secrets
  <2>2. RestoreOpens'
    BY <1>7, <2>1, ForgetShrinks
       DEF RestoreOpens, SecretsComplete, HasLocalSecrets, ScrubSecrets, ScrubFails, secrets,
           bounds, SecretsShrink, Placement
  <2>3. CommittedIsLive'
    BY <1>7, <2>1 DEF CommittedIsLive, Committed, ScrubSecrets, bounds
  <2>4. RestoreIsLive'
    BY <1>7, <2>1
       DEF RestoreIsLive, SecretsComplete, HasLocalSecrets, ScrubSecrets, bounds
  <2>5. LiveIsSaved'
    BY <1>7, <2>1
       DEF LiveIsSaved, SecretsComplete, HasLocalSecrets, ScrubSecrets, bounds
  <2>6. FreshStore' /\ PassphraseKept' /\ SubmitAnswers' /\ StageKept'
        /\ RestoreHasNoClient'
    BY <1>7, <2>1
       DEF FreshStore, PassphraseKept, SubmitAnswers, StageKept,
           RestoreHasNoClient, ScrubSecrets, bounds
  <2> QED BY <2>2, <2>3, <2>4, <2>5, <2>6
<1> QED BY <1>1, <1>2, <1>3, <1>4, <1>5, <1>6, <1>7 DEF LogoutStep

LEMMA MainStepKeepsOwnInv ==
    ASSUME TypeInv, SafeInv, OwnInv, MainStep \/ FinishSignOut PROVE OwnInv'
<1> USE DEF TypeInv, SafeInv, OwnInv
<1>1. CASE ReportSignIn
  <2>1. /\ auth.pc = "report" /\ auth.kind # "restore" /\ auth' = NoAuth /\ ui = "intro"
        /\ auth.ok => ui' = "main" /\ ~challenged'
        /\ ~auth.ok => UNCHANGED <<ui, challenged>>
    BY <1>1 DEF TypeOK, ReportSignIn, PersistSession, Placement
  <2>2. StageKept'
    BY <1>1, <2>1, NoTasks DEF StageKept, ReportSignIn, PersistSession, secrets, bounds
  <2>3. LiveIsSaved'
    BY <1>1, <2>1, NoTasks
       DEF LiveIsSaved, SecretsComplete, HasLocalSecrets, ReportSignIn, PersistSession,
           secrets, WriteSettings, CommittedIsLive, Committed, SignInOwnsStore, Opened
  <2>4. FreshStore' /\ PassphraseKept' /\ SubmitAnswers' /\ RestoreOpens'
        /\ CommittedIsLive' /\ RestoreIsLive' /\ RestoreHasNoClient'
    BY <1>1, <2>1, NoTasks
       DEF FreshStore, PassphraseKept, SubmitAnswers, RestoreOpens,
           CommittedIsLive, Committed, RestoreIsLive, SecretsComplete, HasLocalSecrets,
           RestoreHasNoClient, ReportSignIn, PersistSession, secrets, bounds
  <2> QED BY <2>2, <2>3, <2>4
<1>2. CASE ReportRestore
  <2>1. /\ auth.pc = "report" /\ auth.kind = "restore" /\ auth' = NoAuth
        /\ ~challenged /\ (ui = "main" => saved = auth.id /\ named = auth.id)
    BY <1>2 DEF TypeOK, ReportRestore, Placement, Screening
  <2>2. RestoreHasNoClient'
    BY <1>2, <2>1, NoTasks DEF RestoreHasNoClient, ReportRestore, bounds
  <2>3. LiveIsSaved'
    BY <1>2, <2>1, NoTasks
       DEF LiveIsSaved, SecretsComplete, HasLocalSecrets, ReportRestore, bounds,
           RestoreIsLive, RestoreHasNoClient
  <2>4. FreshStore' /\ PassphraseKept' /\ SubmitAnswers' /\ StageKept'
        /\ RestoreOpens' /\ CommittedIsLive' /\ RestoreIsLive'
    BY <1>2, <2>1, NoTasks
       DEF FreshStore, PassphraseKept, SubmitAnswers, StageKept, RestoreOpens,
           CommittedIsLive, Committed, RestoreIsLive, SecretsComplete,
           HasLocalSecrets, ReportRestore, bounds
  <2> QED BY <2>2, <2>3, <2>4
<1>3. CASE DropSettings
  BY <1>3
     DEF FreshStore, PassphraseKept, SubmitAnswers, StageKept, RestoreOpens,
         CommittedIsLive, Committed, RestoreIsLive, SecretsComplete, HasLocalSecrets,
         RestoreHasNoClient, LiveIsSaved, DropSettings, NewHandle, StartCleanup, bounds,
         Placement, Screening
<1>4. CASE ForgetLocal
  BY <1>4
     DEF FreshStore, PassphraseKept, SubmitAnswers, StageKept, RestoreOpens,
         CommittedIsLive, Committed, RestoreIsLive, SecretsComplete, HasLocalSecrets,
         RestoreHasNoClient, LiveIsSaved, ForgetLocal, ForgetLocalSecrets, bounds,
         Placement
<1>5. CASE ForgetSettings
  BY <1>5
     DEF WriteSettings, FreshStore, PassphraseKept, SubmitAnswers, StageKept, RestoreOpens,
         CommittedIsLive, Committed, RestoreIsLive, SecretsComplete, HasLocalSecrets,
         RestoreHasNoClient, LiveIsSaved, ForgetSettings
<1>6. CASE ClearAllAndLogout
  BY <1>6
     DEF FreshStore, PassphraseKept, SubmitAnswers, StageKept, RestoreOpens,
         CommittedIsLive, Committed, RestoreIsLive, SecretsComplete, HasLocalSecrets,
         RestoreHasNoClient, LiveIsSaved, ClearAllAndLogout, NoSecrets, secrets,
         bounds, Placement
<1>7. CASE GiveUpSettings
  BY <1>7
     DEF FreshStore, PassphraseKept, SubmitAnswers, StageKept, RestoreOpens,
         CommittedIsLive, Committed, RestoreIsLive, SecretsComplete, HasLocalSecrets,
         RestoreHasNoClient, LiveIsSaved, GiveUpSettings, bounds, Placement, Screening
<1>8. CASE FinishSignOut
  <2>1. auth'.pc = "idle" /\ ~challenged' /\ ui' = "intro"
    BY <1>8, NoTasks DEF TypeOK, FinishSignOut
  <2>2. FreshStore' /\ PassphraseKept' /\ SubmitAnswers' /\ StageKept'
        /\ RestoreOpens' /\ CommittedIsLive' /\ RestoreIsLive'
        /\ RestoreHasNoClient' /\ LiveIsSaved'
    BY <1>8, <2>1
       DEF FreshStore, PassphraseKept, SubmitAnswers, StageKept, RestoreOpens,
           CommittedIsLive, Committed, RestoreIsLive, SecretsComplete,
           HasLocalSecrets, RestoreHasNoClient, LiveIsSaved, FinishSignOut, NewHandle,
           bounds
  <2> QED BY <2>2
<1>9. CASE FinishCleanup
  BY <1>9
     DEF FreshStore, PassphraseKept, SubmitAnswers, StageKept, RestoreOpens,
         CommittedIsLive, Committed, RestoreIsLive, SecretsComplete, HasLocalSecrets,
         RestoreHasNoClient, LiveIsSaved, FinishCleanup, bounds
<1> QED BY <1>1, <1>2, <1>3, <1>4, <1>5, <1>6, <1>7, <1>8, <1>9 DEF MainStep

LEMMA UserStepKeepsOwnInv == ASSUME TypeInv, SafeInv, OwnInv, UserStep PROVE OwnInv'
<1> USE DEF TypeInv, SafeInv, OwnInv
<1>1. ASSUME NEW kind \in {"login", "register"}, BeginSignIn(kind) PROVE OwnInv'
  <2>1. /\ auth'.kind = kind /\ auth'.pc = "wipe" /\ ~challenged'
        /\ ui' = "intro"
    BY <1>1 DEF BeginSignIn, NewAuth
  <2> QED
    BY <2>1
       DEF FreshStore, PassphraseKept, SubmitAnswers, StageKept, RestoreOpens,
           CommittedIsLive, Committed, RestoreIsLive, RestoreHasNoClient, LiveIsSaved
<1>2. CASE BeginSubmit
  <2>1. /\ auth.pc = "idle" /\ auth'.kind = "submit" /\ auth'.pc = "pass"
        /\ ui' = "intro" /\ challenged /\ overtaken => overtaken'
    BY <1>2 DEF BeginSubmit, NewAuth
  <2> QED
    BY <1>2, <2>1
       DEF FreshStore, PassphraseKept, SubmitAnswers, StageKept, RestoreOpens,
           CommittedIsLive, Committed, RestoreIsLive, RestoreHasNoClient, LiveIsSaved,
           BeginSubmit
<1>3. CASE SignOut
  <2>1. RestoreOpens'
    BY <1>3, ForgetShrinks
       DEF RestoreOpens, SecretsComplete, HasLocalSecrets, SignOut, SecretsShrink, bounds,
           Placement
  <2>2. FreshStore' /\ PassphraseKept' /\ SubmitAnswers' /\ StageKept'
        /\ CommittedIsLive' /\ RestoreIsLive' /\ RestoreHasNoClient' /\ LiveIsSaved'
    BY <1>3
       DEF FreshStore, PassphraseKept, SubmitAnswers, StageKept, CommittedIsLive, Committed,
           RestoreIsLive, RestoreHasNoClient, LiveIsSaved, SignOut, bounds, Placement,
           Screening
  <2> QED BY <2>1, <2>2
<1>4. CASE RetryRestore
  <2>1. RestoreHasNoClient'
    BY <1>4
       DEF RestoreHasNoClient, RetryRestore, BeginRestore, NewAuth, bounds, Screening
  <2>2. RestoreOpens'
    BY <1>4
       DEF RestoreOpens, RetryRestore, BeginRestore, NewAuth, bounds, Placement,
           SavedSessionRestorable, SecretsComplete, HasLocalSecrets
  <2>3. FreshStore' /\ PassphraseKept' /\ SubmitAnswers' /\ StageKept'
        /\ CommittedIsLive' /\ RestoreIsLive' /\ LiveIsSaved'
    BY <1>4
       DEF FreshStore, PassphraseKept, SubmitAnswers, StageKept, CommittedIsLive, Committed,
           RestoreIsLive, LiveIsSaved, RetryRestore, BeginRestore, NewAuth, bounds,
           Screening
  <2> QED BY <2>1, <2>2, <2>3
<1>5. CASE GiveUpRestore
  BY <1>5
     DEF FreshStore, PassphraseKept, SubmitAnswers, StageKept, RestoreOpens,
         CommittedIsLive, Committed, RestoreIsLive, SecretsComplete, HasLocalSecrets,
         RestoreHasNoClient, LiveIsSaved, GiveUpRestore, Forgotten, bounds, Placement,
         Screening
<1>6. CASE RestartSignedOut
  BY <1>6
     DEF FreshStore, PassphraseKept, SubmitAnswers, StageKept, RestoreOpens,
         CommittedIsLive, Committed, RestoreIsLive, SecretsComplete, HasLocalSecrets,
         RestoreHasNoClient, LiveIsSaved, RestartSignedOut, NewHandle, StartCleanup,
         bounds, Placement, Screening
<1>7. CASE RestartRestoring
  <2>1. RestoreOpens'
    BY <1>7
       DEF RestoreOpens, RestartRestoring, BeginRestore, NewAuth, bounds,
           SavedSessionRestorable, SecretsComplete, HasLocalSecrets
  <2>2. FreshStore' /\ PassphraseKept' /\ SubmitAnswers' /\ StageKept'
        /\ CommittedIsLive' /\ RestoreIsLive' /\ RestoreHasNoClient' /\ LiveIsSaved'
    BY <1>7
       DEF FreshStore, PassphraseKept, SubmitAnswers, StageKept, CommittedIsLive, Committed,
           RestoreIsLive, RestoreHasNoClient, LiveIsSaved, RestartRestoring, BeginRestore,
           NewAuth, bounds, Placement, Screening
  <2> QED BY <2>1, <2>2
<1>8. CASE RestartIncomplete
  BY <1>8
     DEF FreshStore, PassphraseKept, SubmitAnswers, StageKept, RestoreOpens,
         CommittedIsLive, Committed, RestoreIsLive, SecretsComplete, HasLocalSecrets,
         RestoreHasNoClient, LiveIsSaved, RestartIncomplete, NoSecrets, bounds,
         Placement, Screening
<1>9. CASE RestartAbsent
  BY <1>9
     DEF FreshStore, PassphraseKept, SubmitAnswers, StageKept, RestoreOpens,
         CommittedIsLive, Committed, RestoreIsLive, SecretsComplete, HasLocalSecrets,
         RestoreHasNoClient, LiveIsSaved, RestartAbsent, NewHandle, NoSecrets, bounds,
         Placement, Screening
<1>10. CASE SaveSettings
  BY <1>10
     DEF FreshStore, PassphraseKept, SubmitAnswers, StageKept, RestoreOpens,
         CommittedIsLive, Committed, RestoreIsLive, SecretsComplete, HasLocalSecrets,
         RestoreHasNoClient, LiveIsSaved, SaveSettings
<1> QED
  BY <1>1, <1>2, <1>3, <1>4, <1>5, <1>6, <1>7, <1>8, <1>9, <1>10 DEF UserStep

LEMMA CleanupTimerKeepsOwnInv == ASSUME TypeInv, OwnInv, CleanupTimer PROVE OwnInv'
  BY DEF TypeInv, Placement, OwnInv, FreshStore, PassphraseKept, SubmitAnswers, StageKept,
         RestoreOpens, CommittedIsLive, Committed, RestoreIsLive,
         RestoreHasNoClient, LiveIsSaved, SecretsComplete, HasLocalSecrets, CleanupTimer,
         bounds

LEMMA CrashKeepsOwnInv == ASSUME Crash PROVE OwnInv'
<1>1. auth'.pc = "idle" /\ ~challenged' /\ ui' = "down"
  BY NoTasks DEF Crash
<1> QED
  BY <1>1
     DEF OwnInv, FreshStore, PassphraseKept, SubmitAnswers, StageKept, RestoreOpens,
         CommittedIsLive, Committed, RestoreIsLive, RestoreHasNoClient,
         LiveIsSaved

LEMMA StutterKeepsOwnInv == ASSUME OwnInv, UNCHANGED vars PROVE OwnInv'
  BY DEF vars, OwnInv, FreshStore, PassphraseKept, SubmitAnswers, StageKept,
         RestoreOpens, CommittedIsLive, Committed, RestoreIsLive,
         RestoreHasNoClient, LiveIsSaved, SecretsComplete, HasLocalSecrets

LEMMA InitOwnInv == Init => OwnInv
  BY NoTasks
     DEF Init, OwnInv, FreshStore, PassphraseKept, SubmitAnswers, StageKept, RestoreOpens,
         CommittedIsLive, Committed, RestoreIsLive, RestoreHasNoClient,
         LiveIsSaved

LEMMA StepOwnInv == TypeInv /\ SafeInv /\ OwnInv /\ [Next]_vars => OwnInv'
  BY AuthStepKeepsOwnInv, LogoutStepKeepsOwnInv, MainStepKeepsOwnInv,
     UserStepKeepsOwnInv, CleanupTimerKeepsOwnInv, CrashKeepsOwnInv, StutterKeepsOwnInv
     DEF Next

-----------------------------------------------------------------------------
(* EraseInv, actor by actor.                                               *)

LEMMA AuthStepKeepsEraseInv == ASSUME TypeInv, EraseInv, AuthStep PROVE EraseInv'
<1>1. auth.pc # "idle" /\ UNCHANGED <<ui, logout>>
  BY DEF AuthStep, WipeStore, ResetCaches, TakePassphrase, LoadSecrets, AcquireStore,
         OpenStore, SdkCall, CommitSecrets, OpenCacheStores, SetClient
<1>2. auth'.kind = auth.kind \/ auth'.pc = "idle"
  BY NoTasks
     DEF AuthStep, WipeStore, ResetCaches, TakePassphrase, LoadSecrets, AcquireStore,
         OpenStore, SdkCall, CommitSecrets, OpenCacheStores, SetClient, WipeFails,
         BuildFails, BuildSucceeds, Challenge, AuthGoto, AuthFails, TypeInv, TypeOK,
         AuthStates
<1> QED BY <1>1, <1>2 DEF EraseInv, QuietRestore, Erased

LEMMA LogoutStepKeepsEraseInv == ASSUME TypeInv, EraseInv, LogoutStep PROVE EraseInv'
<1> USE DEF TypeInv, TypeOK, LogoutStates, EraseInv
<1>1. QuietRestore'
  BY DEF LogoutStep, TakeClient, CheckGeneration, CloseHandles, AcquireMove, MoveStore,
         MoveCachesAndGate, ScrubSecrets, QuietRestore
<1>2. CASE TakeClient
  BY <1>1, <1>2 DEF TakeClient, Erased
<1>3. CASE CheckGeneration
  BY <1>1, <1>3 DEF CheckGeneration, LogoutGoto, Erased
<1>4. CASE CloseHandles
  BY <1>1, <1>4 DEF CloseHandles, LogoutGoto, Erased
<1>5. CASE AcquireMove
  BY <1>1, <1>5 DEF AcquireMove, LogoutGoto, Erased
<1>6. CASE MoveStore
  BY <1>1, <1>6 DEF MoveStore, LogoutGoto, Erased
<1>7. CASE MoveCachesAndGate
  BY <1>1, <1>7 DEF MoveCachesAndGate, StoreGate, Erased
<1>8. CASE ScrubSecrets
  <2>1. /\ logout.pc = "scrub" /\ logout'.pc = "done"
        /\ logout'.alone = logout.alone /\ logout'.victim = logout.victim
        /\ UNCHANGED <<store, pending, auth>>
    BY <1>8 DEF ScrubSecrets, LogoutGoto, ScrubFails
  <2>2. logout'.ok =>
            /\ logout.ok /\ secLocal' = None
            /\ logout.victim # None => secSess'[logout.victim] = None
    BY <1>8 DEF ScrubSecrets, LogoutGoto, ScrubFails, Forgotten, MaybeId
  <2> QED BY <1>1, <2>1, <2>2 DEF Erased
<1> QED
  BY <1>2, <1>3, <1>4, <1>5, <1>6, <1>7, <1>8 DEF LogoutStep

LEMMA MainStepKeepsEraseInv ==
    ASSUME TypeInv, EraseInv, MainStep \/ FinishSignOut PROVE EraseInv'
<1> USE DEF TypeInv, EraseInv, QuietRestore, Erased
<1>1. CASE ReportSignIn
  BY <1>1, NoTasks DEF ReportSignIn, Placement
<1>2. CASE ReportRestore
  BY <1>2, NoTasks DEF ReportRestore
<1>3. CASE DropSettings
  BY <1>3 DEF DropSettings, StartCleanup, Placement
<1>4. CASE ForgetLocal \/ ForgetSettings
  BY <1>4 DEF ForgetLocal, ForgetSettings, ForgetLocalSecrets, Placement
<1>5. CASE ClearAllAndLogout
  BY <1>5 DEF ClearAllAndLogout, NewLogout
<1>6. CASE GiveUpSettings
  BY <1>6 DEF GiveUpSettings
<1>7. CASE FinishSignOut
  BY <1>7, NoTasks DEF FinishSignOut
<1>8. CASE FinishCleanup
  BY <1>8, NoTasks DEF FinishCleanup
<1> QED BY <1>1, <1>2, <1>3, <1>4, <1>5, <1>6, <1>7, <1>8 DEF MainStep

LEMMA UserStepKeepsEraseInv == ASSUME TypeInv, EraseInv, UserStep PROVE EraseInv'
<1> USE DEF TypeInv, EraseInv, QuietRestore, Erased
<1>1. ASSUME NEW kind \in {"login", "register"}, BeginSignIn(kind) PROVE EraseInv'
  <2>1. ~logout'.alone /\ ui' = "intro"
    BY <1>1 DEF BeginSignIn, Overlap, TypeOK, LogoutStates
  <2> QED BY <2>1
<1>2. CASE BeginSubmit
  <2>1. ~logout'.alone /\ ui' = "intro"
    BY <1>2 DEF BeginSubmit, TypeOK, LogoutStates
  <2> QED BY <2>1
<1>3. CASE SignOut
  BY <1>3 DEF SignOut
<1>4. CASE RetryRestore
  BY <1>4 DEF RetryRestore
<1>5. CASE GiveUpRestore
  BY <1>5 DEF GiveUpRestore
<1>6. CASE RestartSignedOut
  BY <1>6 DEF RestartSignedOut, StartCleanup, Placement
<1>7. CASE RestartRestoring \/ RestartIncomplete \/ RestartAbsent
  BY <1>7 DEF RestartRestoring, RestartIncomplete, RestartAbsent, Placement
<1>8. CASE SaveSettings
  BY <1>8 DEF SaveSettings
<1> QED BY <1>1, <1>2, <1>3, <1>4, <1>5, <1>6, <1>7, <1>8 DEF UserStep

LEMMA StepEraseInv == TypeInv /\ EraseInv /\ [Next]_vars => EraseInv'
<1> SUFFICES ASSUME TypeInv, EraseInv, [Next]_vars PROVE EraseInv'
  OBVIOUS
<1>1. CASE CleanupTimer
  BY <1>1 DEF CleanupTimer, EraseInv, QuietRestore, Erased
<1>2. CASE Crash
  BY <1>2, NoTasks DEF Crash, EraseInv, QuietRestore, Erased
<1>3. CASE UNCHANGED vars
  BY <1>3 DEF vars, EraseInv, QuietRestore, Erased
<1> QED
  BY <1>1, <1>2, <1>3, AuthStepKeepsEraseInv, LogoutStepKeepsEraseInv,
     MainStepKeepsEraseInv, UserStepKeepsEraseInv DEF Next

-----------------------------------------------------------------------------
(* The store lock.                                                         *)

LEMMA AuthStepKeepsLock ==
    ASSUME TypeInv, StoreLockHeldWhereUsed, AuthStep PROVE StoreLockHeldWhereUsed'
<1> USE DEF TypeInv, TypeOK, StoreLockHeldWhereUsed
<1>1. CASE WipeStore \/ ResetCaches \/ CommitSecrets \/ OpenCacheStores \/ SdkCall
  <2>1. auth.pc # "open" /\ auth'.pc # "open" /\ UNCHANGED <<logout, storeLock>>
    BY <1>1, GotoKeeps, FailKeeps, NoTasks
       DEF WipeStore, WipeFails, ResetCaches, CommitSecrets, OpenCacheStores, SdkCall,
           Challenge, AuthPcs, Failed
  <2> QED BY <2>1
<1>2. CASE TakePassphrase \/ LoadSecrets \/ SetClient
  <2>1. auth.pc # "open" /\ auth'.pc # "open" /\ UNCHANGED <<logout, storeLock>>
    BY <1>2, FailKeeps DEF TakePassphrase, LoadSecrets, SetClient, AuthStates, Failed
  <2> QED BY <2>1
<1>3. CASE AcquireStore
  <2>1. auth'.pc = "open" /\ storeLock = "free" /\ storeLock' = "auth" /\ UNCHANGED logout
    BY <1>3, GotoKeeps DEF AcquireStore, AuthPcs
  <2> QED BY <2>1
<1>4. CASE OpenStore
  <2>1. auth.pc = "open" /\ auth'.pc # "open" /\ storeLock' = "free" /\ UNCHANGED logout
    BY <1>4, GotoKeeps, FailKeeps DEF OpenStore, BuildFails, BuildSucceeds, AuthPcs, Failed
  <2> QED BY <2>1
<1> QED BY <1>1, <1>2, <1>3, <1>4 DEF AuthStep

LEMMA LogoutStepKeepsLock ==
    ASSUME TypeInv, StoreLockHeldWhereUsed, LogoutStep PROVE StoreLockHeldWhereUsed'
<1> USE DEF TypeInv, TypeOK, StoreLockHeldWhereUsed, LogoutStates
<1>1. CASE TakeClient \/ CheckGeneration \/ CloseHandles \/ ScrubSecrets
  <2>1. /\ logout.pc \in {"take", "check", "close", "scrub"}
        /\ logout'.pc \in {"check", "close", "acquire", "done"}
        /\ UNCHANGED <<auth, storeLock>>
    BY <1>1
       DEF TakeClient, CheckGeneration, CloseHandles, ScrubSecrets, ScrubFails, LogoutGoto
  <2> QED BY <2>1
<1>2. CASE AcquireMove
  BY <1>2 DEF AcquireMove, LogoutGoto
<1>3. CASE MoveStore
  BY <1>3 DEF MoveStore, LogoutGoto
<1>4. CASE MoveCachesAndGate
  BY <1>4 DEF MoveCachesAndGate, StoreGate
<1> QED BY <1>1, <1>2, <1>3, <1>4 DEF LogoutStep

LEMMA OtherStepKeepsLock ==
    ASSUME TypeInv, StoreLockHeldWhereUsed, Next, ~AuthStep, ~LogoutStep
    PROVE  StoreLockHeldWhereUsed'
<1> USE DEF TypeInv, StoreLockHeldWhereUsed
<1>1. CASE ReportSignIn \/ ReportRestore
  BY <1>1, NoTasks DEF ReportSignIn, ReportRestore
<1>2. CASE ForgetLocal \/ ForgetSettings \/ GiveUpSettings \/ SignOut \/ GiveUpRestore
           \/ CleanupTimer \/ RestartIncomplete \/ SaveSettings
  BY <1>2 DEF ForgetLocal, ForgetSettings, GiveUpSettings, SignOut, GiveUpRestore,
              CleanupTimer, RestartIncomplete, SaveSettings
<1>3. CASE ClearAllAndLogout
  BY <1>3 DEF ClearAllAndLogout, NewLogout, Placement
<1>4. CASE FinishSignOut \/ Crash
  BY <1>4, NoTasks DEF FinishSignOut, Crash, NewHandle
<1>5. CASE FinishCleanup
  BY <1>5, NoTasks DEF FinishCleanup
<1>6. CASE DropSettings \/ RestartSignedOut
  BY <1>6 DEF DropSettings, RestartSignedOut, NewHandle, StartCleanup, Placement
<1>7. CASE RestartAbsent
  BY <1>7 DEF RestartAbsent, NewHandle, Placement
<1>8. CASE RestartRestoring
  BY <1>8 DEF RestartRestoring, BeginRestore, NewAuth, Placement
<1>9. CASE RetryRestore
  BY <1>9 DEF RetryRestore, BeginRestore, NewAuth, Placement
<1>10. CASE BeginSubmit
  BY <1>10 DEF BeginSubmit, NewAuth, TypeOK, LogoutStates
<1>11. ASSUME NEW kind \in {"login", "register"}, BeginSignIn(kind)
       PROVE  StoreLockHeldWhereUsed'
  BY <1>11 DEF BeginSignIn, Overlap, NewAuth, TypeOK, LogoutStates
<1> QED
  BY <1>1, <1>2, <1>3, <1>4, <1>5, <1>6, <1>7, <1>8, <1>9, <1>10, <1>11
     DEF Next, MainStep, UserStep

(* Whatever fails, is refused or dies, the guard of the store directory is *)
(* held by exactly the task that is inside the code it guards: every way   *)
(* out of build_client() and of move_stores_to_trash() drops it.           *)
THEOREM LockHeldWhereUsed == Spec => []StoreLockHeldWhereUsed
<1>1. Init => StoreLockHeldWhereUsed
  BY NoTasks DEF Init, StoreLockHeldWhereUsed
<1>2. TypeInv /\ StoreLockHeldWhereUsed /\ [Next]_vars => StoreLockHeldWhereUsed'
  <2>1. TypeInv /\ StoreLockHeldWhereUsed /\ UNCHANGED vars => StoreLockHeldWhereUsed'
    BY DEF vars, StoreLockHeldWhereUsed
  <2> QED
    BY <2>1, AuthStepKeepsLock, LogoutStepKeepsLock, OtherStepKeepsLock
<1> QED BY <1>1, <1>2, Typing, PTL DEF Spec

(* A logout that wiped and reported success, with no authentication task   *)
(* beside it, left neither store nor secrets of the account it signed out. *)
THEOREM LogoutErases == Spec => []LogoutErasesDeparted
<1>1. Init => EraseInv
  BY NoTasks DEF Init, EraseInv, QuietRestore, Erased
<1>2. EraseInv => LogoutErasesDeparted
  BY DEF EraseInv, Erased, LogoutErasesDeparted
<1> QED BY <1>1, <1>2, StepEraseInv, Typing, PTL DEF Spec

-----------------------------------------------------------------------------
(* Of a sign-in that did not begin in the tail of a logout: the store it   *)
(* opens is its own, a challenge keeps its passphrase, and the session on  *)
(* screen is the one the settings name, whole.                             *)
LEMMA OwnInvSuffices ==
    ASSUME TypeInv, SafeInv, OwnInv
    PROVE  OnlyTheWindowHurts
<1> SUFFICES ASSUME ~overtaken
             PROVE  /\ SavedSessionRestorable /\ OpensOnlyItsOwnStore
                    /\ ChallengeKeepsItsStore /\ LiveSessionIntact
  BY DEF OnlyTheWindowHurts
<1>1. SavedSessionRestorable
  BY DEF SafeInv
<1>2. OpensOnlyItsOwnStore
  <2> SUFFICES ASSUME auth.pc = "open", auth.id \notin ghosts PROVE Openable
    BY DEF OpensOnlyItsOwnStore
  <2>1. CASE auth.kind \in {"login", "register"}
    BY <2>1 DEF OwnInv, FreshStore, Openable
  <2>2. CASE auth.kind = "submit"
    BY <2>2 DEF OwnInv, PassphraseKept, SubmitAnswers, StageKept, Openable
  <2>3. CASE auth.kind = "restore"
    BY <2>3 DEF OwnInv, RestoreOpens, Openable
  <2> QED BY <2>1, <2>2, <2>3 DEF TypeInv, TypeOK, AuthStates, AuthKinds
<1>3. ChallengeKeepsItsStore
  BY DEF OwnInv, StageKept, ChallengeKeepsItsStore
<1>4. LiveSessionIntact
  <2> SUFFICES ASSUME ui = "main", auth.pc = "idle", client # None
               PROVE  /\ named = client /\ (unsaved \/ saved = client)
                      /\ SecretsComplete(client)
                      /\ store = secSess[client] /\ cacheOpen # None
    BY DEF LiveSessionIntact
  <2> QED BY DEF OwnInv, LiveIsSaved
<1> QED BY <1>1, <1>2, <1>3, <1>4

(* Whatever crashes, fails or is slow, only a sign-in that began after the *)
(* running logout had looked at auth_generation can open another account's *)
(* store, lose the store of its challenge, or show a session that the      *)
(* settings do not name, that the file does not name after a write that    *)
(* went through, or that has lost its store or its secrets.                *)
THEOREM OnlyTheWindow == Spec => []OnlyTheWindowHurts
  BY InitSafeInv, StepSafeInv, InitOwnInv, StepOwnInv, OwnInvSuffices, Typing, PTL
     DEF Spec

LEMMA CurtainedAlways == ASSUME ~SafetyTimer PROVE Spec => []Curtained
<1>1. Init => Curtained
  BY NoTasks DEF Init, Curtained
<1>2. TypeInv /\ Curtained /\ [Next]_vars => Curtained'
  BY StepCurtained
<1> QED BY <1>1, <1>2, Typing, PTL DEF Spec

(* With the sign-in form waiting for the startup cleanup, build_client()   *)
(* never opens a store created with another passphrase.                    *)
THEOREM OwnStoreWithoutTimer == ASSUME ~SafetyTimer PROVE Spec => []OpensOnlyItsOwnStore
<1>1. Curtained /\ OnlyTheWindowHurts => OpensOnlyItsOwnStore
  BY DEF Curtained, OnlyTheWindowHurts
<1> QED BY <1>1, CurtainedAlways, OnlyTheWindow, PTL

(* ... an outstanding registration challenge keeps the passphrase of the   *)
(* store that the first register() call created, ...                       *)
THEOREM ChallengeWithoutTimer == ASSUME ~SafetyTimer PROVE Spec => []ChallengeKeepsItsStore
<1>1. Curtained /\ OnlyTheWindowHurts => ChallengeKeepsItsStore
  BY DEF Curtained, OnlyTheWindowHurts
<1> QED BY <1>1, CurtainedAlways, OnlyTheWindow, PTL

(* ... and the session on screen is whole, and named by the settings: in   *)
(* the file too, unless the last write of it failed.                       *)
THEOREM LiveWithoutTimer == ASSUME ~SafetyTimer PROVE Spec => []LiveSessionIntact
<1>1. Curtained /\ OnlyTheWindowHurts => LiveSessionIntact
  BY DEF Curtained, OnlyTheWindowHurts
<1> QED BY <1>1, CurtainedAlways, OnlyTheWindow, PTL
=============================================================================
