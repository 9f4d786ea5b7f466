------------------------ MODULE SessionSafetyProofs -------------------------
(***************************************************************************)
(* TLAPS proofs about SessionLifecycle, for every MaxAttempts,             *)
(* MaxGeneration, MaxCrashes and either value of SafetyTimer: its type     *)
(* invariant, and when a saved session can be restored.                    *)
(***************************************************************************)
EXTENDS SessionLifecycle, TLAPS

(* Where the tasks can be, given what is on screen.  This is what makes    *)
(* TypeOK and the lock discipline inductive: the main thread resets the    *)
(* handle only where no task can be running, and a restore is, until the   *)
(* settings are written again, one of the session they name.               *)
Placement ==
    /\ ui \in {"down", "drop"} => auth.pc = "idle" /\ generation = 0
    /\ ui \in {"down", "drop", "forgetLocal", "forgetSettings", "clearAll"} =>
           logout.pc = "idle"
    /\ auth.pc # "idle" =>
           /\ auth.id \in Ids
           /\ auth.kind # "restore" => ui = "intro"
           /\ auth.kind = "restore" =>
                  ui \in {"main", "forgetLocal", "forgetSettings", "clearAll", "signingOut"}
           /\ auth.kind = "restore" /\ ui \in {"main", "forgetLocal", "forgetSettings"} =>
                  saved = auth.id /\ named = auth.id
    /\ ui = "restoreFailed" => named # None /\ saved = named

TypeInv == TypeOK /\ Placement

-----------------------------------------------------------------------------
(* Facts about identifiers, bounds and the updates of the task records.    *)

LEMMA IdFacts == None \in MaybeId /\ Ids \subseteq MaybeId /\ None \notin Ids
  BY DEF None, Ids, MaybeId

LEMMA ZeroFacts == /\ 0 \in 0..MaxAttempts /\ 0 \in 0..MaxGeneration /\ 0 \in 0..MaxCrashes
  BY MaxAttemptsAssumption, MaxGenerationAssumption, MaxCrashesAssumption

LEMMA NextAttempt ==
    ASSUME attempts \in 0..MaxAttempts, attempts < MaxAttempts
    PROVE  attempts + 1 \in Ids /\ attempts + 1 \in 0..MaxAttempts
  BY MaxAttemptsAssumption DEF Ids

LEMMA NextGeneration ==
    ASSUME generation \in 0..MaxGeneration, generation < MaxGeneration
    PROVE  generation + 1 \in 0..MaxGeneration
  BY MaxGenerationAssumption

LEMMA GotoFacts ==
    ASSUME auth \in AuthStates, NEW pc \in AuthPcs, AuthGoto(pc)
    PROVE  /\ auth' \in AuthStates /\ auth'.pc = pc
           /\ auth'.kind = auth.kind /\ auth'.id = auth.id
  BY DEF AuthGoto, AuthStates

LEMMA FailFacts ==
    ASSUME auth \in AuthStates, AuthFails
    PROVE  /\ auth' \in AuthStates /\ auth'.pc = "report"
           /\ auth'.kind = auth.kind /\ auth'.id = auth.id
  BY DEF AuthFails, AuthStates, AuthPcs

LEMMA TakeFacts ==
    ASSUME auth \in AuthStates, NEW p \in MaybeId,
           auth' = [auth EXCEPT !.pc = "acquire", !.pass = p]
    PROVE  /\ auth' \in AuthStates /\ auth'.pc = "acquire"
           /\ auth'.kind = auth.kind /\ auth'.id = auth.id
  BY DEF AuthStates, AuthPcs

LEMMA NewAuthFacts ==
    ASSUME NEW kind \in AuthKinds, NEW pc \in AuthPcs, NEW id \in MaybeId
    PROVE  /\ NewAuth(kind, pc, id) \in AuthStates
           /\ NewAuth(kind, pc, id).pc = pc
           /\ NewAuth(kind, pc, id).kind = kind
           /\ NewAuth(kind, pc, id).id = id
  BY DEF NewAuth, AuthStates, MaybeId

LEMMA NoTaskFacts ==
    /\ NoAuth \in AuthStates /\ NoAuth.pc = "idle"
    /\ NoLogout \in LogoutStates /\ NoLogout.pc = "idle"
  BY MaxGenerationAssumption
     DEF NoAuth, NoLogout, AuthStates, LogoutStates, AuthPcs, AuthKinds, LogoutPcs, MaybeId

LEMMA LogoutGotoFacts ==
    ASSUME logout \in LogoutStates, NEW pc \in LogoutPcs, LogoutGoto(pc)
    PROVE  logout' \in LogoutStates /\ logout'.pc = pc
  BY DEF LogoutGoto, LogoutStates

LEMMA AloneFacts ==
    ASSUME logout \in LogoutStates
    PROVE  /\ [logout EXCEPT !.alone = FALSE] \in LogoutStates
           /\ [logout EXCEPT !.alone = FALSE].pc = logout.pc
  BY DEF LogoutStates

LEMMA NoSecretsFact == NoSecrets \in [Ids -> MaybeId]
  BY IdFacts DEF NoSecrets

LEMMA ForgottenFact ==
    ASSUME secSess \in [Ids -> MaybeId], NEW s
    PROVE  Forgotten(s) \in [Ids -> MaybeId]
  BY IdFacts DEF Forgotten

LEMMA ForgetFacts ==
    ASSUME TypeOK
    PROVE  /\ \A s : ForgetSession(s) => secSess' \in [Ids -> MaybeId]
           /\ ForgetLocalSecrets => secLocal' \in MaybeId
  BY ForgottenFact, IdFacts DEF ForgetSession, ForgetLocalSecrets, TypeOK

LEMMA WriteFacts ==
    ASSUME TypeOK, NEW s \in MaybeId, WriteSettings(s)
    PROVE  /\ saved' \in MaybeId /\ named' = s /\ named' \in MaybeId
           /\ unsaved' \in BOOLEAN /\ ghosts' \subseteq Ids
<1>1. {x \in {saved} \ {s, None} : secSess[x] # None} \subseteq Ids
  BY DEF TypeOK, MaybeId
<1> QED BY <1>1 DEF WriteSettings, TypeOK

(* A step of the authentication task that does not end it.                 *)
AuthGoesOn ==
    /\ auth' \in AuthStates /\ auth'.pc # "idle"
    /\ auth'.kind = auth.kind /\ auth'.id = auth.id

-----------------------------------------------------------------------------
(* TypeInv, actor by actor.                                                *)

LEMMA AuthStepKeepsTypeInv == ASSUME TypeInv, AuthStep PROVE TypeInv'
<1> USE DEF TypeInv
<1>1. CASE WipeStore
  <2>1. store' \in MaybeId
    BY <1>1, IdFacts DEF TypeOK, WipeStore, WipeFails
  <2>2. AuthGoesOn
    BY <1>1, GotoFacts, FailFacts, <2>1
       DEF AuthGoesOn, TypeOK, WipeStore, AuthPcs, WipeFails
  <2>3. TypeOK'
    BY <1>1, <2>1, <2>2 DEF AuthGoesOn, TypeOK, WipeStore, bounds
  <2>4. Placement'
    BY <1>1, <2>2 DEF AuthGoesOn, Placement, WipeStore
  <2> QED BY <2>3, <2>4
<1>2. CASE ResetCaches
  <2>1. caches' \in MaybeId /\ cacheOpen' \in MaybeId
    BY <1>2, IdFacts DEF TypeOK, ResetCaches
  <2>2. AuthGoesOn
    BY <1>2, GotoFacts, FailFacts, <2>1 DEF AuthGoesOn, TypeOK, ResetCaches, AuthPcs
  <2>3. TypeOK'
    BY <1>2, <2>1, <2>2 DEF AuthGoesOn, TypeOK, ResetCaches, bounds
  <2>4. Placement'
    BY <1>2, <2>2 DEF AuthGoesOn, Placement, ResetCaches
  <2> QED BY <2>3, <2>4
<1>3. CASE TakePassphrase
  <2>1. pending' \in MaybeId
    BY <1>3, IdFacts DEF TypeOK, Placement, TakePassphrase, PendingPassphrase
  <2>2. AuthGoesOn
    BY <1>3, TakeFacts, <2>1 DEF AuthGoesOn, TypeOK, TakePassphrase, AuthPcs
  <2>3. TypeOK'
    BY <1>3, <2>1, <2>2 DEF AuthGoesOn, TypeOK, TakePassphrase, bounds
  <2>4. Placement'
    BY <1>3, <2>2 DEF AuthGoesOn, Placement, TakePassphrase
  <2> QED BY <2>3, <2>4
<1>4. CASE LoadSecrets
  <2>1. caches' \in MaybeId /\ cacheOpen' \in MaybeId
    BY <1>4 DEF TypeOK, LoadSecrets, OpenCaches
  <2>2. secSess[auth.id] \in MaybeId
    BY <1>4 DEF TypeOK, Placement, LoadSecrets
  <2>3. AuthGoesOn
    BY <1>4, TakeFacts, FailFacts, <2>1, <2>2
       DEF AuthGoesOn, TypeOK, LoadSecrets, AuthPcs
  <2>4. TypeOK'
    BY <1>4, <2>1, <2>2, <2>3 DEF AuthGoesOn, TypeOK, LoadSecrets, bounds
  <2>5. Placement'
    BY <1>4, <2>3 DEF AuthGoesOn, Placement, LoadSecrets
  <2> QED BY <2>4, <2>5
<1>5. CASE AcquireStore
  <2>1. AuthGoesOn
    BY <1>5, GotoFacts  DEF AuthGoesOn, TypeOK, AcquireStore, AuthPcs
  <2>2. TypeOK'
    BY <1>5, <2>1 DEF AuthGoesOn, TypeOK, AcquireStore, bounds
  <2>3. Placement'
    BY <1>5, <2>1 DEF AuthGoesOn, Placement, AcquireStore
  <2> QED BY <2>2, <2>3
<1>6. CASE OpenStore
  <2>1. store' \in MaybeId
    BY <1>6 DEF TypeOK, OpenStore, AuthStates
  <2>2. storeLock' = "free"
    BY <1>6 DEF OpenStore, BuildFails, BuildSucceeds
  <2>3. AuthGoesOn
    BY <1>6, GotoFacts, FailFacts, <2>1, <2>2
       DEF AuthGoesOn, TypeOK, OpenStore, AuthPcs, BuildFails, BuildSucceeds
  <2>4. TypeOK'
    BY <1>6, <2>1, <2>2, <2>3 DEF AuthGoesOn, TypeOK, OpenStore, bounds
  <2>5. Placement'
    BY <1>6, <2>3 DEF AuthGoesOn, Placement, OpenStore
  <2> QED BY <2>4, <2>5
<1>7. CASE SdkCall
  <2>1. AuthGoesOn \/ (auth' = NoAuth /\ auth.kind # "restore")
    BY <1>7, GotoFacts, FailFacts DEF AuthGoesOn, TypeOK, SdkCall, Challenge, AuthPcs
  <2>2. pending' \in MaybeId /\ challenged' \in BOOLEAN
    BY <1>7 DEF TypeOK, SdkCall, Challenge
  <2>3. auth' \in AuthStates
    BY <1>7, <2>1, NoTaskFacts DEF AuthGoesOn
  <2>4. TypeOK'
    BY <1>7, <2>2, <2>3 DEF TypeOK, SdkCall, bounds
  <2>5. Placement'
    BY <1>7, <2>1, NoTaskFacts DEF AuthGoesOn, Placement, SdkCall
  <2> QED BY <2>4, <2>5
<1>8. CASE CommitSecrets
  <2>1. secSess' \in [Ids -> MaybeId]
    BY <1>8 DEF TypeOK, CommitSecrets, CommittedPassphrase, secrets, AuthStates
  <2>2. secLocal' \in MaybeId
    BY <1>8 DEF TypeOK, CommitSecrets, secrets, AuthStates
  <2>3. AuthGoesOn
    BY <1>8, GotoFacts, FailFacts, <2>1, <2>2
       DEF AuthGoesOn, TypeOK, CommitSecrets, AuthPcs
  <2>4. TypeOK'
    BY <1>8, <2>1, <2>2, <2>3 DEF AuthGoesOn, TypeOK, CommitSecrets, bounds
  <2>5. Placement'
    BY <1>8, <2>3 DEF AuthGoesOn, Placement, CommitSecrets
  <2> QED BY <2>4, <2>5
<1>9. CASE OpenCacheStores
  <2>1. store' \in MaybeId /\ pending' \in MaybeId
    BY <1>9, IdFacts DEF TypeOK, OpenCacheStores
  <2>2. caches' \in MaybeId /\ cacheOpen' \in MaybeId
    BY <1>9 DEF TypeOK, OpenCacheStores, OpenCaches, AuthStates
  <2>3. AuthGoesOn
    BY <1>9, GotoFacts, FailFacts, <2>1, <2>2
       DEF AuthGoesOn, TypeOK, OpenCacheStores, AuthPcs
  <2>4. TypeOK'
    BY <1>9, <2>1, <2>2, <2>3 DEF AuthGoesOn, TypeOK, OpenCacheStores, bounds
  <2>5. Placement'
    BY <1>9, <2>3 DEF AuthGoesOn, Placement, OpenCacheStores
  <2> QED BY <2>4, <2>5
<1>10. CASE SetClient
  <2>1. client' \in MaybeId
    BY <1>10 DEF TypeOK, SetClient, AuthStates
  <2>2. AuthGoesOn
    BY <1>10 DEF AuthGoesOn, TypeOK, SetClient, AuthStates, AuthPcs
  <2>3. TypeOK'
    BY <1>10, <2>1, <2>2 DEF AuthGoesOn, TypeOK, SetClient, bounds
  <2>4. Placement'
    BY <1>10, <2>2 DEF AuthGoesOn, Placement, SetClient
  <2> QED BY <2>3, <2>4
<1> QED BY <1>1, <1>2, <1>3, <1>4, <1>5, <1>6, <1>7, <1>8, <1>9, <1>10 DEF AuthStep

LEMMA LogoutStepKeepsTypeInv == ASSUME TypeInv, LogoutStep PROVE TypeInv'
<1> USE DEF TypeInv
<1>1. CASE TakeClient
  <2>1. client' \in MaybeId
    BY <1>1, IdFacts DEF TakeClient
  <2>2. logout' \in LogoutStates
    BY <1>1 DEF TypeOK, TakeClient, LogoutStates, LogoutPcs
  <2>3. TypeOK'
    BY <1>1, <2>1, <2>2 DEF TypeOK, TakeClient, bounds
  <2>4. Placement'
    BY <1>1 DEF Placement, TakeClient
  <2> QED BY <2>3, <2>4
<1>2. CASE CheckGeneration
  <2>1. logout' \in LogoutStates
    BY <1>2, LogoutGotoFacts DEF TypeOK, CheckGeneration, LogoutStates, LogoutPcs
  <2>2. TypeOK'
    BY <1>2, <2>1 DEF TypeOK, CheckGeneration, bounds
  <2>3. Placement'
    BY <1>2 DEF Placement, CheckGeneration
  <2> QED BY <2>2, <2>3
<1>3. CASE CloseHandles
  <2>1. cacheOpen' \in MaybeId /\ pending' \in MaybeId
    BY <1>3, IdFacts DEF CloseHandles
  <2>2. logout' \in LogoutStates
    BY <1>3, LogoutGotoFacts DEF TypeOK, CloseHandles, LogoutPcs
  <2>3. TypeOK'
    BY <1>3, <2>1, <2>2 DEF TypeOK, CloseHandles, bounds
  <2>4. Placement'
    BY <1>3 DEF Placement, CloseHandles
  <2> QED BY <2>3, <2>4
<1>4. CASE AcquireMove
  <2>1. logout' \in LogoutStates
    BY <1>4, LogoutGotoFacts DEF TypeOK, AcquireMove, LogoutPcs
  <2>2. TypeOK'
    BY <1>4, <2>1 DEF TypeOK, AcquireMove, bounds
  <2>3. Placement'
    BY <1>4 DEF Placement, AcquireMove
  <2> QED BY <2>2, <2>3
<1>5. CASE MoveStore
  <2>1. store' \in MaybeId
    BY <1>5, IdFacts DEF TypeOK, MoveStore
  <2>2. logout' \in LogoutStates
    BY <1>5, LogoutGotoFacts DEF TypeOK, MoveStore, LogoutPcs
  <2>3. TypeOK'
    BY <1>5, <2>1, <2>2 DEF TypeOK, MoveStore, bounds
  <2>4. Placement'
    BY <1>5 DEF Placement, MoveStore
  <2> QED BY <2>3, <2>4
<1>6. CASE MoveCachesAndGate
  <2>1. store' \in MaybeId /\ caches' \in MaybeId
    BY <1>6, IdFacts DEF TypeOK, MoveCachesAndGate, StoreGate
  <2>2. logout' \in LogoutStates
    BY <1>6 DEF TypeOK, MoveCachesAndGate, StoreGate, LogoutStates, LogoutPcs
  <2>3. TypeOK'
    BY <1>6, <2>1, <2>2 DEF TypeOK, MoveCachesAndGate, bounds
  <2>4. Placement'
    BY <1>6 DEF Placement, MoveCachesAndGate
  <2> QED BY <2>3, <2>4
<1>7. CASE ScrubSecrets
  <2>1. secSess' \in [Ids -> MaybeId] /\ secLocal' \in MaybeId
    BY <1>7, IdFacts, ForgottenFact DEF TypeOK, ScrubSecrets, ScrubFails, secrets
  <2>2. logout' \in LogoutStates
    BY <1>7, LogoutGotoFacts
       DEF TypeOK, ScrubSecrets, ScrubFails, LogoutStates, LogoutPcs
  <2>3. TypeOK'
    BY <1>7, <2>1, <2>2 DEF TypeOK, ScrubSecrets, bounds
  <2>4. Placement'
    BY <1>7 DEF Placement, ScrubSecrets
  <2> QED BY <2>3, <2>4
<1> QED BY <1>1, <1>2, <1>3, <1>4, <1>5, <1>6, <1>7 DEF LogoutStep

LEMMA FinishSignOutKeepsTypeInv == ASSUME TypeInv, FinishSignOut PROVE TypeInv'
<1>1. generation' \in 0..MaxGeneration /\ caches' \in MaybeId /\ cacheOpen' \in MaybeId
  BY ZeroFacts DEF TypeInv, TypeOK, FinishSignOut, NewHandle
<1>2. auth' \in AuthStates /\ logout' \in LogoutStates /\ ui' \in Screens
  BY NoTaskFacts DEF TypeInv, FinishSignOut, Screens
<1>3. TypeOK'
  BY <1>1, <1>2, IdFacts DEF TypeInv, TypeOK, FinishSignOut, NewHandle, bounds
<1>4. Placement'
  BY NoTaskFacts DEF TypeInv, Placement, FinishSignOut
<1> QED BY <1>3, <1>4 DEF TypeInv

LEMMA MainStepKeepsTypeInv == ASSUME TypeInv, MainStep PROVE TypeInv'
<1> USE DEF TypeInv
<1>1. CASE ReportSignIn
  <2>1. client \in MaybeId /\ None \in MaybeId
    BY IdFacts DEF TypeOK
  <2>2. /\ saved' \in MaybeId /\ named' \in MaybeId
        /\ unsaved' \in BOOLEAN /\ ghosts' \subseteq Ids
        /\ secSess' \in [Ids -> MaybeId] /\ secLocal' \in MaybeId
    <3>1. CASE ~auth.ok
      BY <1>1, <3>1 DEF TypeOK, ReportSignIn
    <3>2. CASE auth.ok
      BY <1>1, <2>1, <3>2, WriteFacts, ForgetFacts
         DEF TypeOK, ReportSignIn, PersistSession, secrets
    <3> QED BY <3>1, <3>2
  <2>3. TypeOK'
    BY <1>1, <2>2, NoTaskFacts DEF TypeOK, ReportSignIn, Screens
  <2>4. Placement'
    BY <1>1, <2>1, <2>2, NoTaskFacts DEF Placement, ReportSignIn
  <2> QED BY <2>3, <2>4
<1>2. CASE ReportRestore
  <2>1. TypeOK'
    BY <1>2, NoTaskFacts DEF TypeOK, ReportRestore, bounds, Screens
  <2>2. Placement'
    BY <1>2, NoTaskFacts, IdFacts DEF Placement, ReportRestore
  <2> QED BY <2>1, <2>2
<1>3. CASE DropSettings
  <2>1. logout' \in LogoutStates /\ generation' \in 0..MaxGeneration
    BY <1>3, MaxGenerationAssumption, IdFacts
       DEF DropSettings, NewHandle, StartCleanup, LogoutStates, LogoutPcs
  <2>2. TypeOK'
    BY <1>3, <2>1, IdFacts, WriteFacts
       DEF TypeOK, DropSettings, NewHandle, StartCleanup, Screens
  <2>3. Placement'
    BY <1>3, <2>1 DEF Placement, DropSettings, NewHandle, StartCleanup
  <2> QED BY <2>2, <2>3
<1>4. CASE ForgetLocal
  <2>1. TypeOK'
    BY <1>4, IdFacts, ForgetFacts DEF TypeOK, ForgetLocal, bounds, Screens
  <2>2. Placement'
    BY <1>4 DEF Placement, ForgetLocal
  <2> QED BY <2>1, <2>2
<1>5. CASE ForgetSettings
  <2>1. TypeOK'
    BY <1>5, IdFacts, WriteFacts DEF TypeOK, ForgetSettings, Screens
  <2>2. Placement'
    BY <1>5 DEF Placement, ForgetSettings
  <2> QED BY <2>1, <2>2
<1>6. CASE ClearAllAndLogout
  <2>1. logout' \in LogoutStates
    BY <1>6, IdFacts DEF TypeOK, ClearAllAndLogout, NewLogout, LogoutStates, LogoutPcs
  <2>2. TypeOK'
    BY <1>6, <2>1, IdFacts, NoSecretsFact
       DEF TypeOK, ClearAllAndLogout, secrets, bounds, Screens
  <2>3. Placement'
    BY <1>6, <2>1 DEF Placement, ClearAllAndLogout
  <2> QED BY <2>2, <2>3
<1>7. CASE GiveUpSettings
  <2>1. TypeOK'
    BY <1>7, IdFacts, WriteFacts DEF TypeOK, GiveUpSettings, Screens
  <2>2. Placement'
    BY <1>7 DEF Placement, GiveUpSettings
  <2> QED BY <2>1, <2>2
<1>8. CASE FinishSignOut
  BY <1>8, FinishSignOutKeepsTypeInv
<1>9. CASE FinishCleanup
  <2>1. TypeOK'
    BY <1>9, NoTaskFacts DEF TypeOK, FinishCleanup, bounds, Screens
  <2>2. Placement'
    BY <1>9, NoTaskFacts DEF Placement, FinishCleanup
  <2> QED BY <2>1, <2>2
<1> QED BY <1>1, <1>2, <1>3, <1>4, <1>5, <1>6, <1>7, <1>8, <1>9 DEF MainStep

LEMMA UserStepKeepsTypeInv == ASSUME TypeInv, UserStep PROVE TypeInv'
<1> USE DEF TypeInv
<1>1. ASSUME NEW kind \in {"login", "register"}, BeginSignIn(kind) PROVE TypeInv'
  <2>1. logout' \in LogoutStates /\ logout'.pc = logout.pc
    BY <1>1, AloneFacts DEF TypeOK, BeginSignIn, Overlap
  <2>2. attempts + 1 \in Ids /\ attempts' \in 0..MaxAttempts /\ generation' \in 0..MaxGeneration
    BY <1>1, NextAttempt, NextGeneration DEF TypeOK, BeginSignIn
  <2>3. auth' \in AuthStates /\ auth'.kind = kind /\ auth'.id = attempts + 1
    BY <1>1, <2>2, NewAuthFacts, IdFacts DEF BeginSignIn, AuthKinds, AuthPcs
  <2>4. overtaken' \in BOOLEAN
    BY <1>1 DEF BeginSignIn, Overlap
  <2>5. TypeOK'
    BY <1>1, <2>1, <2>2, <2>3, <2>4 DEF TypeOK, BeginSignIn
  <2>6. Placement'
    BY <1>1, <2>1, <2>2, <2>3 DEF Placement, BeginSignIn
  <2> QED BY <2>5, <2>6
<1>2. CASE BeginSubmit
  <2>1. logout' \in LogoutStates /\ logout'.pc = logout.pc
    BY <1>2, AloneFacts DEF TypeOK, BeginSubmit
  <2>2. attempts + 1 \in Ids /\ attempts' \in 0..MaxAttempts
    BY <1>2, NextAttempt DEF TypeOK, BeginSubmit
  <2>3. auth' \in AuthStates /\ auth'.kind = "submit" /\ auth'.id = attempts + 1
    BY <1>2, <2>2, NewAuthFacts, IdFacts DEF BeginSubmit, AuthKinds, AuthPcs
  <2>4. overtaken' \in BOOLEAN
    BY <1>2 DEF BeginSubmit
  <2>5. TypeOK'
    BY <1>2, <2>1, <2>2, <2>3, <2>4 DEF TypeOK, BeginSubmit
  <2>6. Placement'
    BY <1>2, <2>1, <2>2, <2>3 DEF Placement, BeginSubmit
  <2> QED BY <2>5, <2>6
<1>3. CASE SignOut
  <2>1. secSess' \in [Ids -> MaybeId]
    BY <1>3, ForgetFacts DEF SignOut
  <2>2. TypeOK'
    BY <1>3, <2>1 DEF TypeOK, SignOut, bounds, Screens
  <2>3. Placement'
    BY <1>3, <2>1 DEF Placement, SignOut
  <2> QED BY <2>2, <2>3
<1>4. CASE RetryRestore
  <2>1. auth' \in AuthStates /\ auth'.kind = "restore" /\ auth'.id = named
    BY <1>4, NewAuthFacts DEF TypeOK, RetryRestore, BeginRestore, AuthKinds, AuthPcs
  <2>2. generation' \in 0..MaxGeneration
    BY <1>4, NextGeneration DEF TypeOK, RetryRestore, BeginRestore
  <2>3. TypeOK'
    BY <1>4, <2>1, <2>2 DEF TypeOK, RetryRestore, bounds, Screens
  <2>4. Placement'
    BY <1>4, <2>1, <2>2, IdFacts DEF Placement, RetryRestore, TypeOK, MaybeId
  <2> QED BY <2>3, <2>4
<1>5. CASE GiveUpRestore
  <2>1. secSess' \in [Ids -> MaybeId] /\ secLocal' \in MaybeId
    BY <1>5, ForgetFacts DEF GiveUpRestore
  <2>2. TypeOK'
    BY <1>5, <2>1, IdFacts DEF TypeOK, GiveUpRestore, bounds, Screens
  <2>3. Placement'
    BY <1>5, <2>1 DEF Placement, GiveUpRestore
  <2> QED BY <2>2, <2>3
<1>6. CASE RestartSignedOut
  <2>1. logout' \in LogoutStates /\ generation' \in 0..MaxGeneration
    BY <1>6, MaxGenerationAssumption, IdFacts
       DEF RestartSignedOut, NewHandle, StartCleanup, LogoutStates, LogoutPcs
  <2>2. TypeOK'
    BY <1>6, <2>1, IdFacts
       DEF TypeOK, RestartSignedOut, bounds, NewHandle, StartCleanup, Screens
  <2>3. Placement'
    BY <1>6, <2>1 DEF Placement, RestartSignedOut, NewHandle, StartCleanup
  <2> QED BY <2>2, <2>3
<1>7. CASE RestartRestoring
  <2>1. auth' \in AuthStates /\ auth'.kind = "restore" /\ auth'.id = saved
    BY <1>7, NewAuthFacts
       DEF TypeOK, RestartRestoring, BeginRestore, AuthKinds, AuthPcs
  <2>2. generation' \in 0..MaxGeneration
    BY <1>7, MaxGenerationAssumption
       DEF TypeOK, Placement, RestartRestoring, BeginRestore
  <2>3. TypeOK'
    BY <1>7, <2>1, <2>2, IdFacts DEF TypeOK, RestartRestoring, bounds, Screens
  <2>4. Placement'
    BY <1>7, <2>1, <2>2, IdFacts DEF Placement, RestartRestoring, TypeOK, MaybeId
  <2> QED BY <2>3, <2>4
<1>8. CASE RestartIncomplete
  <2>1. TypeOK'
    BY <1>8, IdFacts, NoSecretsFact, ForgottenFact, ForgetFacts
       DEF TypeOK, RestartIncomplete, bounds, Screens
  <2>2. Placement'
    BY <1>8 DEF Placement, RestartIncomplete
  <2> QED BY <2>1, <2>2
<1>9. CASE RestartAbsent
  <2>1. TypeOK'
    BY <1>9, IdFacts, NoSecretsFact, MaxGenerationAssumption, WriteFacts
       DEF TypeOK, RestartAbsent, NewHandle, Screens
  <2>2. Placement'
    BY <1>9 DEF Placement, RestartAbsent
  <2> QED BY <2>1, <2>2
<1>10. CASE SaveSettings
  <2>1. TypeOK'
    BY <1>10 DEF TypeOK, SaveSettings
  <2>2. Placement'
    BY <1>10 DEF Placement, SaveSettings
  <2> QED BY <2>1, <2>2
<1> QED
  BY <1>1, <1>2, <1>3, <1>4, <1>5, <1>6, <1>7, <1>8, <1>9, <1>10 DEF UserStep

LEMMA CleanupTimerKeepsTypeInv == ASSUME TypeInv, CleanupTimer PROVE TypeInv'
<1>1. TypeOK'
  BY DEF TypeInv, TypeOK, CleanupTimer, bounds, Screens
<1>2. Placement'
  BY DEF TypeInv, Placement, CleanupTimer
<1> QED BY <1>1, <1>2 DEF TypeInv

LEMMA CrashKeepsTypeInv == ASSUME TypeInv, Crash PROVE TypeInv'
<1>1. generation' \in 0..MaxGeneration /\ crashes' \in 0..MaxCrashes
  BY ZeroFacts, MaxCrashesAssumption DEF TypeInv, TypeOK, Crash
<1>2. auth' \in AuthStates /\ logout' \in LogoutStates /\ ui' \in Screens
  BY NoTaskFacts DEF Crash, Screens
<1>3. TypeOK'
  BY <1>1, <1>2, IdFacts DEF TypeInv, TypeOK, Crash
<1>4. Placement'
  BY NoTaskFacts DEF TypeInv, Placement, Crash
<1> QED BY <1>3, <1>4 DEF TypeInv

LEMMA StutterKeepsTypeInv == ASSUME TypeInv, UNCHANGED vars PROVE TypeInv'
  BY DEF TypeInv, TypeOK, Placement, vars

LEMMA InitTypeInv == Init => TypeInv
<1> SUFFICES ASSUME Init PROVE TypeInv
  OBVIOUS
<1>1. TypeOK
  BY NoTaskFacts, NoSecretsFact, IdFacts, ZeroFacts DEF Init, TypeOK, Screens
<1>2. Placement
  BY NoTaskFacts DEF Init, Placement
<1> QED BY <1>1, <1>2 DEF TypeInv

LEMMA StepTypeInv == TypeInv /\ [Next]_vars => TypeInv'
  BY AuthStepKeepsTypeInv, LogoutStepKeepsTypeInv, MainStepKeepsTypeInv,
     UserStepKeepsTypeInv, CleanupTimerKeepsTypeInv, FinishSignOutKeepsTypeInv,
     CrashKeepsTypeInv, StutterKeepsTypeInv
     DEF Next

(* Every variable of the sign-in, sign-out and start-up code stays in its  *)
(* range, and the tasks run only where the screen lets them.               *)
THEOREM Typing == Spec => []TypeInv
  BY InitTypeInv, StepTypeInv, PTL DEF Spec

(* TypeOK of the runs, for every value of the constants.                   *)
THEOREM TypeCorrect == Spec => []TypeOK
<1>1. TypeInv => TypeOK
  BY DEF TypeInv
<1> QED BY Typing, <1>1, PTL

-----------------------------------------------------------------------------
(* Saved sessions can be restored.                                         *)

(* A logout that has not been outrun by a sign-in: it is in its tail, or   *)
(* the generation check it still has to make would let it into the tail.   *)
LogoutCanWipe ==
    \/ logout.pc \in LogoutTail
    \/ logout.pc \in {"take", "check"} /\ generation = logout.gen

(* While it is, nobody is signed in and nobody is signing in -- or the     *)
(* sign-in began too late to be seen.                                      *)
NobodyToHurt ==
    LogoutCanWipe /\ ~overtaken =>
        /\ ui \in {"cleanup", "intro", "signingOut"} /\ ~challenged
        /\ auth.pc # "idle" => auth.kind = "restore"

(* The settings file names nobody, or a session that was to be forgotten:  *)
(* one without a passphrase, or with one that outlived a failed write.     *)
LeftOver == saved = None \/ secSess[saved] = None \/ saved \in ghosts

(* Which session the settings name, and what outlives what.                *)
Screening ==
    /\ ui \in {"down", "cleanup", "intro", "clearAll", "signingOut"} => named = None
    /\ ui # "down" => saved = named \/ LeftOver
    /\ challenged => ui = "intro"
    /\ logout.pc # "idle" => logout.gen <= generation

(* A sign-in is for a session that nothing names yet.                      *)
FreshSession ==
    /\ {saved, named, client, auth.id} \subseteq 0..attempts
    /\ auth.pc # "idle" /\ auth.kind # "restore" => auth.id \notin {saved, named}

Opened    == auth.pc \in {"sdk", "commit", "caches", "client"} \/ (auth.pc = "report" /\ auth.ok)
Committed == auth.pc \in {"caches", "client"} \/ (auth.pc = "report" /\ auth.ok)

(* A sign-in owns the store it opened, and its secrets say so.             *)
SignInOwnsStore ==
    auth.kind # "restore" /\ ~overtaken =>
        /\ Opened => store = auth.pass
        /\ Committed => secSess[auth.id] = auth.pass
        /\ auth.pc = "report" /\ auth.ok => client \in {None, auth.id}

(* The session on screen could be restored, had its settings been written. *)
NamedRestorable ==
    ~overtaken /\ ui = "main" /\ saved # named /\ named # None /\ SecretsComplete(named) =>
        store = secSess[named]

(* A restore uses the passphrase the keychain has for its session.         *)
RestoreUsesItsOwn ==
    auth.kind = "restore" /\ auth.pc \in {"acquire", "open"}
        /\ secSess[auth.id] # None => auth.pass = secSess[auth.id]

(* A restore neither wipes nor commits.                                    *)
RestorePath ==
    auth.kind = "restore" => auth.pc \notin {"wipe", "reset", "commit", "caches"}

SafeInv ==
    /\ RestorePath /\ Screening /\ FreshSession /\ NobodyToHurt /\ SignInOwnsStore
    /\ NamedRestorable /\ RestoreUsesItsOwn
    /\ ~overtaken => SavedSessionRestorable

-----------------------------------------------------------------------------
(* Updates of the task records, in the detail this invariant needs.        *)

SameTask == auth'.kind = auth.kind /\ auth'.id = auth.id /\ auth'.pass = auth.pass
Failed   == auth'.pc = "report" /\ ~auth'.ok

LEMMA GotoKeeps ==
    ASSUME auth \in AuthStates, NEW pc \in AuthPcs, AuthGoto(pc)
    PROVE  SameTask /\ auth'.pc = pc /\ auth'.ok = auth.ok
  BY DEF AuthGoto, AuthStates, SameTask

LEMMA FailKeeps ==
    ASSUME auth \in AuthStates, AuthFails
    PROVE  SameTask /\ Failed
  BY DEF AuthFails, AuthStates, SameTask, Failed

LEMMA LogoutGotoKeeps ==
    ASSUME logout \in LogoutStates, NEW pc \in LogoutPcs, LogoutGoto(pc)
    PROVE  logout'.pc = pc /\ logout'.gen = logout.gen
  BY DEF LogoutGoto, LogoutStates

(* Deleting keychain entries, whether or not the deletion works.           *)
SecretsShrink == \A x \in Ids : secSess'[x] \in {None, secSess[x]}

LEMMA ForgetShrinks ==
    ASSUME TypeOK
    PROVE  /\ UNCHANGED secSess => SecretsShrink
           /\ secSess' = NoSecrets => SecretsShrink
           /\ \A s : secSess' = Forgotten(s) => SecretsShrink
           /\ \A s : ForgetSession(s) => SecretsShrink
  BY DEF SecretsShrink, ForgetSession, Forgotten, NoSecrets, TypeOK

(* After a write of the settings the file follows the memory, or still     *)
(* names a session that was to be forgotten.                               *)
LEMMA WriteFollows ==
    ASSUME TypeOK, NEW s, WriteSettings(s), SecretsShrink
    PROVE  named' = s /\ saved' \in {saved, s} /\ (saved' = s \/ LeftOver')
<1>1. CASE saved' = s /\ named' = s
  BY <1>1
<1>2. CASE named' = s /\ saved' = saved /\ saved # s
           /\ ghosts' = ghosts \cup {x \in {saved} \ {s, None} : secSess[x] # None}
  BY <1>2 DEF TypeOK, MaybeId, LeftOver, SecretsShrink
<1>3. CASE named' = s /\ saved' = saved /\ saved = s
  BY <1>3
<1> QED BY <1>1, <1>2, <1>3 DEF WriteSettings

(* Where the settings in memory name nobody, nothing can be restored.      *)
LEMMA NamingNobody ==
    ASSUME Screening', ui' \in {"cleanup", "intro", "clearAll", "signingOut"}
    PROVE  SavedSessionRestorable'
  BY DEF Screening, LeftOver, SavedSessionRestorable, SecretsComplete

(* Deleting secrets, and leaving the rest alone, keeps what was left over, *)
(* what can be restored, and what a restore has read.                      *)
LEMMA ShrinkKeeps ==
    ASSUME TypeInv, SafeInv, SecretsShrink, secLocal' \in {None, secLocal},
           UNCHANGED <<saved, ghosts, auth, store, overtaken>>
    PROVE  /\ LeftOver => LeftOver'
           /\ RestoreUsesItsOwn'
           /\ (~overtaken => SavedSessionRestorable)'
<1> USE DEF TypeInv, TypeOK, SafeInv, SecretsShrink
<1>1. LeftOver => LeftOver'
  BY DEF MaybeId, LeftOver
<1>2. RestoreUsesItsOwn'
  BY DEF RestoreUsesItsOwn, Placement
<1>3. (~overtaken => SavedSessionRestorable)'
  BY DEF MaybeId, SavedSessionRestorable, SecretsComplete, HasLocalSecrets
<1> QED BY <1>1, <1>2, <1>3

LEMMA NobodyIsKnown == TypeOK => None \in 0..attempts
  BY MaxAttemptsAssumption DEF TypeOK, None

LEMMA NoTasks == /\ NoAuth.pc = "idle" /\ NoAuth.kind = "login" /\ NoAuth.ok = FALSE
                 /\ NoAuth.id = None
                 /\ NoLogout.pc = "idle"
  BY DEF NoAuth, NoLogout

-----------------------------------------------------------------------------
(* SafeInv, actor by actor.                                                *)

LEMMA AuthStepKeepsSafeInv == ASSUME TypeInv, SafeInv, AuthStep PROVE SafeInv'
<1> USE DEF TypeInv, SafeInv
<1>1. CASE WipeStore
  <2>1. SameTask /\ auth.kind # "restore" /\ (auth'.pc = "reset" \/ Failed)
    BY <1>1, GotoKeeps, FailKeeps DEF TypeOK, RestorePath, WipeStore, AuthPcs, WipeFails
  <2>2. RestorePath'
    BY <1>1, <2>1 DEF RestorePath, SameTask, Failed, WipeStore
  <2>3. Screening'
    BY <1>1, <2>1
       DEF Screening, LeftOver, Placement, SameTask, Failed, WipeStore, bounds
  <2>4. FreshSession'
    BY <1>1, <2>1 DEF FreshSession, SameTask, Failed, WipeStore, bounds
  <2>5. NamedRestorable'
    BY <1>1, <2>1
       DEF NamedRestorable, SecretsComplete, HasLocalSecrets, Placement, SameTask,
           Failed, WipeStore, bounds
  <2>6. NobodyToHurt'
    BY <1>1, <2>1
       DEF NobodyToHurt, LogoutCanWipe, Screening, Placement, SameTask, Failed,
           WipeStore, bounds
  <2>7. SignInOwnsStore'
    BY <1>1, <2>1
       DEF SignInOwnsStore, Opened, Committed, SameTask, Failed, WipeStore, bounds
  <2>8. RestoreUsesItsOwn'
    BY <1>1, <2>1
       DEF RestoreUsesItsOwn, SecretsComplete, HasLocalSecrets, SameTask, Failed,
           WipeStore
  <2>9. (~overtaken => SavedSessionRestorable)'
    BY <1>1, <2>1, <2>3, NamingNobody
       DEF Placement, WipeStore
  <2> QED BY <2>2, <2>3, <2>4, <2>5, <2>6, <2>7, <2>8, <2>9
<1>2. CASE ResetCaches
  <2>1. SameTask /\ auth.kind # "restore" /\ auth'.pc = "pass"
    BY <1>2, GotoKeeps DEF TypeOK, RestorePath, ResetCaches, AuthPcs
  <2>2. RestorePath'
    BY <1>2, <2>1 DEF RestorePath, SameTask, Failed, ResetCaches
  <2>3. Screening'
    BY <1>2, <2>1
       DEF Screening, LeftOver, Placement, SameTask, Failed, ResetCaches, bounds
  <2>4. FreshSession'
    BY <1>2, <2>1 DEF FreshSession, SameTask, Failed, ResetCaches, bounds
  <2>5. NamedRestorable'
    BY <1>2, <2>1
       DEF NamedRestorable, SecretsComplete, HasLocalSecrets, Placement, SameTask,
           Failed, ResetCaches, bounds
  <2>6. NobodyToHurt'
    BY <1>2, <2>1
       DEF NobodyToHurt, LogoutCanWipe, Screening, Placement, SameTask, Failed,
           ResetCaches, bounds
  <2>7. SignInOwnsStore'
    BY <1>2, <2>1
       DEF SignInOwnsStore, Opened, Committed, SameTask, Failed, ResetCaches, bounds
  <2>8. RestoreUsesItsOwn'
    BY <1>2, <2>1
       DEF RestoreUsesItsOwn, SecretsComplete, HasLocalSecrets, SameTask, Failed,
           ResetCaches
  <2>9. (~overtaken => SavedSessionRestorable)'
    BY <1>2, <2>1
       DEF SavedSessionRestorable, SecretsComplete, HasLocalSecrets, Screening,
           Placement, ResetCaches, bounds
  <2> QED BY <2>2, <2>3, <2>4, <2>5, <2>6, <2>7, <2>8, <2>9
<1>3. CASE TakePassphrase
  <2>1. auth'.kind = auth.kind /\ auth.kind # "restore" /\ auth'.pc = "acquire"
    BY <1>3 DEF TypeOK, RestorePath, TakePassphrase, AuthStates
  <2>2. RestorePath'
    BY <1>3, <2>1 DEF RestorePath, TakePassphrase
  <2>3. Screening'
    BY <1>3, <2>1 DEF Screening, LeftOver, Placement, TakePassphrase, bounds
  <2>4. FreshSession'
    BY <1>3, <2>1 DEF FreshSession, TakePassphrase, bounds
  <2>5. NamedRestorable'
    BY <1>3, <2>1
       DEF NamedRestorable, SecretsComplete, HasLocalSecrets, Placement,
           TakePassphrase, bounds
  <2>6. NobodyToHurt'
    BY <1>3, <2>1
       DEF NobodyToHurt, LogoutCanWipe, Screening, Placement, TakePassphrase, bounds
  <2>7. SignInOwnsStore'
    BY <1>3, <2>1 DEF SignInOwnsStore, Opened, Committed, TakePassphrase, bounds
  <2>8. RestoreUsesItsOwn'
    BY <1>3, <2>1 DEF RestoreUsesItsOwn, SecretsComplete, HasLocalSecrets, TakePassphrase
  <2>9. (~overtaken => SavedSessionRestorable)'
    BY <1>3, <2>1
       DEF SavedSessionRestorable, SecretsComplete, HasLocalSecrets, Screening,
           Placement, TakePassphrase, bounds
  <2> QED BY <2>2, <2>3, <2>4, <2>5, <2>6, <2>7, <2>8, <2>9
<1>4. CASE LoadSecrets
  <2>1. /\ auth'.kind = "restore" /\ auth'.id = auth.id
        /\ (auth'.pc = "acquire" /\ auth'.pass = secSess[auth.id]) \/ Failed
    BY <1>4, FailKeeps
       DEF TypeOK, RestorePath, LoadSecrets, AuthStates, SameTask, Failed
  <2>2. RestorePath'
    BY <1>4, <2>1 DEF RestorePath, Failed, LoadSecrets
  <2>3. Screening'
    BY <1>4, <2>1 DEF Screening, LeftOver, Placement, Failed, LoadSecrets, bounds
  <2>4. FreshSession'
    BY <1>4, <2>1 DEF FreshSession, Failed, LoadSecrets, bounds
  <2>5. NamedRestorable'
    BY <1>4, <2>1
       DEF NamedRestorable, SecretsComplete, HasLocalSecrets, Placement, Failed,
           LoadSecrets, bounds
  <2>6. NobodyToHurt'
    BY <1>4, <2>1
       DEF NobodyToHurt, LogoutCanWipe, Screening, Placement, Failed, LoadSecrets,
           bounds
  <2>7. SignInOwnsStore'
    BY <1>4, <2>1 DEF SignInOwnsStore, Opened, Committed, Failed, LoadSecrets, bounds
  <2>8. RestoreUsesItsOwn'
    BY <1>4, <2>1
       DEF RestoreUsesItsOwn, SecretsComplete, HasLocalSecrets, Failed, LoadSecrets,
           Screening, Placement
  <2>9. (~overtaken => SavedSessionRestorable)'
    BY <1>4, <2>1
       DEF SavedSessionRestorable, SecretsComplete, HasLocalSecrets, Screening,
           Placement, LoadSecrets, bounds
  <2> QED BY <2>2, <2>3, <2>4, <2>5, <2>6, <2>7, <2>8, <2>9
<1>5. CASE AcquireStore
  <2>1. SameTask /\ auth'.pc = "open"
    BY <1>5, GotoKeeps DEF TypeOK, RestorePath, AcquireStore, AuthPcs
  <2>2. RestorePath'
    BY <1>5, <2>1 DEF RestorePath, SameTask, Failed, AcquireStore
  <2>3. Screening'
    BY <1>5, <2>1
       DEF Screening, LeftOver, Placement, SameTask, Failed, AcquireStore, bounds
  <2>4. FreshSession'
    BY <1>5, <2>1 DEF FreshSession, SameTask, Failed, AcquireStore, bounds
  <2>5. NamedRestorable'
    BY <1>5, <2>1
       DEF NamedRestorable, SecretsComplete, HasLocalSecrets, Placement, SameTask,
           Failed, AcquireStore, bounds
  <2>6. NobodyToHurt'
    BY <1>5, <2>1
       DEF NobodyToHurt, LogoutCanWipe, Screening, Placement, SameTask, Failed,
           AcquireStore, bounds
  <2>7. SignInOwnsStore'
    BY <1>5, <2>1
       DEF SignInOwnsStore, Opened, Committed, SameTask, Failed, AcquireStore, bounds
  <2>8. RestoreUsesItsOwn'
    BY <1>5, <2>1
       DEF RestoreUsesItsOwn, SecretsComplete, HasLocalSecrets, SameTask, Failed,
           AcquireStore
  <2>9. (~overtaken => SavedSessionRestorable)'
    BY <1>5, <2>1
       DEF SavedSessionRestorable, SecretsComplete, HasLocalSecrets, Screening,
           Placement, AcquireStore, bounds
  <2> QED BY <2>2, <2>3, <2>4, <2>5, <2>6, <2>7, <2>8, <2>9
<1>6. CASE OpenStore
  <2>1. /\ SameTask
        /\ \/ auth'.pc = "sdk" /\ store' = auth.pass
           \/ Failed /\ store' \in {store, auth.pass}
    BY <1>6, GotoKeeps, FailKeeps
       DEF TypeOK, RestorePath, OpenStore, BuildFails, BuildSucceeds, AuthPcs
  <2>2. RestorePath'
    BY <1>6, <2>1 DEF RestorePath, SameTask, Failed, OpenStore
  <2>3. Screening'
    BY <1>6, <2>1
       DEF Screening, LeftOver, Placement, SameTask, Failed, OpenStore, bounds
  <2>4. FreshSession'
    BY <1>6, <2>1 DEF FreshSession, SameTask, Failed, OpenStore, bounds
  <2>5. NamedRestorable'
    BY <1>6, <2>1
       DEF NamedRestorable, SecretsComplete, HasLocalSecrets, Placement, SameTask,
           Failed, OpenStore, bounds
  <2>6. NobodyToHurt'
    BY <1>6, <2>1
       DEF NobodyToHurt, LogoutCanWipe, Screening, Placement, SameTask, Failed,
           OpenStore, bounds
  <2>7. SignInOwnsStore'
    BY <1>6, <2>1
       DEF SignInOwnsStore, Opened, Committed, SameTask, Failed, OpenStore, bounds
  <2>8. RestoreUsesItsOwn'
    BY <1>6, <2>1
       DEF RestoreUsesItsOwn, SecretsComplete, HasLocalSecrets, SameTask, Failed,
           OpenStore
  <2>9. (~overtaken => SavedSessionRestorable)'
    <3>1. CASE ui = "intro"
      BY <1>6, <2>3, <3>1, NamingNobody DEF OpenStore
    <3>2. CASE ui \in {"clearAll", "signingOut"}
      BY <1>6, <2>3, <3>2, NamingNobody DEF OpenStore
    <3>3. CASE ui \in {"main", "forgetLocal", "forgetSettings"}
      BY <1>6, <2>1, <3>3
         DEF SavedSessionRestorable, SecretsComplete, HasLocalSecrets, Placement, OpenStore,
             bounds, RestoreUsesItsOwn
    <3> QED BY <1>6, <3>1, <3>2, <3>3 DEF OpenStore, Placement
  <2> QED BY <2>2, <2>3, <2>4, <2>5, <2>6, <2>7, <2>8, <2>9
<1>7. CASE SdkCall
  <2>1. /\ auth.kind = "restore" => SameTask /\ (auth'.pc = "client" \/ Failed)
        /\ auth.kind # "restore" =>
               (SameTask /\ (auth'.pc = "commit" \/ Failed)) \/ auth' = NoAuth
        /\ challenged' # challenged => auth.kind # "restore"
    BY <1>7, GotoKeeps, FailKeeps
       DEF TypeOK, RestorePath, SdkCall, AuthPcs, Challenge, TypeOK
  <2>2. RestorePath'
    BY <1>7, <2>1, NoTasks DEF RestorePath, SameTask, Failed, SdkCall
  <2>3. Screening'
    BY <1>7, <2>1, NoTasks
       DEF Screening, LeftOver, Placement, SameTask, Failed, SdkCall, bounds
  <2>4. FreshSession'
    BY <1>7, <2>1, NoTasks, NobodyIsKnown
       DEF FreshSession, SameTask, Failed, SdkCall, bounds
  <2>5. NamedRestorable'
    BY <1>7, <2>1, NoTasks
       DEF NamedRestorable, SecretsComplete, HasLocalSecrets, Placement, SameTask,
           Failed, SdkCall, bounds
  <2>6. NobodyToHurt'
    BY <1>7, <2>1, NoTasks
       DEF NobodyToHurt, LogoutCanWipe, Screening, Placement, SameTask, Failed,
           SdkCall, bounds
  <2>7. SignInOwnsStore'
    BY <1>7, <2>1, NoTasks
       DEF SignInOwnsStore, Opened, Committed, SameTask, Failed, SdkCall, bounds
  <2>8. RestoreUsesItsOwn'
    BY <1>7, <2>1, NoTasks
       DEF RestoreUsesItsOwn, SecretsComplete, HasLocalSecrets, SameTask, Failed, SdkCall
  <2>9. (~overtaken => SavedSessionRestorable)'
    BY <1>7, <2>1
       DEF SavedSessionRestorable, SecretsComplete, HasLocalSecrets, Screening,
           Placement, SdkCall, bounds
  <2> QED BY <2>2, <2>3, <2>4, <2>5, <2>6, <2>7, <2>8, <2>9
<1>8. CASE CommitSecrets
  <2>1. /\ SameTask /\ auth.kind # "restore" /\ auth.id \in Ids
        /\ \/ auth'.pc = "caches" /\ secSess'[auth.id] = auth.pass
           \/ Failed /\ UNCHANGED secSess
    BY <1>8, GotoKeeps, FailKeeps
       DEF TypeOK, RestorePath, CommitSecrets, AuthPcs, Placement, CommittedPassphrase,
           secrets
  <2>2. RestorePath'
    BY <1>8, <2>1 DEF RestorePath, SameTask, Failed, CommitSecrets
  <2>3. Screening'
    <3>1. saved # auth.id /\ UNCHANGED <<saved, ghosts, named, ui, logout, challenged,
                                         generation>>
      BY <1>8, <2>1 DEF FreshSession, CommitSecrets, bounds
    <3>2. secSess'[saved] = secSess[saved] \/ saved = None
      BY <1>8, <3>1 DEF CommitSecrets, secrets, TypeOK, MaybeId
    <3> QED BY <3>1, <3>2 DEF Screening, LeftOver
  <2>4. FreshSession'
    BY <1>8, <2>1 DEF FreshSession, SameTask, Failed, CommitSecrets, bounds
  <2>5. NamedRestorable'
    BY <1>8, <2>1
       DEF NamedRestorable, SecretsComplete, HasLocalSecrets, Placement, SameTask,
           Failed, CommitSecrets, bounds
  <2>6. NobodyToHurt'
    BY <1>8, <2>1
       DEF NobodyToHurt, LogoutCanWipe, Screening, Placement, SameTask, Failed,
           CommitSecrets, bounds
  <2>7. SignInOwnsStore'
    BY <1>8, <2>1
       DEF SignInOwnsStore, Opened, Committed, SameTask, Failed, CommitSecrets, bounds
  <2>8. RestoreUsesItsOwn'
    BY <1>8, <2>1
       DEF RestoreUsesItsOwn, SecretsComplete, HasLocalSecrets, SameTask, Failed,
           CommitSecrets
  <2>9. (~overtaken => SavedSessionRestorable)'
    BY <1>8, <2>1, <2>3, NamingNobody
       DEF Placement, CommitSecrets
  <2> QED BY <2>2, <2>3, <2>4, <2>5, <2>6, <2>7, <2>8, <2>9
<1>9. CASE OpenCacheStores
  <2>1. /\ SameTask /\ auth.kind # "restore"
        /\ (auth'.pc = "client" /\ UNCHANGED store) \/ Failed
    BY <1>9, GotoKeeps, FailKeeps DEF TypeOK, RestorePath, OpenCacheStores, AuthPcs
  <2>2. RestorePath'
    BY <1>9, <2>1 DEF RestorePath, SameTask, Failed, OpenCacheStores
  <2>3. Screening'
    BY <1>9, <2>1
       DEF Screening, LeftOver, Placement, SameTask, Failed, OpenCacheStores, bounds
  <2>4. FreshSession'
    BY <1>9, <2>1 DEF FreshSession, SameTask, Failed, OpenCacheStores, bounds
  <2>5. NamedRestorable'
    BY <1>9, <2>1
       DEF NamedRestorable, SecretsComplete, HasLocalSecrets, Placement, SameTask,
           Failed, OpenCacheStores, bounds
  <2>6. NobodyToHurt'
    BY <1>9, <2>1
       DEF NobodyToHurt, LogoutCanWipe, Screening, Placement, SameTask, Failed,
           OpenCacheStores, bounds
  <2>7. SignInOwnsStore'
    BY <1>9, <2>1
       DEF SignInOwnsStore, Opened, Committed, SameTask, Failed, OpenCacheStores, bounds
  <2>8. RestoreUsesItsOwn'
    BY <1>9, <2>1
       DEF RestoreUsesItsOwn, SecretsComplete, HasLocalSecrets, SameTask, Failed,
           OpenCacheStores
  <2>9. (~overtaken => SavedSessionRestorable)'
    BY <1>9, <2>1, <2>3, NamingNobody
       DEF Placement, OpenCacheStores
  <2> QED BY <2>2, <2>3, <2>4, <2>5, <2>6, <2>7, <2>8, <2>9
<1>10. CASE SetClient
  <2>1. SameTask /\ auth'.pc = "report" /\ auth'.ok /\ auth.pc = "client"
    BY <1>10 DEF TypeOK, RestorePath, SetClient, AuthStates, SameTask
  <2>2. RestorePath'
    BY <1>10, <2>1 DEF RestorePath, SameTask, Failed, SetClient
  <2>3. Screening'
    BY <1>10, <2>1
       DEF Screening, LeftOver, Placement, SameTask, Failed, SetClient, bounds
  <2>4. FreshSession'
    BY <1>10, <2>1 DEF FreshSession, SameTask, Failed, SetClient, bounds
  <2>5. NamedRestorable'
    BY <1>10, <2>1
       DEF NamedRestorable, SecretsComplete, HasLocalSecrets, Placement, SameTask,
           Failed, SetClient, bounds
  <2>6. NobodyToHurt'
    BY <1>10, <2>1
       DEF NobodyToHurt, LogoutCanWipe, Screening, Placement, SameTask, Failed,
           SetClient, bounds
  <2>7. SignInOwnsStore'
    BY <1>10, <2>1
       DEF SignInOwnsStore, Opened, Committed, SameTask, Failed, SetClient, bounds
  <2>8. RestoreUsesItsOwn'
    BY <1>10, <2>1
       DEF RestoreUsesItsOwn, SecretsComplete, HasLocalSecrets, SameTask, Failed,
           SetClient
  <2>9. (~overtaken => SavedSessionRestorable)'
    BY <1>10, <2>1
       DEF SavedSessionRestorable, SecretsComplete, HasLocalSecrets, Screening,
           Placement, SetClient, bounds
  <2> QED BY <2>2, <2>3, <2>4, <2>5, <2>6, <2>7, <2>8, <2>9
<1> QED BY <1>1, <1>2, <1>3, <1>4, <1>5, <1>6, <1>7, <1>8, <1>9, <1>10 DEF AuthStep

LEMMA LogoutStepKeepsSafeInv == ASSUME TypeInv, SafeInv, LogoutStep PROVE SafeInv'
<1> USE DEF TypeInv, SafeInv
<1>1. CASE TakeClient
  <2>1. logout.pc = "take" /\ logout'.pc = "check" /\ logout'.gen = logout.gen
    BY <1>1 DEF TypeOK, RestorePath, TakeClient, LogoutStates
  <2>2. RestorePath'
    BY <1>1, <2>1 DEF RestorePath, TakeClient
  <2>3. Screening'
    BY <1>1, <2>1 DEF Screening, LeftOver, Placement, TakeClient, bounds
  <2>4. FreshSession'
    BY <1>1, <2>1, NobodyIsKnown DEF FreshSession, TakeClient, bounds
  <2>5. NamedRestorable'
    BY <1>1, <2>1
       DEF NamedRestorable, SecretsComplete, HasLocalSecrets, Placement, TakeClient,
           bounds
  <2>6. NobodyToHurt'
    BY <1>1, <2>1
       DEF NobodyToHurt, LogoutCanWipe, Screening, Placement, TakeClient, bounds,
           LogoutTail
  <2>7. SignInOwnsStore'
    BY <1>1, <2>1 DEF SignInOwnsStore, Opened, Committed, TakeClient, bounds
  <2>8. RestoreUsesItsOwn'
    BY <1>1, <2>1 DEF RestoreUsesItsOwn, SecretsComplete, HasLocalSecrets, TakeClient
  <2>9. (~overtaken => SavedSessionRestorable)'
    BY <1>1, <2>1
       DEF SavedSessionRestorable, SecretsComplete, HasLocalSecrets, Screening,
           Placement, TakeClient, bounds
  <2> QED BY <2>2, <2>3, <2>4, <2>5, <2>6, <2>7, <2>8, <2>9
<1>2. CASE CheckGeneration
  <2>1. /\ logout.pc = "check" /\ logout'.gen = logout.gen
        /\ logout'.pc = "done" \/ (logout'.pc = "close" /\ generation = logout.gen)
    BY <1>2, LogoutGotoKeeps
       DEF TypeOK, RestorePath, CheckGeneration, LogoutStates, LogoutPcs, NewerSignIn
  <2>2. RestorePath'
    BY <1>2, <2>1 DEF RestorePath, CheckGeneration
  <2>3. Screening'
    BY <1>2, <2>1 DEF Screening, LeftOver, Placement, CheckGeneration, bounds
  <2>4. FreshSession'
    BY <1>2, <2>1 DEF FreshSession, CheckGeneration, bounds
  <2>5. NamedRestorable'
    BY <1>2, <2>1
       DEF NamedRestorable, SecretsComplete, HasLocalSecrets, Placement,
           CheckGeneration, bounds
  <2>6. NobodyToHurt'
    BY <1>2, <2>1
       DEF NobodyToHurt, LogoutCanWipe, Screening, Placement, CheckGeneration, bounds,
           LogoutTail
  <2>7. SignInOwnsStore'
    BY <1>2, <2>1 DEF SignInOwnsStore, Opened, Committed, CheckGeneration, bounds
  <2>8. RestoreUsesItsOwn'
    BY <1>2, <2>1
       DEF RestoreUsesItsOwn, SecretsComplete, HasLocalSecrets, CheckGeneration
  <2>9. (~overtaken => SavedSessionRestorable)'
    BY <1>2, <2>1
       DEF SavedSessionRestorable, SecretsComplete, HasLocalSecrets, Screening,
           Placement, CheckGeneration, bounds
  <2> QED BY <2>2, <2>3, <2>4, <2>5, <2>6, <2>7, <2>8, <2>9
<1>3. CASE CloseHandles
  <2>1. logout.pc = "close" /\ logout'.pc = "acquire" /\ logout'.gen = logout.gen
    BY <1>3, LogoutGotoKeeps DEF TypeOK, RestorePath, CloseHandles, LogoutPcs
  <2>2. RestorePath'
    BY <1>3, <2>1 DEF RestorePath, CloseHandles
  <2>3. Screening'
    BY <1>3, <2>1 DEF Screening, LeftOver, Placement, CloseHandles, bounds
  <2>4. FreshSession'
    BY <1>3, <2>1 DEF FreshSession, CloseHandles, bounds
  <2>5. NamedRestorable'
    BY <1>3, <2>1
       DEF NamedRestorable, SecretsComplete, HasLocalSecrets, Placement, CloseHandles,
           bounds
  <2>6. NobodyToHurt'
    BY <1>3, <2>1
       DEF NobodyToHurt, LogoutCanWipe, Screening, Placement, CloseHandles, bounds,
           LogoutTail
  <2>7. SignInOwnsStore'
    BY <1>3, <2>1 DEF SignInOwnsStore, Opened, Committed, CloseHandles, bounds
  <2>8. RestoreUsesItsOwn'
    BY <1>3, <2>1 DEF RestoreUsesItsOwn, SecretsComplete, HasLocalSecrets, CloseHandles
  <2>9. (~overtaken => SavedSessionRestorable)'
    BY <1>3, <2>1
       DEF SavedSessionRestorable, SecretsComplete, HasLocalSecrets, Screening,
           Placement, CloseHandles, bounds
  <2> QED BY <2>2, <2>3, <2>4, <2>5, <2>6, <2>7, <2>8, <2>9
<1>4. CASE AcquireMove
  <2>1. logout.pc = "acquire" /\ logout'.pc = "moveStore" /\ logout'.gen = logout.gen
    BY <1>4, LogoutGotoKeeps DEF TypeOK, RestorePath, AcquireMove, LogoutPcs
  <2>2. RestorePath'
    BY <1>4, <2>1 DEF RestorePath, AcquireMove
  <2>3. Screening'
    BY <1>4, <2>1 DEF Screening, LeftOver, Placement, AcquireMove, bounds
  <2>4. FreshSession'
    BY <1>4, <2>1 DEF FreshSession, AcquireMove, bounds
  <2>5. NamedRestorable'
    BY <1>4, <2>1
       DEF NamedRestorable, SecretsComplete, HasLocalSecrets, Placement, AcquireMove,
           bounds
  <2>6. NobodyToHurt'
    BY <1>4, <2>1
       DEF NobodyToHurt, LogoutCanWipe, Screening, Placement, AcquireMove, bounds,
           LogoutTail
  <2>7. SignInOwnsStore'
    BY <1>4, <2>1 DEF SignInOwnsStore, Opened, Committed, AcquireMove, bounds
  <2>8. RestoreUsesItsOwn'
    BY <1>4, <2>1 DEF RestoreUsesItsOwn, SecretsComplete, HasLocalSecrets, AcquireMove
  <2>9. (~overtaken => SavedSessionRestorable)'
    BY <1>4, <2>1
       DEF SavedSessionRestorable, SecretsComplete, HasLocalSecrets, Screening,
           Placement, AcquireMove, bounds
  <2> QED BY <2>2, <2>3, <2>4, <2>5, <2>6, <2>7, <2>8, <2>9
<1>5. CASE MoveStore
  <2>1. logout.pc = "moveStore" /\ logout'.pc = "moveCaches" /\ logout'.gen = logout.gen
    BY <1>5, LogoutGotoKeeps DEF TypeOK, RestorePath, MoveStore, LogoutPcs
  <2>2. RestorePath'
    BY <1>5, <2>1 DEF RestorePath, MoveStore
  <2>3. Screening'
    BY <1>5, <2>1 DEF Screening, LeftOver, Placement, MoveStore, bounds
  <2>4. FreshSession'
    BY <1>5, <2>1 DEF FreshSession, MoveStore, bounds
  <2>5. NamedRestorable'
    BY <1>5, <2>1
       DEF NamedRestorable, NobodyToHurt, LogoutCanWipe, LogoutTail, MoveStore, bounds
  <2>6. NobodyToHurt'
    BY <1>5, <2>1
       DEF NobodyToHurt, LogoutCanWipe, Screening, Placement, MoveStore, bounds,
           LogoutTail
  <2>7. SignInOwnsStore'
    BY <1>5, <2>1
       DEF SignInOwnsStore, Opened, Committed, MoveStore, bounds, NobodyToHurt,
           LogoutCanWipe, LogoutTail
  <2>8. RestoreUsesItsOwn'
    BY <1>5, <2>1 DEF RestoreUsesItsOwn, SecretsComplete, HasLocalSecrets, MoveStore
  <2>9. (~overtaken => SavedSessionRestorable)'
    BY <1>5, <2>1, <2>3, NamingNobody
       DEF NobodyToHurt, LogoutCanWipe, LogoutTail, MoveStore, bounds
  <2> QED BY <2>2, <2>3, <2>4, <2>5, <2>6, <2>7, <2>8, <2>9
<1>6. CASE MoveCachesAndGate
  <2>1. logout.pc = "moveCaches" /\ logout'.pc = "scrub" /\ logout'.gen = logout.gen
    BY <1>6 DEF TypeOK, RestorePath, MoveCachesAndGate, StoreGate, LogoutStates
  <2>2. RestorePath'
    BY <1>6, <2>1 DEF RestorePath, MoveCachesAndGate
  <2>3. Screening'
    BY <1>6, <2>1 DEF Screening, LeftOver, Placement, MoveCachesAndGate, bounds
  <2>4. FreshSession'
    BY <1>6, <2>1 DEF FreshSession, MoveCachesAndGate, bounds
  <2>5. NamedRestorable'
    BY <1>6, <2>1
       DEF NamedRestorable, NobodyToHurt, LogoutCanWipe, LogoutTail, MoveCachesAndGate, bounds
  <2>6. NobodyToHurt'
    BY <1>6, <2>1
       DEF NobodyToHurt, LogoutCanWipe, Screening, Placement, MoveCachesAndGate,
           bounds, LogoutTail
  <2>7. SignInOwnsStore'
    BY <1>6, <2>1
       DEF SignInOwnsStore, Opened, Committed, MoveCachesAndGate, bounds, NobodyToHurt,
           LogoutCanWipe, LogoutTail
  <2>8. RestoreUsesItsOwn'
    BY <1>6, <2>1
       DEF RestoreUsesItsOwn, SecretsComplete, HasLocalSecrets, MoveCachesAndGate
  <2>9. (~overtaken => SavedSessionRestorable)'
    BY <1>6, <2>1, <2>3, NamingNobody
       DEF NobodyToHurt, LogoutCanWipe, LogoutTail, MoveCachesAndGate, bounds
  <2> QED BY <2>2, <2>3, <2>4, <2>5, <2>6, <2>7, <2>8, <2>9
<1>7. CASE ScrubSecrets
  <2>1. /\ logout.pc = "scrub" /\ logout'.pc = "done" /\ logout'.gen = logout.gen
        /\ secSess' = secSess \/ secSess' = Forgotten(logout.victim)
        /\ secLocal' \in {None, secLocal}
    BY <1>7, LogoutGotoKeeps
       DEF TypeOK, RestorePath, ScrubSecrets, LogoutStates, LogoutPcs, ScrubFails,
           secrets
  <2>2. RestorePath'
    BY <1>7, <2>1 DEF RestorePath, Forgotten, ScrubSecrets
  <2>3. Screening'
    <3>1. SecretsShrink
      BY <2>1, ForgetShrinks
    <3>2. LeftOver => LeftOver'
      BY <1>7, <2>1, <3>1, ShrinkKeeps DEF ScrubSecrets, bounds
    <3> QED BY <1>7, <2>1, <3>2 DEF Screening, ScrubSecrets, TypeOK, LogoutStates
  <2>4. FreshSession'
    BY <1>7, <2>1 DEF FreshSession, Forgotten, ScrubSecrets, bounds
  <2>5. NamedRestorable'
    BY <1>7, <2>1
       DEF NamedRestorable, NobodyToHurt, LogoutCanWipe, LogoutTail, ScrubSecrets, bounds
  <2>6. NobodyToHurt'
    BY <1>7, <2>1
       DEF NobodyToHurt, LogoutCanWipe, Screening, Placement, Forgotten, ScrubSecrets,
           bounds, LogoutTail
  <2>7. SignInOwnsStore'
    BY <1>7, <2>1
       DEF SignInOwnsStore, Opened, Committed, Forgotten, ScrubSecrets, bounds,
           NobodyToHurt, LogoutCanWipe, LogoutTail
  <2>8. RestoreUsesItsOwn'
    BY <1>7, <2>1, ForgetShrinks, ShrinkKeeps DEF ScrubSecrets, bounds
  <2>9. (~overtaken => SavedSessionRestorable)'
    BY <1>7, <2>1, ForgetShrinks, ShrinkKeeps DEF ScrubSecrets, bounds
  <2> QED BY <2>2, <2>3, <2>4, <2>5, <2>6, <2>7, <2>8, <2>9
<1> QED BY <1>1, <1>2, <1>3, <1>4, <1>5, <1>6, <1>7 DEF LogoutStep

LEMMA FinishSignOutKeepsSafeInv == ASSUME TypeInv, SafeInv, FinishSignOut PROVE SafeInv'
<1> USE DEF TypeInv, SafeInv
<1>1. RestorePath'
  BY NoTasks DEF RestorePath, NewHandle, FinishSignOut
<1>2. Screening'
  BY NoTasks DEF Screening, LeftOver, Placement, NewHandle, FinishSignOut, bounds
<1>3. FreshSession'
  BY NoTasks, NobodyIsKnown DEF FreshSession, NewHandle, FinishSignOut, bounds
<1>4. NamedRestorable'
  BY NoTasks
     DEF NamedRestorable, SecretsComplete, HasLocalSecrets, Placement, NewHandle,
         FinishSignOut, bounds
<1>5. NobodyToHurt'
  BY NoTasks
     DEF NobodyToHurt, LogoutCanWipe, Screening, Placement, NewHandle, FinishSignOut,
         bounds, LogoutTail
<1>6. SignInOwnsStore'
  BY NoTasks DEF SignInOwnsStore, Opened, Committed, NewHandle, FinishSignOut, bounds
<1>7. RestoreUsesItsOwn'
  BY NoTasks
     DEF RestoreUsesItsOwn, SecretsComplete, HasLocalSecrets, NewHandle, FinishSignOut
<1>8. (~overtaken => SavedSessionRestorable)'
  BY NoTasks
     DEF SavedSessionRestorable, SecretsComplete, HasLocalSecrets, Screening,
         Placement, NewHandle, FinishSignOut, bounds
<1> QED BY <1>1, <1>2, <1>3, <1>4, <1>5, <1>6, <1>7, <1>8

LEMMA MainStepKeepsSafeInv == ASSUME TypeInv, SafeInv, MainStep PROVE SafeInv'
<1> USE DEF TypeInv, SafeInv
<1>1. CASE ReportSignIn
  <2>1. RestorePath'
    BY <1>1, NoTasks DEF RestorePath, PersistSession, secrets, ReportSignIn
  <2>2. Screening'
    <3>1. CASE ~auth.ok
      BY <1>1, <3>1, NoTasks DEF Screening, LeftOver, Placement, ReportSignIn
    <3>2. CASE auth.ok
      <4>1. SecretsShrink
        BY <1>1, <3>2, ForgetShrinks DEF ReportSignIn, PersistSession, secrets
      <4>2. saved' = named' \/ LeftOver'
        BY <1>1, <3>2, <4>1, WriteFollows DEF ReportSignIn, PersistSession
      <4> QED BY <1>1, <3>2, <4>2 DEF Screening, ReportSignIn
    <3> QED BY <3>1, <3>2
  <2>3. FreshSession'
    <3>1. {saved', named'} \subseteq {saved, named, client, None}
      BY <1>1 DEF ReportSignIn, PersistSession, WriteSettings
    <3> QED
      BY <1>1, <3>1, NoTasks, NobodyIsKnown DEF FreshSession, ReportSignIn
  <2>4. NamedRestorable'
    <3>1. CASE ~auth.ok
      BY <1>1, <3>1 DEF NamedRestorable, ReportSignIn, Placement
    <3>2. CASE auth.ok /\ named' # None
      <4>1. named' = client /\ client # None /\ UNCHANGED secSess
        BY <1>1, <3>2 DEF ReportSignIn, PersistSession, WriteSettings, secrets
      <4> QED
        BY <1>1, <3>2, <4>1
           DEF NamedRestorable, ReportSignIn, SignInOwnsStore, Opened, Committed
    <3> QED BY <3>1, <3>2 DEF NamedRestorable
  <2>5. NobodyToHurt'
    BY <1>1, NoTasks
       DEF NobodyToHurt, LogoutCanWipe, Screening, Placement, PersistSession, secrets,
           ReportSignIn, bounds
  <2>6. SignInOwnsStore'
    BY <1>1, NoTasks
       DEF SignInOwnsStore, Opened, Committed, PersistSession, secrets, ReportSignIn,
           bounds
  <2>7. RestoreUsesItsOwn'
    BY <1>1, NoTasks
       DEF RestoreUsesItsOwn, SecretsComplete, HasLocalSecrets, PersistSession, secrets,
           ReportSignIn
  <2>8. (~overtaken => SavedSessionRestorable)'
    <3>1. CASE ~auth.ok
      BY <1>1, <2>2, <3>1, NamingNobody DEF ReportSignIn, Placement
    <3>2. CASE auth.ok /\ LeftOver'
      BY <3>2 DEF LeftOver, SavedSessionRestorable, SecretsComplete
    <3>3. CASE auth.ok /\ ~LeftOver'
      <4>1. saved' = named' /\ saved' # None
        BY <1>1, <2>2, <3>3 DEF Screening, LeftOver, ReportSignIn
      <4>2. client # None /\ saved' = client /\ UNCHANGED secSess
        BY <1>1, <3>3, <4>1 DEF ReportSignIn, PersistSession, WriteSettings, secrets
      <4> QED
        BY <1>1, <3>3, <4>2
           DEF SavedSessionRestorable, ReportSignIn, SignInOwnsStore, Opened, Committed
    <3> QED BY <3>1, <3>2, <3>3
  <2> QED BY <2>1, <2>2, <2>3, <2>4, <2>5, <2>6, <2>7, <2>8
<1>2. CASE ReportRestore
  <2>1. RestorePath'
    BY <1>2, NoTasks DEF RestorePath, ReportRestore
  <2>2. Screening'
    BY <1>2, NoTasks DEF Screening, LeftOver, Placement, ReportRestore, bounds
  <2>3. FreshSession'
    BY <1>2, NoTasks, NobodyIsKnown DEF FreshSession, ReportRestore, bounds
  <2>4. NamedRestorable'
    BY <1>2, NoTasks
       DEF NamedRestorable, SecretsComplete, HasLocalSecrets, Placement, ReportRestore,
           bounds
  <2>5. NobodyToHurt'
    BY <1>2, NoTasks
       DEF NobodyToHurt, LogoutCanWipe, Screening, Placement, ReportRestore, bounds
  <2>6. SignInOwnsStore'
    BY <1>2, NoTasks DEF SignInOwnsStore, Opened, Committed, ReportRestore, bounds
  <2>7. RestoreUsesItsOwn'
    BY <1>2, NoTasks
       DEF RestoreUsesItsOwn, SecretsComplete, HasLocalSecrets, ReportRestore
  <2>8. (~overtaken => SavedSessionRestorable)'
    BY <1>2, NoTasks
       DEF SavedSessionRestorable, SecretsComplete, HasLocalSecrets, Screening,
           Placement, ReportRestore, bounds
  <2> QED BY <2>1, <2>2, <2>3, <2>4, <2>5, <2>6, <2>7, <2>8
<1>3. CASE DropSettings
  <2>1. RestorePath'
    BY <1>3 DEF RestorePath, NewHandle, StartCleanup, DropSettings
  <2>2. Screening'
    <3>1. SecretsShrink
      BY <1>3, ForgetShrinks DEF DropSettings
    <3>2. named' = None /\ (saved' = named' \/ LeftOver')
      BY <1>3, <3>1, WriteFollows DEF DropSettings
    <3> QED
      BY <1>3, <3>2, NoTasks
         DEF Screening, Placement, DropSettings, StartCleanup, NewHandle
  <2>3. FreshSession'
    BY <1>3, NobodyIsKnown
       DEF FreshSession, Placement, WriteSettings, DropSettings, StartCleanup, NewHandle
  <2>4. NamedRestorable'
    BY <1>3
       DEF NamedRestorable, SecretsComplete, HasLocalSecrets, Placement, NewHandle,
           StartCleanup, DropSettings, bounds
  <2>5. NobodyToHurt'
    BY <1>3
       DEF NobodyToHurt, LogoutCanWipe, Screening, Placement, NewHandle, StartCleanup,
           DropSettings, bounds
  <2>6. SignInOwnsStore'
    BY <1>3
       DEF SignInOwnsStore, Opened, Committed, NewHandle, StartCleanup, DropSettings,
           bounds
  <2>7. RestoreUsesItsOwn'
    BY <1>3
       DEF RestoreUsesItsOwn, SecretsComplete, HasLocalSecrets, NewHandle, StartCleanup,
           DropSettings
  <2>8. (~overtaken => SavedSessionRestorable)'
    BY <1>3, <2>2, NamingNobody DEF DropSettings, StartCleanup, NewHandle
  <2> QED BY <2>1, <2>2, <2>3, <2>4, <2>5, <2>6, <2>7, <2>8
<1>4. CASE ForgetLocal
  <2>1. RestorePath'
    BY <1>4 DEF RestorePath, ForgetLocal
  <2>2. Screening'
    BY <1>4 DEF Screening, LeftOver, Placement, ForgetLocal, bounds
  <2>3. FreshSession'
    BY <1>4 DEF FreshSession, ForgetLocal, bounds
  <2>4. NamedRestorable'
    BY <1>4
       DEF NamedRestorable, SecretsComplete, HasLocalSecrets, Placement, ForgetLocal,
           bounds
  <2>5. NobodyToHurt'
    BY <1>4 DEF NobodyToHurt, LogoutCanWipe, Screening, Placement, ForgetLocal, bounds
  <2>6. SignInOwnsStore'
    BY <1>4 DEF SignInOwnsStore, Opened, Committed, ForgetLocal, bounds
  <2>7. RestoreUsesItsOwn'
    BY <1>4 DEF RestoreUsesItsOwn, SecretsComplete, HasLocalSecrets, ForgetLocal
  <2>8. (~overtaken => SavedSessionRestorable)'
    BY <1>4, ForgetShrinks, ShrinkKeeps DEF ForgetLocal, ForgetLocalSecrets, bounds
  <2> QED BY <2>1, <2>2, <2>3, <2>4, <2>5, <2>6, <2>7, <2>8
<1>5. CASE ForgetSettings
  <2>1. RestorePath'
    BY <1>5 DEF RestorePath, ForgetSettings
  <2>2. Screening'
    <3>1. SecretsShrink
      BY <1>5, ForgetShrinks DEF ForgetSettings
    <3>2. named' = None /\ (saved' = named' \/ LeftOver')
      BY <1>5, <3>1, WriteFollows DEF ForgetSettings
    <3> QED BY <1>5, <3>2, NoTasks DEF Screening, Placement, ForgetSettings
  <2>3. FreshSession'
    BY <1>5, NobodyIsKnown
       DEF FreshSession, Placement, WriteSettings, ForgetSettings
  <2>4. NamedRestorable'
    BY <1>5
       DEF NamedRestorable, SecretsComplete, HasLocalSecrets, Placement,
           ForgetSettings, bounds
  <2>5. NobodyToHurt'
    BY <1>5
       DEF NobodyToHurt, LogoutCanWipe, Screening, Placement, ForgetSettings, bounds
  <2>6. SignInOwnsStore'
    BY <1>5 DEF SignInOwnsStore, Opened, Committed, ForgetSettings, bounds
  <2>7. RestoreUsesItsOwn'
    BY <1>5 DEF RestoreUsesItsOwn, SecretsComplete, HasLocalSecrets, ForgetSettings
  <2>8. (~overtaken => SavedSessionRestorable)'
    BY <1>5, <2>2, NamingNobody DEF ForgetSettings
  <2> QED BY <2>1, <2>2, <2>3, <2>4, <2>5, <2>6, <2>7, <2>8
<1>6. CASE ClearAllAndLogout
  <2>1. RestorePath'
    BY <1>6 DEF RestorePath, NewLogout, NoSecrets, ClearAllAndLogout
  <2>2. Screening'
    <3>1. LeftOver => LeftOver'
      BY <1>6, ForgetShrinks, ShrinkKeeps DEF ClearAllAndLogout, secrets, bounds
    <3> QED BY <1>6, <3>1 DEF Screening, ClearAllAndLogout, NewLogout, TypeOK
  <2>3. FreshSession'
    BY <1>6 DEF FreshSession, NewLogout, NoSecrets, ClearAllAndLogout, bounds
  <2>4. NamedRestorable'
    BY <1>6
       DEF NamedRestorable, SecretsComplete, HasLocalSecrets, Placement, NewLogout,
           NoSecrets, ClearAllAndLogout, bounds
  <2>5. NobodyToHurt'
    BY <1>6
       DEF NobodyToHurt, LogoutCanWipe, Screening, Placement, NewLogout, NoSecrets,
           ClearAllAndLogout, bounds
  <2>6. SignInOwnsStore'
    BY <1>6
       DEF SignInOwnsStore, Opened, Committed, NewLogout, NoSecrets, ClearAllAndLogout,
           bounds, Placement
  <2>7. RestoreUsesItsOwn'
    BY <1>6, ForgetShrinks, ShrinkKeeps DEF ClearAllAndLogout, secrets, bounds
  <2>8. (~overtaken => SavedSessionRestorable)'
    BY <1>6, ForgetShrinks, ShrinkKeeps DEF ClearAllAndLogout, secrets, bounds
  <2> QED BY <2>1, <2>2, <2>3, <2>4, <2>5, <2>6, <2>7, <2>8
<1>7. CASE GiveUpSettings
  <2>1. RestorePath'
    BY <1>7 DEF RestorePath, GiveUpSettings
  <2>2. Screening'
    <3>1. SecretsShrink
      BY <1>7, ForgetShrinks DEF GiveUpSettings
    <3>2. named' = None /\ (saved' = named' \/ LeftOver')
      BY <1>7, <3>1, WriteFollows DEF GiveUpSettings
    <3> QED BY <1>7, <3>2, NoTasks DEF Screening, Placement, GiveUpSettings
  <2>3. FreshSession'
    BY <1>7, NobodyIsKnown
       DEF FreshSession, Placement, WriteSettings, GiveUpSettings
  <2>4. NamedRestorable'
    BY <1>7
       DEF NamedRestorable, SecretsComplete, HasLocalSecrets, Placement,
           GiveUpSettings, bounds
  <2>5. NobodyToHurt'
    BY <1>7
       DEF NobodyToHurt, LogoutCanWipe, Screening, Placement, GiveUpSettings, bounds
  <2>6. SignInOwnsStore'
    BY <1>7 DEF SignInOwnsStore, Opened, Committed, GiveUpSettings, bounds
  <2>7. RestoreUsesItsOwn'
    BY <1>7 DEF RestoreUsesItsOwn, SecretsComplete, HasLocalSecrets, GiveUpSettings
  <2>8. (~overtaken => SavedSessionRestorable)'
    BY <1>7, <2>2, NamingNobody DEF GiveUpSettings
  <2> QED BY <2>1, <2>2, <2>3, <2>4, <2>5, <2>6, <2>7, <2>8
<1>8. CASE FinishSignOut
  BY <1>8, FinishSignOutKeepsSafeInv
<1>9. CASE FinishCleanup
  <2>1. RestorePath'
    BY <1>9, NoTasks DEF RestorePath, FinishCleanup
  <2>2. Screening'
    BY <1>9, NoTasks DEF Screening, LeftOver, Placement, FinishCleanup, bounds
  <2>3. FreshSession'
    BY <1>9, NoTasks DEF FreshSession, FinishCleanup, bounds
  <2>4. NamedRestorable'
    BY <1>9, NoTasks
       DEF NamedRestorable, SecretsComplete, HasLocalSecrets, Placement, FinishCleanup,
           bounds
  <2>5. NobodyToHurt'
    BY <1>9, NoTasks
       DEF NobodyToHurt, LogoutCanWipe, Screening, Placement, FinishCleanup, bounds,
           LogoutTail
  <2>6. SignInOwnsStore'
    BY <1>9, NoTasks DEF SignInOwnsStore, Opened, Committed, FinishCleanup, bounds
  <2>7. RestoreUsesItsOwn'
    BY <1>9, NoTasks
       DEF RestoreUsesItsOwn, SecretsComplete, HasLocalSecrets, FinishCleanup
  <2>8. (~overtaken => SavedSessionRestorable)'
    BY <1>9, NoTasks
       DEF SavedSessionRestorable, SecretsComplete, HasLocalSecrets, Screening,
           Placement, FinishCleanup, bounds
  <2> QED BY <2>1, <2>2, <2>3, <2>4, <2>5, <2>6, <2>7, <2>8
<1> QED BY <1>1, <1>2, <1>3, <1>4, <1>5, <1>6, <1>7, <1>8, <1>9 DEF MainStep

LEMMA UserStepKeepsSafeInv == ASSUME TypeInv, SafeInv, UserStep PROVE SafeInv'
<1> USE DEF TypeInv, SafeInv
<1>1. ASSUME NEW kind \in {"login", "register"}, BeginSignIn(kind) PROVE SafeInv'
  <2>1. /\ logout'.pc = logout.pc /\ logout'.gen = logout.gen
        /\ auth'.kind = kind /\ auth'.pc = "wipe" /\ overtaken' = (logout.pc \in LogoutTail)
    BY <1>1 DEF TypeOK, RestorePath, BeginSignIn, Overlap, NewAuth, LogoutStates
  <2>2. RestorePath'
    BY <1>1, <2>1 DEF RestorePath, Overlap, NewAuth, BeginSignIn
  <2>3. Screening'
    BY <1>1, <2>1
       DEF Screening, LeftOver, Placement, Overlap, NewAuth, BeginSignIn, LogoutStates,
           TypeOK, bounds
  <2>4. FreshSession'
    <3>1. /\ attempts \in Nat /\ attempts' = attempts + 1 /\ auth'.id = attempts + 1
          /\ UNCHANGED <<saved, named, client>>
      BY <1>1 DEF BeginSignIn, NewAuth, TypeOK
    <3> QED BY <3>1 DEF FreshSession
  <2>5. NamedRestorable'
    BY <1>1, <2>1
       DEF NamedRestorable, SecretsComplete, HasLocalSecrets, Placement, Overlap,
           NewAuth, BeginSignIn, bounds
  <2>6. NobodyToHurt'
    <3>1. CASE logout.pc \in LogoutTail
      BY <2>1, <3>1 DEF NobodyToHurt
    <3>2. CASE logout.pc \notin LogoutTail
      <4>1. generation' = generation + 1 /\ generation \in Nat /\ logout.gen \in Nat
        BY <1>1 DEF BeginSignIn, TypeOK, LogoutStates
      <4>2. logout.pc # "idle" => logout.gen <= generation
        BY DEF Screening
      <4>3. logout.pc \in {"take", "check"} => generation' # logout'.gen
        BY <2>1, <4>1, <4>2
      <4> QED BY <2>1, <3>2, <4>3 DEF NobodyToHurt, LogoutCanWipe
    <3> QED BY <3>1, <3>2
  <2>7. SignInOwnsStore'
    BY <1>1, <2>1
       DEF SignInOwnsStore, Opened, Committed, Overlap, NewAuth, BeginSignIn, bounds
  <2>8. RestoreUsesItsOwn'
    BY <1>1, <2>1
       DEF RestoreUsesItsOwn, SecretsComplete, HasLocalSecrets, Overlap, NewAuth,
           BeginSignIn
  <2>9. (~overtaken => SavedSessionRestorable)'
    BY <1>1, <2>1, <2>3, NamingNobody DEF BeginSignIn
  <2> QED BY <2>2, <2>3, <2>4, <2>5, <2>6, <2>7, <2>8, <2>9
<1>2. CASE BeginSubmit
  <2>1. /\ logout'.pc = logout.pc /\ logout'.gen = logout.gen
        /\ auth'.kind = "submit" /\ auth'.pc = "pass"
        /\ overtaken' = (overtaken \/ logout.pc \in LogoutTail)
    BY <1>2 DEF TypeOK, RestorePath, BeginSubmit, NewAuth, LogoutStates
  <2>2. RestorePath'
    BY <1>2, <2>1 DEF RestorePath, NewAuth, BeginSubmit
  <2>3. Screening'
    BY <1>2, <2>1 DEF Screening, LeftOver, Placement, NewAuth, BeginSubmit, bounds
  <2>4. FreshSession'
    <3>1. /\ attempts \in Nat /\ attempts' = attempts + 1 /\ auth'.id = attempts + 1
          /\ UNCHANGED <<saved, named, client>>
      BY <1>2 DEF BeginSubmit, NewAuth, TypeOK
    <3> QED BY <3>1 DEF FreshSession
  <2>5. NamedRestorable'
    BY <1>2, <2>1
       DEF NamedRestorable, SecretsComplete, HasLocalSecrets, Placement, NewAuth,
           BeginSubmit, bounds
  <2>6. NobodyToHurt'
    BY <1>2, <2>1
       DEF NobodyToHurt, LogoutCanWipe, Screening, Placement, NewAuth, BeginSubmit,
           bounds
  <2>7. SignInOwnsStore'
    BY <1>2, <2>1 DEF SignInOwnsStore, Opened, Committed, NewAuth, BeginSubmit, bounds
  <2>8. RestoreUsesItsOwn'
    BY <1>2, <2>1
       DEF RestoreUsesItsOwn, SecretsComplete, HasLocalSecrets, NewAuth, BeginSubmit
  <2>9. (~overtaken => SavedSessionRestorable)'
    BY <1>2, <2>1
       DEF SavedSessionRestorable, SecretsComplete, HasLocalSecrets, Screening,
           Placement, NewAuth, BeginSubmit, bounds
  <2> QED BY <2>2, <2>3, <2>4, <2>5, <2>6, <2>7, <2>8, <2>9
<1>3. CASE SignOut
  <2>1. RestorePath'
    BY <1>3 DEF RestorePath, Forgotten, SignOut
  <2>2. Screening'
    <3>1. LeftOver => LeftOver'
      BY <1>3, ForgetShrinks, ShrinkKeeps DEF SignOut, bounds
    <3> QED BY <1>3, <3>1 DEF Screening, SignOut
  <2>3. FreshSession'
    BY <1>3 DEF FreshSession, Forgotten, SignOut, MaybeId, bounds
  <2>4. NamedRestorable'
    BY <1>3
       DEF NamedRestorable, SecretsComplete, HasLocalSecrets, Placement, Forgotten,
           SignOut, bounds
  <2>5. NobodyToHurt'
    BY <1>3
       DEF NobodyToHurt, LogoutCanWipe, Screening, Placement, Forgotten, SignOut,
           bounds, LogoutTail
  <2>6. SignInOwnsStore'
    BY <1>3
       DEF SignInOwnsStore, Opened, Committed, Forgotten, SignOut, bounds, Placement
  <2>7. RestoreUsesItsOwn'
    BY <1>3, ForgetShrinks, ShrinkKeeps DEF SignOut, bounds
  <2>8. (~overtaken => SavedSessionRestorable)'
    BY <1>3, ForgetShrinks, ShrinkKeeps DEF SignOut, bounds
  <2> QED BY <2>1, <2>2, <2>3, <2>4, <2>5, <2>6, <2>7, <2>8
<1>4. CASE RetryRestore
  <2>1. RestorePath'
    BY <1>4 DEF RestorePath, BeginRestore, NewAuth, RetryRestore
  <2>2. Screening'
    BY <1>4
       DEF Screening, LeftOver, Placement, BeginRestore, NewAuth, RetryRestore,
           LogoutStates, TypeOK, bounds
  <2>3. FreshSession'
    BY <1>4 DEF FreshSession, BeginRestore, NewAuth, RetryRestore, LogoutStates, bounds
  <2>4. NamedRestorable'
    BY <1>4
       DEF NamedRestorable, SecretsComplete, HasLocalSecrets, Placement, BeginRestore,
           NewAuth, RetryRestore, bounds
  <2>5. NobodyToHurt'
    BY <1>4
       DEF NobodyToHurt, LogoutCanWipe, Screening, Placement, BeginRestore, NewAuth,
           RetryRestore, bounds, TypeOK, LogoutStates
  <2>6. SignInOwnsStore'
    BY <1>4
       DEF SignInOwnsStore, Opened, Committed, BeginRestore, NewAuth, RetryRestore,
           bounds
  <2>7. RestoreUsesItsOwn'
    BY <1>4
       DEF RestoreUsesItsOwn, SecretsComplete, HasLocalSecrets, BeginRestore, NewAuth,
           RetryRestore
  <2>8. (~overtaken => SavedSessionRestorable)'
    BY <1>4
       DEF SavedSessionRestorable, SecretsComplete, HasLocalSecrets, Screening,
           Placement, BeginRestore, NewAuth, RetryRestore, bounds
  <2> QED BY <2>1, <2>2, <2>3, <2>4, <2>5, <2>6, <2>7, <2>8
<1>5. CASE GiveUpRestore
  <2>1. RestorePath'
    BY <1>5 DEF RestorePath, Forgotten, GiveUpRestore
  <2>2. Screening'
    BY <1>5 DEF Screening, LeftOver, Placement, Forgotten, GiveUpRestore, bounds
  <2>3. FreshSession'
    BY <1>5 DEF FreshSession, Forgotten, GiveUpRestore, bounds
  <2>4. NamedRestorable'
    BY <1>5
       DEF NamedRestorable, SecretsComplete, HasLocalSecrets, Placement, Forgotten,
           GiveUpRestore, bounds
  <2>5. NobodyToHurt'
    BY <1>5
       DEF NobodyToHurt, LogoutCanWipe, Screening, Placement, Forgotten, GiveUpRestore,
           bounds
  <2>6. SignInOwnsStore'
    BY <1>5
       DEF SignInOwnsStore, Opened, Committed, Forgotten, GiveUpRestore, bounds,
           Placement
  <2>7. RestoreUsesItsOwn'
    BY <1>5, ForgetShrinks, ShrinkKeeps DEF GiveUpRestore, ForgetLocalSecrets, bounds
  <2>8. (~overtaken => SavedSessionRestorable)'
    BY <1>5, ForgetShrinks, ShrinkKeeps DEF GiveUpRestore, ForgetLocalSecrets, bounds
  <2> QED BY <2>1, <2>2, <2>3, <2>4, <2>5, <2>6, <2>7, <2>8
<1>6. CASE RestartSignedOut
  <2>1. RestorePath'
    BY <1>6 DEF RestorePath, NewHandle, StartCleanup, RestartSignedOut
  <2>2. Screening'
    BY <1>6
       DEF Screening, LeftOver, Placement, NewHandle, StartCleanup, RestartSignedOut,
           bounds
  <2>3. FreshSession'
    BY <1>6 DEF FreshSession, NewHandle, StartCleanup, RestartSignedOut, bounds
  <2>4. NamedRestorable'
    BY <1>6
       DEF NamedRestorable, SecretsComplete, HasLocalSecrets, Placement, NewHandle,
           StartCleanup, RestartSignedOut, bounds
  <2>5. NobodyToHurt'
    BY <1>6
       DEF NobodyToHurt, LogoutCanWipe, Screening, Placement, NewHandle, StartCleanup,
           RestartSignedOut, bounds
  <2>6. SignInOwnsStore'
    BY <1>6
       DEF SignInOwnsStore, Opened, Committed, NewHandle, StartCleanup,
           RestartSignedOut, bounds, Placement
  <2>7. RestoreUsesItsOwn'
    BY <1>6
       DEF RestoreUsesItsOwn, SecretsComplete, HasLocalSecrets, NewHandle, StartCleanup,
           RestartSignedOut
  <2>8. (~overtaken => SavedSessionRestorable)'
    BY <1>6
       DEF SavedSessionRestorable, SecretsComplete, HasLocalSecrets, Screening,
           Placement, NewHandle, StartCleanup, RestartSignedOut, bounds
  <2> QED BY <2>1, <2>2, <2>3, <2>4, <2>5, <2>6, <2>7, <2>8
<1>7. CASE RestartRestoring
  <2>1. RestorePath'
    BY <1>7 DEF RestorePath, BeginRestore, NewAuth, RestartRestoring
  <2>2. Screening'
    BY <1>7
       DEF Screening, LeftOver, Placement, BeginRestore, NewAuth, RestartRestoring,
           bounds
  <2>3. FreshSession'
    BY <1>7, NobodyIsKnown
       DEF FreshSession, BeginRestore, NewAuth, RestartRestoring, bounds
  <2>4. NamedRestorable'
    BY <1>7
       DEF NamedRestorable, SecretsComplete, HasLocalSecrets, Placement, BeginRestore,
           NewAuth, RestartRestoring, bounds
  <2>5. NobodyToHurt'
    BY <1>7
       DEF NobodyToHurt, LogoutCanWipe, Screening, Placement, BeginRestore, NewAuth,
           RestartRestoring, bounds, LogoutTail
  <2>6. SignInOwnsStore'
    BY <1>7
       DEF SignInOwnsStore, Opened, Committed, BeginRestore, NewAuth, RestartRestoring,
           bounds
  <2>7. RestoreUsesItsOwn'
    BY <1>7
       DEF RestoreUsesItsOwn, SecretsComplete, HasLocalSecrets, BeginRestore, NewAuth,
           RestartRestoring
  <2>8. (~overtaken => SavedSessionRestorable)'
    BY <1>7
       DEF SavedSessionRestorable, SecretsComplete, HasLocalSecrets, Screening,
           Placement, BeginRestore, NewAuth, RestartRestoring, bounds
  <2> QED BY <2>1, <2>2, <2>3, <2>4, <2>5, <2>6, <2>7, <2>8
<1>8. CASE RestartIncomplete
  <2>1. RestorePath'
    BY <1>8 DEF RestorePath, NoSecrets, RestartIncomplete
  <2>2. Screening'
    BY <1>8 DEF Screening, LeftOver, Placement, NoSecrets, RestartIncomplete, bounds
  <2>3. FreshSession'
    BY <1>8 DEF FreshSession, NoSecrets, RestartIncomplete, bounds
  <2>4. NamedRestorable'
    BY <1>8
       DEF NamedRestorable, SecretsComplete, HasLocalSecrets, Placement, NoSecrets,
           RestartIncomplete, bounds
  <2>5. NobodyToHurt'
    BY <1>8
       DEF NobodyToHurt, LogoutCanWipe, Screening, Placement, NoSecrets,
           RestartIncomplete, bounds, LogoutTail
  <2>6. SignInOwnsStore'
    BY <1>8
       DEF SignInOwnsStore, Opened, Committed, NoSecrets, RestartIncomplete, bounds,
           Placement
  <2>7. RestoreUsesItsOwn'
    BY <1>8 DEF RestoreUsesItsOwn, Placement, RestartIncomplete
  <2>8. (~overtaken => SavedSessionRestorable)'
    BY <1>8
       DEF SavedSessionRestorable, SecretsComplete, SecretsAbsent, HasLocalSecrets,
           Forgotten, NoSecrets, ForgetLocalSecrets, RestartIncomplete, bounds, TypeOK,
           MaybeId
  <2> QED BY <2>1, <2>2, <2>3, <2>4, <2>5, <2>6, <2>7, <2>8
<1>9. CASE RestartAbsent
  <2>1. RestorePath'
    BY <1>9 DEF RestorePath, NewHandle, NoSecrets, RestartAbsent
  <2>2. Screening'
    <3>1. SecretsShrink
      BY <1>9, ForgetShrinks DEF RestartAbsent
    <3>2. named' = None /\ (saved' = named' \/ LeftOver')
      BY <1>9, <3>1, WriteFollows DEF RestartAbsent
    <3> QED BY <1>9, <3>2, NoTasks DEF Screening, Placement, RestartAbsent, NewHandle
  <2>3. FreshSession'
    BY <1>9, NobodyIsKnown
       DEF FreshSession, Placement, WriteSettings, RestartAbsent, NewHandle
  <2>4. NamedRestorable'
    BY <1>9
       DEF NamedRestorable, SecretsComplete, HasLocalSecrets, Placement, NewHandle,
           NoSecrets, RestartAbsent, bounds
  <2>5. NobodyToHurt'
    BY <1>9
       DEF NobodyToHurt, LogoutCanWipe, Screening, Placement, NewHandle, NoSecrets,
           RestartAbsent, bounds, LogoutTail
  <2>6. SignInOwnsStore'
    BY <1>9
       DEF SignInOwnsStore, Opened, Committed, NewHandle, NoSecrets, RestartAbsent,
           bounds, Placement
  <2>7. RestoreUsesItsOwn'
    BY <1>9 DEF RestoreUsesItsOwn, Placement, RestartAbsent
  <2>8. (~overtaken => SavedSessionRestorable)'
    BY <1>9, <2>2, NamingNobody DEF RestartAbsent, NewHandle
  <2> QED BY <2>1, <2>2, <2>3, <2>4, <2>5, <2>6, <2>7, <2>8
<1>10. CASE SaveSettings
  <2>1. saved' = named /\ LeftOver
    BY <1>10 DEF SaveSettings, Screening
  <2>2. RestorePath'
    BY <1>10 DEF RestorePath, SaveSettings
  <2>3. Screening'
    BY <1>10 DEF Screening, SaveSettings
  <2>4. FreshSession'
    BY <1>10 DEF FreshSession, SaveSettings
  <2>5. NamedRestorable'
    BY <1>10
       DEF NamedRestorable, SecretsComplete, HasLocalSecrets, Placement, SaveSettings,
           bounds
  <2>6. NobodyToHurt'
    BY <1>10 DEF NobodyToHurt, LogoutCanWipe, SaveSettings
  <2>7. SignInOwnsStore'
    BY <1>10 DEF SignInOwnsStore, Opened, Committed, SaveSettings
  <2>8. RestoreUsesItsOwn'
    BY <1>10 DEF RestoreUsesItsOwn, SaveSettings
  <2>9. (~overtaken => SavedSessionRestorable)'
    BY <1>10, <2>1
       DEF SaveSettings, SavedSessionRestorable, NamedRestorable, Screening, SecretsComplete,
           HasLocalSecrets
  <2> QED BY <2>2, <2>3, <2>4, <2>5, <2>6, <2>7, <2>8, <2>9
<1> QED
  BY <1>1, <1>2, <1>3, <1>4, <1>5, <1>6, <1>7, <1>8, <1>9, <1>10 DEF UserStep

LEMMA CleanupTimerKeepsSafeInv == ASSUME TypeInv, SafeInv, CleanupTimer PROVE SafeInv'
<1> USE DEF TypeInv, SafeInv
<1>1. RestorePath'
  BY DEF RestorePath, CleanupTimer
<1>2. Screening'
  BY DEF Screening, LeftOver, Placement, CleanupTimer, bounds
<1>3. FreshSession'
  BY DEF FreshSession, CleanupTimer, bounds
<1>4. NamedRestorable'
  BY DEF NamedRestorable, SecretsComplete, HasLocalSecrets, Placement, CleanupTimer,
         bounds
<1>5. NobodyToHurt'
  BY DEF NobodyToHurt, LogoutCanWipe, Screening, Placement, CleanupTimer, bounds
<1>6. SignInOwnsStore'
  BY DEF SignInOwnsStore, Opened, Committed, CleanupTimer, bounds
<1>7. RestoreUsesItsOwn'
  BY DEF RestoreUsesItsOwn, SecretsComplete, HasLocalSecrets, CleanupTimer
<1>8. (~overtaken => SavedSessionRestorable)'
  BY
     DEF SavedSessionRestorable, SecretsComplete, HasLocalSecrets, Screening,
         Placement, CleanupTimer, bounds
<1> QED BY <1>1, <1>2, <1>3, <1>4, <1>5, <1>6, <1>7, <1>8

LEMMA CrashKeepsSafeInv == ASSUME TypeInv, SafeInv, Crash PROVE SafeInv'
<1> USE DEF TypeInv, SafeInv
<1>1. RestorePath'
  BY NoTasks DEF RestorePath, Crash
<1>2. Screening'
  BY NoTasks DEF Screening, LeftOver, Placement, Crash, bounds
<1>3. FreshSession'
  BY NoTasks, NobodyIsKnown DEF FreshSession, Crash
<1>4. NamedRestorable'
  BY NoTasks
     DEF NamedRestorable, SecretsComplete, HasLocalSecrets, Placement, Crash, bounds
<1>5. NobodyToHurt'
  BY NoTasks
     DEF NobodyToHurt, LogoutCanWipe, Screening, Placement, Crash, bounds, LogoutTail
<1>6. SignInOwnsStore'
  BY NoTasks DEF SignInOwnsStore, Opened, Committed, Crash, bounds
<1>7. RestoreUsesItsOwn'
  BY NoTasks DEF RestoreUsesItsOwn, SecretsComplete, HasLocalSecrets, Crash
<1>8. (~overtaken => SavedSessionRestorable)'
  BY NoTasks
     DEF SavedSessionRestorable, SecretsComplete, HasLocalSecrets, Screening,
         Placement, Crash, bounds
<1> QED BY <1>1, <1>2, <1>3, <1>4, <1>5, <1>6, <1>7, <1>8

LEMMA StutterKeepsSafeInv == ASSUME SafeInv, UNCHANGED vars PROVE SafeInv'
  BY
     DEF vars, SafeInv, RestorePath, Screening, LeftOver, FreshSession, NamedRestorable,
         NobodyToHurt, LogoutCanWipe, SignInOwnsStore,
         Opened, Committed, RestoreUsesItsOwn, SavedSessionRestorable,
         SecretsComplete, HasLocalSecrets

LEMMA InitSafeInv == Init => SafeInv
  BY NoTasks
     DEF Init, SafeInv, RestorePath, Screening, FreshSession, None, NamedRestorable,
         NobodyToHurt, LogoutCanWipe, LogoutTail,
         SignInOwnsStore, Opened, Committed, RestoreUsesItsOwn, SavedSessionRestorable

LEMMA StepSafeInv == TypeInv /\ SafeInv /\ [Next]_vars => SafeInv'
  BY AuthStepKeepsSafeInv, LogoutStepKeepsSafeInv, MainStepKeepsSafeInv,
     UserStepKeepsSafeInv, CleanupTimerKeepsSafeInv, FinishSignOutKeepsSafeInv,
     CrashKeepsSafeInv, StutterKeepsSafeInv
     DEF Next

(* A crash, a failure or a slow logout never separates a saved session     *)
(* from its store -- unless its sign-in began in the tail of a logout.     *)
THEOREM RestorableOutsideTheWindow == Spec => [](~overtaken => SavedSessionRestorable)
<1>1. SafeInv => (~overtaken => SavedSessionRestorable)
  BY DEF SafeInv
<1> QED BY InitSafeInv, StepSafeInv, Typing, <1>1, PTL DEF Spec

-----------------------------------------------------------------------------
(* With the 15 s timers of AppController out of the way, no sign-in ever   *)
(* begins beside a logout, and the saved session is always restorable.     *)

(* A logout runs only behind a disabled screen, so none is overtaken.      *)
Curtained ==
    /\ logout.pc # "idle" => ui \in {"cleanup", "signingOut"}
    /\ ~overtaken

LEMMA AuthStepCurtained == ASSUME TypeInv, Curtained, AuthStep PROVE Curtained'
<1> USE DEF Curtained, bounds
<1>1. CASE WipeStore       BY <1>1 DEF WipeStore
<1>2. CASE ResetCaches     BY <1>2 DEF ResetCaches
<1>3. CASE TakePassphrase  BY <1>3 DEF TakePassphrase
<1>4. CASE LoadSecrets     BY <1>4 DEF LoadSecrets
<1>5. CASE AcquireStore    BY <1>5 DEF AcquireStore
<1>6. CASE OpenStore       BY <1>6 DEF OpenStore
<1>7. CASE SdkCall         BY <1>7 DEF SdkCall
<1>8. CASE CommitSecrets   BY <1>8 DEF CommitSecrets
<1>9. CASE OpenCacheStores BY <1>9 DEF OpenCacheStores
<1>10. CASE SetClient      BY <1>10 DEF SetClient
<1> QED
  BY <1>1, <1>2, <1>3, <1>4, <1>5, <1>6, <1>7, <1>8, <1>9, <1>10 DEF AuthStep

LEMMA LogoutStepCurtained == ASSUME TypeInv, Curtained, LogoutStep PROVE Curtained'
<1>1. logout.pc # "idle" /\ ui' = ui /\ overtaken' = overtaken
  BY DEF LogoutStep, TakeClient, CheckGeneration, CloseHandles, AcquireMove, MoveStore,
         MoveCachesAndGate, ScrubSecrets, bounds
<1> QED BY <1>1 DEF Curtained

LEMMA MainStepCurtained == ASSUME TypeInv, Curtained, MainStep PROVE Curtained'
<1> USE DEF Curtained, bounds, TypeInv
<1>1. CASE ReportSignIn
  BY <1>1 DEF ReportSignIn, Placement
<1>2. CASE ReportRestore
  BY <1>2 DEF ReportRestore
<1>3. CASE DropSettings
  BY <1>3 DEF DropSettings, StartCleanup
<1>4. CASE ForgetLocal \/ ForgetSettings \/ GiveUpSettings
  BY <1>4 DEF ForgetLocal, ForgetSettings, GiveUpSettings
<1>5. CASE ClearAllAndLogout
  BY <1>5 DEF ClearAllAndLogout
<1>6. CASE FinishSignOut
  BY <1>6, NoTasks DEF FinishSignOut
<1>7. CASE FinishCleanup
  BY <1>7, NoTasks DEF FinishCleanup
<1> QED BY <1>1, <1>2, <1>3, <1>4, <1>5, <1>6, <1>7 DEF MainStep

LEMMA UserStepCurtained == ASSUME TypeInv, Curtained, UserStep PROVE Curtained'
<1> USE DEF Curtained, bounds, TypeInv
<1>1. ASSUME NEW kind \in {"login", "register"}, BeginSignIn(kind) PROVE Curtained'
  <2>1. logout.pc = "idle" /\ logout' = [logout EXCEPT !.alone = FALSE]
    BY <1>1 DEF BeginSignIn, Overlap
  <2>2. logout'.pc = "idle"
    BY <2>1 DEF TypeOK, LogoutStates
  <2>3. ~overtaken'
    BY <1>1, <2>1 DEF BeginSignIn, Overlap, LogoutTail
  <2> QED BY <2>2, <2>3
<1>2. CASE BeginSubmit
  <2>1. logout.pc = "idle" /\ logout' = [logout EXCEPT !.alone = FALSE]
    BY <1>2 DEF BeginSubmit
  <2>2. logout'.pc = "idle"
    BY <2>1 DEF TypeOK, LogoutStates
  <2>3. ~overtaken'
    BY <1>2, <2>1 DEF BeginSubmit, LogoutTail
  <2> QED BY <2>2, <2>3
<1>3. CASE SignOut \/ RetryRestore \/ GiveUpRestore
  BY <1>3 DEF SignOut, RetryRestore, GiveUpRestore
<1>4. CASE RestartSignedOut
  BY <1>4 DEF RestartSignedOut, StartCleanup
<1>5. CASE RestartRestoring \/ RestartIncomplete \/ RestartAbsent
  BY <1>5 DEF RestartRestoring, RestartIncomplete, RestartAbsent, Placement
<1>6. CASE SaveSettings
  BY <1>6 DEF SaveSettings
<1> QED BY <1>1, <1>2, <1>3, <1>4, <1>5, <1>6 DEF UserStep

LEMMA StepCurtained ==
    ASSUME ~SafetyTimer, TypeInv, Curtained, [Next]_vars
    PROVE  Curtained'
<1>1. CASE CleanupTimer
  BY <1>1 DEF CleanupTimer
<1>2. CASE FinishSignOut
  BY <1>2, NoTasks DEF FinishSignOut, Curtained, bounds
<1>3. CASE Crash
  BY <1>3, NoTasks DEF Crash, Curtained
<1>4. CASE UNCHANGED vars
  BY <1>4 DEF vars, Curtained
<1> QED
  BY <1>1, <1>2, <1>3, <1>4, AuthStepCurtained, LogoutStepCurtained, MainStepCurtained,
     UserStepCurtained DEF Next

(* A crash at any step of a login, a sign-out or a cleanup, and any step   *)
(* that fails, leaves a saved session with the store its secrets open, as  *)
(* long as the sign-in form waits for the startup cleanup to end.          *)
THEOREM RestorableWithoutTimer == ASSUME ~SafetyTimer PROVE Spec => []SavedSessionRestorable
<1>1. Init => Curtained
  BY NoTasks DEF Init, Curtained
<1>2. TypeInv /\ Curtained /\ [Next]_vars => Curtained'
  BY StepCurtained
<1>3. Curtained /\ (~overtaken => SavedSessionRestorable) => SavedSessionRestorable
  BY DEF Curtained
<1> QED BY <1>1, <1>2, <1>3, Typing, RestorableOutsideTheWindow, PTL DEF Spec
=============================================================================
