---------------------------- MODULE SecretStore ----------------------------
(***************************************************************************)
(* The calls of src/rust/src/keychain.rs as threads run them, step by step *)
(* between the locks.  Every call that changes the store holds the         *)
(* mutation guard from its beginning to its end.  load_secret does not     *)
(* take that guard: it holds only the lock of the cache, across the read   *)
(* of a backend that a call may be changing.                               *)
(***************************************************************************)
EXTENDS SecretCalls

CONSTANTS
  Readers,   \* threads that call load_secret
  UI,        \* the one of them that is the user interface's thread
  Nobody

Guard == "guard"     \* the guarded call, as the one that loads

ASSUME ThreadAssumption == UI \in Readers /\ Nobody \notin Readers \union {Guard}

VARIABLES
  store,    \* backend, retained key, the two copies and the cache
  call,     \* the call that holds the mutation guard, and how far it is
  load,     \* the load that holds the lock of the cache
  reading   \* the readers inside load_secret

vars == <<store, call, load, reading>>

Ops == {"store", "delete", "erase", "unlock", "passphrase", "switch"}
UIOps == {"erase", "unlock", "passphrase", "switch"}

\* The guard is free; otherwise keys are the caller's, bundle what the call
\* is about to publish or write, key the one it derived, and was the store as
\* it stood before the call changed anything.
Free == [op |-> "none", at |-> "idle", keys |-> {}, bundle |-> {}, key |-> 0,
         was |-> Fresh]
NoLoad == [by |-> Nobody, backend |-> "keychain", key |-> 0, got |-> Cold]

TypeOK ==
  /\ store \in Stores
  /\ call \in [op : Ops \union {"none"},
               at : {"idle", "load", "save", "peek", "flip", "drop", "publish"},
               keys : SUBSET Secrets, bundle : SUBSET Secrets,
               key : 0..MaxKey, was : Stores]
  /\ load \in [by : Readers \union {Nobody, Guard},
               backend : {"keychain", "vault"}, key : 0..MaxKey,
               got : [full : BOOLEAN, held : SUBSET Secrets]]
  /\ reading \in SUBSET Readers

Init ==
  /\ \E b \in {"keychain", "vault"}, held \in SUBSET Secrets :
       \E file \in {NoFile} \union {Sealed(1, f) : f \in SUBSET Secrets} :
         store = [backend |-> b, key |-> 0, item |-> held, file |-> file,
                  cache |-> Cold]
  /\ call = Free
  /\ load = NoLoad
  /\ reading = {}

-----------------------------------------------------------------------------
\* load_bundle: who wants a bundle, and what becomes of them with it or without.
Wants(p) == IF p = Guard THEN call.at = "load" ELSE p \in reading

Goes(at) == call' = [call EXCEPT !.at = at]
Return == call' = Free

WithBundle(p, b) ==
  IF p # Guard
    THEN reading' = reading \ {p} /\ UNCHANGED call
    ELSE /\ UNCHANGED reading
         /\ CASE call.op = "store" ->
                   call' = [call EXCEPT !.at = "save", !.bundle = b \union call.keys]
              [] call.op = "delete" /\ b \cap call.keys = {} -> Return
              [] call.op = "delete" ->
                   call' = [call EXCEPT !.at = "save", !.bundle = b \ call.keys]
              [] OTHER -> call' = [call EXCEPT !.at = "save", !.bundle = b]

WithoutBundle(p) ==
  IF p = Guard THEN Return /\ UNCHANGED reading
               ELSE reading' = reading \ {p} /\ UNCHANGED call

\* The cache answers.
HitCache(p) ==
  /\ Wants(p)
  /\ load = NoLoad
  /\ store.cache.full
  /\ WithBundle(p, store.cache.held)
  /\ UNCHANGED <<store, load>>

\* The cache is cold: its lock is kept, and the backend's state copied.
BeginLoad(p) ==
  /\ Wants(p)
  /\ load = NoLoad
  /\ ~store.cache.full
  /\ load' = [by |-> p, backend |-> store.backend, key |-> store.key,
              got |-> Cold]
  /\ UNCHANGED <<store, call, reading>>

\* The read of the copy that the backend named when it was copied.  A keychain
\* may answer that it has no item.
Answers ==
  IF load.backend = "keychain" THEN {store.item, {}}
  ELSE IF load.key # 0 /\ store.file.key \in {0, load.key} THEN {store.file.held}
  ELSE {}

FetchLoad ==
  /\ load # NoLoad
  /\ ~load.got.full
  /\ \E b \in Answers : load' = [load EXCEPT !.got = Warm(b)]
  /\ UNCHANGED <<store, call, reading>>

FillCache ==
  /\ load.got.full
  /\ store' = Cached(store, load.got.held)
  /\ load' = NoLoad
  /\ WithBundle(load.by, load.got.held)

(* Mutant: the failing way out of a load keeps the cache's lock.          *)
FailLoadHoldingLock ==
  /\ load # NoLoad
  /\ ~load.got.full
  /\ WithoutBundle(load.by)
  /\ UNCHANGED <<store, load>>

\* A locked vault, or a backend that refuses every attempt.
FailLoad ==
  /\ load # NoLoad
  /\ ~load.got.full
  /\ load' = NoLoad
  /\ WithoutBundle(load.by)
  /\ UNCHANGED store

BeginRead(r) ==
  /\ r \notin reading
  /\ r = UI => call.op \notin UIOps
  /\ reading' = reading \union {r}
  /\ UNCHANGED <<store, call, load>>

\* forget_cached_bundle, from the dialog that the user interface shows before
\* any session is restored: nothing else writes then.
Forget ==
  /\ load = NoLoad
  /\ UI \notin reading
  /\ call = Free
  /\ store' = Forgotten(store)
  /\ UNCHANGED <<call, load, reading>>

-----------------------------------------------------------------------------
\* The guard is taken.  The calls of the user interface come one at a time.
Take(op, at, ks, k) ==
  /\ call = Free
  /\ op \in UIOps => UI \notin reading
  /\ call' = [op |-> op, at |-> at, keys |-> ks, bundle |-> {}, key |-> k,
              was |-> store]
  /\ UNCHANGED <<store, load, reading>>

(* Mutant: one derivation more than the bound.                            *)
NewKeyPastEnd == (1..(MaxKey + 1)) \ {store.key, store.file.key}

\* A key salted afresh differs from any that is retained or seals the file.
NewKey == (1..MaxKey) \ {store.key, store.file.key}

BeginStore(ks) == Take("store", "load", ks, 0)
BeginDelete(ks) == Take("delete", "load", ks, 0)
BeginErase == Take("erase", "save", {}, 0)
BeginUnlock == LockedVault(store) /\ Take("unlock", "flip", {}, 0)
\* Asked for only while no vault is unlocked (intro_secret_backend.cpp:109), and
\* again from the same form when the key it retained could not seal the bundle.
BeginPassphrase ==
  /\ store.backend = "vault" /\ store.key # 0 =>
       Reseals(store) /\ store.key # store.file.key
  /\ \E k \in NewKey : Take("passphrase", "flip", {}, k)
BeginSwitch ==
  /\ ~LockedVault(store)
  /\ \E k \in NewKey :
       Take("switch", IF AbsentVault(store) THEN "save" ELSE "load", {}, k)

\* store_bundle, and the copy that switch_backend writes to its target; a write
\* that fails ends the call.
SaveBundle ==
  /\ call.at = "save"
  /\ call.op \in {"store", "delete"}
  /\ Saves(store)
  /\ store' = Saved(store, call.bundle)
  /\ call' = [call EXCEPT !.at = "publish", !.was = store]
  /\ UNCHANGED <<load, reading>>

CopyBundle ==
  /\ call.at = "save"
  /\ call.op = "switch"
  /\ store' = IF store.backend = "keychain"
                THEN ToVaultCopy(store, call.key, call.bundle)
                ELSE ToKeychainCopy(store, call.bundle)
  /\ call' = [call EXCEPT !.at = "flip", !.was = store]
  /\ UNCHANGED <<load, reading>>

SealBundle ==
  /\ call.at = "save"
  /\ call.op = "passphrase"
  /\ store' = Saved(store, call.bundle)
  /\ Return
  /\ UNCHANGED <<load, reading>>

\* clear_all_secrets_locked: the copy of the active backend, whose failure ends
\* the call with nothing changed.
EraseActive ==
  /\ call.at = "save"
  /\ call.op = "erase"
  /\ store' = IF store.backend = "keychain"
                THEN [store EXCEPT !.item = {}]
                ELSE [store EXCEPT !.file = NoFile, !.key = 0]
  /\ call' = [call EXCEPT !.at = "drop", !.was = store]
  /\ UNCHANGED <<load, reading>>

(* Mutant: a write that fails is published all the same.                  *)
FailSavePublishes ==
  /\ call.at = "save"
  /\ call' = [call EXCEPT !.at = "publish", !.was = store]
  /\ UNCHANGED <<store, load, reading>>

FailSave ==
  /\ call.at = "save"
  /\ Return
  /\ UNCHANGED <<store, load, reading>>

\* The backend and its key change, in memory.
Flip ==
  /\ call.at = "flip"
  /\ \/ /\ call.op = "unlock"
        /\ store' = [store EXCEPT !.key = store.file.key]
        /\ call' = [call EXCEPT !.at = "publish", !.bundle = store.file.held,
                                !.was = store]
     \/ /\ call.op = "passphrase"
        /\ store' = Flipped(store, call.key)
        /\ call' = [call EXCEPT !.at = "peek", !.was = store]
     \/ /\ call.op = "switch"
        /\ store' = IF store.backend = "keychain" THEN Flipped(store, call.key)
                                                  ELSE ToKeychain(store)
        /\ Goes("drop")
  /\ UNCHANGED <<load, reading>>

\* set_passphrase: a bundle is sealed only if one is cached.
PeekCache ==
  /\ call.at = "peek"
  /\ load = NoLoad
  /\ IF Reseals(store)
       THEN call' = [call EXCEPT !.at = "save", !.bundle = store.cache.held]
       ELSE Return
  /\ UNCHANGED <<store, load, reading>>

\* The copy in the other store; a failure is logged.
DropOther ==
  /\ call.at = "drop"
  /\ \E kept \in BOOLEAN :
       store' = IF kept THEN store
                ELSE IF (call.was.backend = "keychain") = (call.op = "switch")
                  THEN [store EXCEPT !.item = {}]
                  ELSE [store EXCEPT !.file = NoFile]
  /\ Goes("publish")
  /\ UNCHANGED <<load, reading>>

(* Mutant: the call publishes without the cache's lock.                   *)
PublishUnlocked ==
  /\ call.at = "publish"
  /\ store' = Cached(store, call.bundle)
  /\ Return
  /\ UNCHANGED <<load, reading>>

\* The cache's lock is needed to publish what the call leaves.
Publish ==
  /\ call.at = "publish"
  /\ load = NoLoad
  /\ store' = Cached(store, call.bundle)
  /\ Return
  /\ UNCHANGED <<load, reading>>

-----------------------------------------------------------------------------
CallStep ==
  \/ SaveBundle \/ CopyBundle \/ SealBundle \/ EraseActive \/ FailSave
  \/ Flip \/ PeekCache \/ DropOther \/ Publish

LoadStep(p) == HitCache(p) \/ BeginLoad(p)
FetchStep == FetchLoad \/ FillCache \/ FailLoad

Begin ==
  \/ \E ks \in SUBSET Secrets \ {{}} : BeginStore(ks) \/ BeginDelete(ks)
  \/ BeginErase \/ BeginUnlock \/ BeginPassphrase \/ BeginSwitch
  \/ \E r \in Readers : BeginRead(r)

Next ==
  \/ Begin
  \/ Forget
  \/ \E p \in Readers \union {Guard} : LoadStep(p)
  \/ FetchStep
  \/ CallStep

\* Every thread that holds a lock or waits for one is eventually scheduled; the
\* mutexes are those of the standard library, so a thread that waits for one
\* that is free again and again gets it in the end.
Fairness ==
  /\ WF_vars(CallStep)
  /\ WF_vars(FetchStep)
  /\ \A p \in Readers \union {Guard} : SF_vars(LoadStep(p))
  /\ SF_vars(PeekCache \/ Publish)

Spec == Init /\ [][Next]_vars /\ Fairness

-----------------------------------------------------------------------------
(***************************************************************************)
(* The store as the calls that have returned left it: a call under way     *)
(* shows nothing of what it did until it is over, except that setting a    *)
(* master password cannot be held back once no bundle is left to seal.     *)
(***************************************************************************)
StillSeals ==
  \/ Reseals(store)
  \/ load # NoLoad /\ load.by # Nobody /\ load.key # call.key

Settled ==
  IF call.at = "publish" \/ call.at = "drop" \/ (call.at = "flip" /\ call.op = "switch")
    THEN call.was
  ELSE IF call.op = "passphrase" /\ call.at \in {"peek", "save"} /\ StillSeals
    THEN [store EXCEPT !.backend = call.was.backend, !.key = call.was.key]
  ELSE store

Atomic == INSTANCE AtomicSecretStore WITH store <- Settled

\* Every call of the keychain module takes effect at one instant, although
\* reads run through the middle of writes: AtomicSecretStore is implemented.
CallsAreAtomic == Atomic!Spec

\* A warm, non-empty cache agrees with the copy that the backend would read:
\* no read that began before a write puts old secrets back over it.  A vault
\* whose key is set and whose file is not written yet has no copy to agree with.
CacheIsCurrent ==
  (/\ call = Free
   /\ store.cache.full /\ store.cache.held # {}
   /\ Opens(store)
   /\ store.backend = "vault" => store.file.key # 0)
  => store.cache.held = Held(store)

\* The two locks are never waited for in a circle: every call and every read
\* returns.
CallsReturn ==
  /\ call # Free ~> call = Free
  /\ \A r \in Readers : r \in reading ~> r \notin reading
=============================================================================
