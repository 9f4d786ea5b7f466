------------------------- MODULE SecretStoreProofs -------------------------
(***************************************************************************)
(* TLAPS proofs about SecretStore, for any set of secrets, any number of   *)
(* threads and of vault keys: its type invariant, what holds between the   *)
(* steps of a call, that the interleaved calls of keychain.rs implement    *)
(* the atomic calls of AtomicSecretStore, and what follows from it for the *)
(* cache.                                                                  *)
(***************************************************************************)
EXTENDS SecretStore, TLAPS

-----------------------------------------------------------------------------
(* Types. *)

Bundles == SUBSET Secrets
Keys == 0..MaxKey
Backends == {"keychain", "vault"}
Files == [key : Keys, held : Bundles]
Caches == [full : BOOLEAN, held : Bundles]

LEMMA StoresIs == Stores = [backend : Backends, key : Keys, item : Bundles, file : Files,
                            cache : Caches]
  BY DEF Stores, Bundles, Keys, Backends, Files, Caches

LEMMA StoreParts ==
  ASSUME NEW s \in Stores
  PROVE  /\ s.backend \in Backends /\ s.key \in Keys /\ s.item \in Bundles
         /\ s.file \in Files /\ s.cache \in Caches
         /\ s.file.key \in Keys /\ s.file.held \in Bundles
         /\ s.cache.full \in BOOLEAN /\ s.cache.held \in Bundles
  BY StoresIs DEF Files, Caches

LEMMA Parts ==
  /\ 0 \in Keys /\ NoFile \in Files /\ Cold \in Caches
  /\ NoFile.key = 0 /\ NoFile.held = {} /\ Cold.full = FALSE
  /\ \A b \in Bundles : Warm(b) \in Caches /\ Warm(b).full = TRUE /\ Warm(b).held = b
  /\ \A k \in Keys, b \in Bundles :
       Sealed(k, b) \in Files /\ Sealed(k, b).key = k /\ Sealed(k, b).held = b
  BY KeyAssumption DEF KeyAssumption, Keys, Files, Bundles, Caches, NoFile, Cold, Warm,
                       Sealed

\* Everything but the cache.
Same(s, t) == /\ s.backend = t.backend /\ s.key = t.key
              /\ s.item = t.item /\ s.file = t.file

LEMMA StoreEqual ==
  ASSUME NEW s \in Stores, NEW t \in Stores, Same(s, t), s.cache = t.cache
  PROVE  s = t
  BY StoresIs DEF Same

LEMMA WithField ==
  ASSUME NEW s \in Stores
  PROVE  /\ \A x \in Backends : /\ [s EXCEPT !.backend = x] \in Stores
                                /\ [s EXCEPT !.backend = x].backend = x
                                /\ [s EXCEPT !.backend = x].key = s.key
                                /\ [s EXCEPT !.backend = x].item = s.item
                                /\ [s EXCEPT !.backend = x].file = s.file
                                /\ [s EXCEPT !.backend = x].cache = s.cache
         /\ \A x \in Keys : /\ [s EXCEPT !.key = x] \in Stores
                            /\ [s EXCEPT !.key = x].backend = s.backend
                            /\ [s EXCEPT !.key = x].key = x
                            /\ [s EXCEPT !.key = x].item = s.item
                            /\ [s EXCEPT !.key = x].file = s.file
                            /\ [s EXCEPT !.key = x].cache = s.cache
         /\ \A x \in Bundles : /\ [s EXCEPT !.item = x] \in Stores
                               /\ [s EXCEPT !.item = x].backend = s.backend
                               /\ [s EXCEPT !.item = x].key = s.key
                               /\ [s EXCEPT !.item = x].item = x
                               /\ [s EXCEPT !.item = x].file = s.file
                               /\ [s EXCEPT !.item = x].cache = s.cache
         /\ \A x \in Files : /\ [s EXCEPT !.file = x] \in Stores
                             /\ [s EXCEPT !.file = x].backend = s.backend
                             /\ [s EXCEPT !.file = x].key = s.key
                             /\ [s EXCEPT !.file = x].item = s.item
                             /\ [s EXCEPT !.file = x].file = x
                             /\ [s EXCEPT !.file = x].cache = s.cache
         /\ \A x \in Caches : /\ [s EXCEPT !.cache = x] \in Stores
                              /\ [s EXCEPT !.cache = x].backend = s.backend
                              /\ [s EXCEPT !.cache = x].key = s.key
                              /\ [s EXCEPT !.cache = x].item = s.item
                              /\ [s EXCEPT !.cache = x].file = s.file
                              /\ [s EXCEPT !.cache = x].cache = x
  BY StoresIs

LEMMA Changes ==
  ASSUME NEW s \in Stores, NEW k \in Keys, NEW b \in Bundles, NEW kept \in BOOLEAN
  PROVE  /\ Cached(s, b) \in Stores /\ Forgotten(s) \in Stores
         /\ Saved(s, b) \in Stores /\ Written(s, b) \in Stores
         /\ Erased(s, kept) \in Stores /\ Unlocked(s) \in Stores
         /\ Flipped(s, k) \in Stores /\ ToVaultCopy(s, k, b) \in Stores
         /\ ToKeychainCopy(s, b) \in Stores /\ ToKeychain(s) \in Stores
         /\ Held(s) \in Bundles /\ Bundle(s) \in Bundles /\ Moved(s) \in Bundles
  BY StoresIs, Parts, StoreParts DEF Cached, Forgotten, Saved, Written, Erased, Unlocked, Flipped,
     ToVaultCopy, ToKeychainCopy, ToKeychain, Held, Bundle, Moved, Backends, Bundles

LEMMA Switches ==
  ASSUME NEW s \in Stores, NEW k \in Keys, NEW kept \in BOOLEAN
  PROVE  SwitchedToVault(s, k, kept) \in Stores /\ SwitchedToKeychain(s, kept) \in Stores
  <1> DEFINE b == Moved(s)
  <1>0. {} \in Bundles
    BY DEF Bundles
  <1>1. b \in Bundles
    BY <1>0, Changes
  <1> HIDE DEF b
  <1>4. ToVaultCopy(s, k, b) \in Stores /\ ToKeychainCopy(s, b) \in Stores
    BY <1>1, Changes
  <1>2. Flipped(ToVaultCopy(s, k, b), k) \in Stores /\ ToKeychain(ToKeychainCopy(s, b)) \in Stores
    BY <1>1, <1>4, Changes
  <1>3. ASSUME NEW t \in Stores
        PROVE  /\ [t EXCEPT !.item = IF kept THEN @ ELSE {}, !.cache = Warm(b)] \in Stores
               /\ [t EXCEPT !.file = IF kept THEN @ ELSE NoFile, !.cache = Warm(b)] \in Stores
    BY <1>1, StoresIs, StoreParts, Parts DEF Bundles
  <1>5. QED BY <1>2, <1>3 DEF SwitchedToVault, SwitchedToKeychain, b

CallTypes == [op : Ops \union {"none"},
              at : {"idle", "load", "save", "peek", "flip", "drop", "publish"},
              keys : Bundles, bundle : Bundles, key : Keys, was : Stores]
LoadTypes == [by : Readers \union {Nobody, Guard}, backend : Backends, key : Keys,
              got : Caches]

LEMMA TypesAre == TypeOK <=> /\ store \in Stores /\ call \in CallTypes
                             /\ load \in LoadTypes /\ reading \in SUBSET Readers
  BY DEF TypeOK, CallTypes, LoadTypes, Bundles, Keys, Backends, Caches

LEMMA FreshTyped == Fresh \in Stores
  BY StoresIs, Parts DEF Fresh, Backends, Bundles

LEMMA IdleTyped == Free \in CallTypes /\ NoLoad \in LoadTypes
  BY FreshTyped, Parts DEF Free, NoLoad, CallTypes, LoadTypes, Backends, Bundles

LEMMA InitTyped == Init => TypeOK
  <1> SUFFICES ASSUME Init PROVE TypeOK
    OBVIOUS
  <1>1. 1 \in Keys
    BY KeyAssumption DEF KeyAssumption, Keys
  <1>2. store \in Stores
    BY <1>1, StoresIs, Parts DEF Init, Backends, Bundles
  <1>3. QED BY <1>2, IdleTyped, TypesAre DEF Init

LEMMA CallWith ==
  ASSUME NEW c \in CallTypes
  PROVE  /\ \A at \in {"idle", "load", "save", "peek", "flip", "drop", "publish"} :
              /\ [c EXCEPT !.at = at] \in CallTypes
              /\ \A b \in Bundles : [c EXCEPT !.at = at, !.bundle = b] \in CallTypes
              /\ \A s \in Stores : [c EXCEPT !.at = at, !.was = s] \in CallTypes
              /\ \A b \in Bundles, s \in Stores :
                   [c EXCEPT !.at = at, !.bundle = b, !.was = s] \in CallTypes
  BY DEF CallTypes

LEMMA WithBundleTyped ==
  ASSUME call \in CallTypes, reading \in SUBSET Readers, NEW p, NEW b \in Bundles,
         WithBundle(p, b)
  PROVE  call' \in CallTypes /\ reading' \in SUBSET Readers
  <1>1. call.keys \in Bundles
    BY DEF CallTypes
  <1>2. b \union call.keys \in Bundles /\ b \ call.keys \in Bundles
    BY <1>1 DEF Bundles
  <1>3. call' \in {call, Free} \union {[call EXCEPT !.at = "save", !.bundle = x] :
                                         x \in {b, b \union call.keys, b \ call.keys}}
    <2>1. CASE p # Guard
      BY <2>1 DEF WithBundle
    <2>2. CASE p = Guard
      <3>1. CASE call.op = "store"
        BY <2>2, <3>1 DEF WithBundle
      <3>2. CASE call.op = "delete"
        BY <2>2, <3>2 DEF WithBundle, Return
      <3>3. CASE call.op \notin {"store", "delete"}
        BY <2>2, <3>3 DEF WithBundle, Return
      <3>4. QED BY <3>1, <3>2, <3>3
    <2>3. QED BY <2>1, <2>2
  <1>4. \A x \in Bundles : [call EXCEPT !.at = "save", !.bundle = x] \in CallTypes
    BY CallWith
  <1>5. call' \in CallTypes
    BY <1>2, <1>3, <1>4, IdleTyped
  <1>6. QED BY <1>5 DEF WithBundle

LEMMA WithoutBundleTyped ==
  ASSUME call \in CallTypes, reading \in SUBSET Readers, NEW p, WithoutBundle(p)
  PROVE  call' \in CallTypes /\ reading' \in SUBSET Readers
  BY IdleTyped DEF WithoutBundle, Return

LEMMA LoadStepTyped ==
  ASSUME TypeOK, NEW p \in Readers \union {Guard}, LoadStep(p)
  PROVE  TypeOK'
  <1>1. store \in Stores /\ call \in CallTypes /\ load \in LoadTypes
        /\ reading \in SUBSET Readers
    BY TypesAre
  <1>2. store.cache.held \in Bundles /\ store.backend \in Backends /\ store.key \in Keys
    BY <1>1, StoreParts
  <1>3. store' = store /\ load' \in LoadTypes /\ call' \in CallTypes
        /\ reading' \in SUBSET Readers
    <2>1. CASE HitCache(p)
      BY <1>1, <1>2, <2>1, WithBundleTyped DEF HitCache
    <2>2. CASE BeginLoad(p)
      BY <1>1, <1>2, <2>2, Parts DEF BeginLoad, LoadTypes
    <2>3. QED BY <2>1, <2>2 DEF LoadStep
  <1>4. QED BY <1>1, <1>3 DEF TypeOK, CallTypes, LoadTypes, Bundles, Keys, Backends, Caches

LEMMA FetchStepTyped ==
  ASSUME TypeOK, FetchStep
  PROVE  TypeOK'
  <1>1. store \in Stores /\ call \in CallTypes /\ load \in LoadTypes
        /\ reading \in SUBSET Readers
    BY TypesAre
  <1>2. store.item \in Bundles /\ store.file.held \in Bundles /\ {} \in Bundles
    BY <1>1, StoreParts DEF Bundles
  <1>3. load.got.held \in Bundles
    BY <1>1 DEF LoadTypes, Caches
  <1>4. store' \in Stores /\ load' \in LoadTypes /\ call' \in CallTypes
        /\ reading' \in SUBSET Readers
    <2>1. CASE FetchLoad
      <3>1. Answers \subseteq Bundles
        BY <1>2 DEF Answers
      <3>2. \A x \in Caches : [load EXCEPT !.got = x] \in LoadTypes
        BY <1>1 DEF LoadTypes
      <3>3. QED BY <1>1, <2>1, <3>1, <3>2, Parts DEF FetchLoad
    <2>2. CASE FillCache
      BY <1>1, <1>3, <2>2, Changes, Parts, WithBundleTyped, IdleTyped DEF FillCache
    <2>3. CASE FailLoad
      BY <1>1, <2>3, WithoutBundleTyped, IdleTyped DEF FailLoad
    <2>4. QED BY <2>1, <2>2, <2>3 DEF FetchStep
  <1>5. QED BY <1>4 DEF TypeOK, CallTypes, LoadTypes, Bundles, Keys, Backends, Caches

LEMMA BeginTyped ==
  ASSUME TypeOK, Begin \/ Forget
  PROVE  TypeOK'
  <1>1. store \in Stores /\ call \in CallTypes /\ load \in LoadTypes
        /\ reading \in SUBSET Readers
    BY TypesAre
  <1>2. ASSUME NEW op \in Ops, NEW at \in {"load", "save", "flip"}, NEW ks \in Bundles,
               NEW k \in Keys, Take(op, at, ks, k)
        PROVE  call' \in CallTypes /\ UNCHANGED <<store, load, reading>>
    BY <1>1, <1>2, Parts DEF Take, CallTypes, Bundles
  <1>3. NewKey \subseteq Keys /\ 0 \in Keys /\ {} \in Bundles
    BY KeyAssumption, Parts DEF KeyAssumption, NewKey, Keys, Bundles
  <1>4. store' \in Stores /\ load' \in LoadTypes /\ call' \in CallTypes
        /\ reading' \in SUBSET Readers
    <2>1. ASSUME NEW ks \in Bundles, BeginStore(ks) \/ BeginDelete(ks)
          PROVE  <1>4
      BY <1>1, <1>2, <1>3, <2>1 DEF BeginStore, BeginDelete, Ops
    <2>2. CASE BeginErase
      BY <1>1, <1>2, <1>3, <2>2 DEF BeginErase, Ops
    <2>3. CASE BeginUnlock
      BY <1>1, <1>2, <1>3, <2>3 DEF BeginUnlock, Ops
    <2>4. CASE BeginPassphrase
      BY <1>1, <1>2, <1>3, <2>4 DEF BeginPassphrase, Ops
    <2>5. CASE BeginSwitch
      BY <1>1, <1>2, <1>3, <2>5 DEF BeginSwitch, Ops
    <2>6. ASSUME NEW r \in Readers, BeginRead(r)
          PROVE  <1>4
      BY <1>1, <2>6 DEF BeginRead
    <2>7. CASE Forget
      BY <1>1, <2>7, StoresIs, Parts DEF Forget, Forgotten
    <2>8. QED BY <2>1, <2>2, <2>3, <2>4, <2>5, <2>6, <2>7 DEF Begin, Bundles
  <1>5. QED BY <1>4 DEF TypeOK, CallTypes, LoadTypes, Bundles, Keys, Backends, Caches

LEMMA CallStepTyped ==
  ASSUME TypeOK, CallStep
  PROVE  TypeOK'
  <1>1. store \in Stores /\ call \in CallTypes /\ load \in LoadTypes
        /\ reading \in SUBSET Readers
    BY TypesAre
  <1>2. /\ call.bundle \in Bundles /\ call.key \in Keys /\ store.file.key \in Keys
        /\ store.file.held \in Bundles /\ store.cache.held \in Bundles
        /\ {} \in Bundles /\ 0 \in Keys /\ NoFile \in Files
    BY <1>1, StoreParts, Parts DEF CallTypes, Bundles
  <1>3. /\ \A b \in Bundles : [store EXCEPT !.item = b] \in Stores
        /\ [store EXCEPT !.file = NoFile] \in Stores
        /\ [store EXCEPT !.file = NoFile, !.key = 0] \in Stores
        /\ \A k \in Keys : [store EXCEPT !.key = k] \in Stores
    BY <1>1, <1>2, StoresIs
  <1>4. call' \in CallTypes
    <2> DEFINE Ats == {"save", "peek", "flip", "drop", "publish"}
    <2>6. /\ \A at \in Ats : [call EXCEPT !.at = at] \in CallTypes
          /\ \A at \in Ats : [call EXCEPT !.at = at, !.was = store] \in CallTypes
          /\ [call EXCEPT !.at = "save", !.bundle = store.cache.held] \in CallTypes
          /\ [call EXCEPT !.at = "publish", !.bundle = store.file.held, !.was = store]
               \in CallTypes
      BY <1>1, <1>2, CallWith
    <2>7. "save" \in Ats /\ "peek" \in Ats /\ "flip" \in Ats /\ "drop" \in Ats
          /\ "publish" \in Ats
      OBVIOUS
    <2> HIDE DEF Ats
    <2>1. CASE SaveBundle \/ CopyBundle \/ EraseActive
      BY <2>6, <2>7, <2>1 DEF SaveBundle, CopyBundle, EraseActive
    <2>2. CASE SealBundle \/ FailSave \/ Publish
      BY <2>2, IdleTyped DEF SealBundle, FailSave, Publish, Return
    <2>3. CASE Flip
      BY <2>3, <2>6, <2>7 DEF Flip, Goes
    <2>4. CASE PeekCache \/ DropOther
      BY <2>4, <2>6, <2>7, IdleTyped DEF PeekCache, DropOther, Goes, Return
    <2>5. QED BY <2>1, <2>2, <2>3, <2>4 DEF CallStep
  <1>5. store' \in Stores
    <2>1. CASE SaveBundle \/ CopyBundle \/ SealBundle
      <3>1. /\ Saved(store, call.bundle) \in Stores
            /\ ToVaultCopy(store, call.key, call.bundle) \in Stores
            /\ ToKeychainCopy(store, call.bundle) \in Stores
        BY <1>1, <1>2, Changes
      <3>2. QED BY <2>1, <3>1 DEF SaveBundle, CopyBundle, SealBundle
    <2>2. CASE EraseActive \/ DropOther
      BY <1>1, <1>2, <1>3, <2>2 DEF EraseActive, DropOther
    <2>3. CASE Flip \/ Publish
      BY <1>1, <1>2, <1>3, <2>3, Changes DEF Flip, Publish
    <2>4. CASE FailSave \/ PeekCache
      BY <1>1, <2>4 DEF FailSave, PeekCache
    <2>5. QED BY <2>1, <2>2, <2>3, <2>4 DEF CallStep
  <1>6. load' = load /\ reading' = reading
    BY DEF CallStep, SaveBundle, CopyBundle, SealBundle, EraseActive, FailSave, Flip,
       PeekCache, DropOther, Publish
  <1>7. QED BY <1>1, <1>4, <1>5, <1>6 DEF TypeOK, CallTypes, LoadTypes, Bundles, Keys,
              Backends, Caches

LEMMA NextTyped == TypeOK /\ [Next]_vars => TypeOK'
  <1> SUFFICES ASSUME TypeOK, [Next]_vars PROVE TypeOK'
    OBVIOUS
  <1>1. CASE Next
    BY <1>1, BeginTyped, LoadStepTyped, FetchStepTyped, CallStepTyped DEF Next
  <1>2. CASE UNCHANGED vars
    BY <1>2 DEF vars, TypeOK
  <1>3. QED BY <1>1, <1>2

\* The store, the cache and what every call carries keep their types, whatever the threads
\* of keychain.rs do in whatever order.
THEOREM TypeCorrect == Spec => []TypeOK
  BY InitTyped, NextTyped, PTL DEF Spec

-----------------------------------------------------------------------------
(* What a call under way knows of the store, and the store of it: s is the *)
(* store, c the call, l the load.                                          *)

NewFor(s) == (1..MaxKey) \ {s.key, s.file.key}

Stages(c) ==
  \/ c = Free
  \/ c.op \in {"store", "delete"} /\ c.at \in {"load", "save", "publish"}
  \/ c.op = "erase" /\ c.at \in {"save", "drop", "publish"}
  \/ c.op = "unlock" /\ c.at \in {"flip", "publish"}
  \/ c.op = "passphrase" /\ c.at \in {"flip", "peek", "save"}
  \/ c.op = "switch" /\ c.at \in {"load", "save", "flip", "drop", "publish"}

\* store_secrets and delete write what was cached, changed; nothing else happens to the
\* store meanwhile, for a warm cache keeps the loads out.
Edited(c, b) == IF c.op = "store" THEN b \union c.keys ELSE b \ c.keys

StoreFits(s, c) == c.op \in {"store", "delete"} =>
  /\ c.at = "save" => s.cache.full /\ c.bundle = Edited(c, s.cache.held)
  /\ c.at = "publish" => /\ c.was.cache.full /\ Saves(c.was)
                         /\ c.bundle = Edited(c, c.was.cache.held)
                         /\ s = Saved(c.was, c.bundle)

ErasedActive(s) == IF s.backend = "keychain"
                     THEN [s EXCEPT !.item = {}]
                     ELSE [s EXCEPT !.file = NoFile, !.key = 0]

EraseFits(s, c) == c.op = "erase" =>
  /\ c.bundle = {}
  /\ c.at = "drop" => Same(s, ErasedActive(c.was))
  /\ c.at = "publish" => \E kept \in BOOLEAN : Same(s, Erased(c.was, kept))

UnlockFits(s, c) == c.op = "unlock" =>
  /\ c.at = "flip" => LockedVault(s)
  /\ c.at = "publish" => /\ LockedVault(c.was)
                         /\ c.bundle = c.was.file.held
                         /\ Same(s, Unlocked(c.was))

\* The password is set over the store b, which is s but for what the call did: a vault
\* that retains a key is rekeyed only while its bundle is cached.
Rekeyable(b, s, k) ==
  k \in NewFor(b) /\ (b.backend = "vault" => b.key = 0 \/ s.cache.full)

PassphraseFits(s, c) == c.op = "passphrase" =>
  /\ c.at = "flip" => Rekeyable(s, s, c.key)
  /\ c.at \in {"peek", "save"} => /\ Rekeyable(c.was, s, c.key)
                                  /\ Same(s, Flipped(c.was, c.key))
  /\ c.at = "save" => Reseals(s) /\ c.bundle = s.cache.held

Copied(s, k, b) == IF s.backend = "keychain" THEN ToVaultCopy(s, k, b)
                                             ELSE ToKeychainCopy(s, b)
Switched(s, k, kept) == IF s.backend = "keychain" THEN SwitchedToVault(s, k, kept)
                                                  ELSE SwitchedToKeychain(s, kept)

SwitchFits(s, c) == c.op = "switch" =>
  /\ c.at = "load" => c.key \in NewFor(s) /\ ~LockedVault(s) /\ ~AbsentVault(s)
  /\ c.at = "save" => /\ c.key \in NewFor(s) /\ Moves(s) /\ c.bundle = Moved(s)
                      /\ AbsentVault(s) \/ s.cache.full
  /\ c.at \in {"flip", "drop", "publish"} =>
       c.key \in NewFor(c.was) /\ Moves(c.was) /\ c.bundle = Moved(c.was)
  /\ c.at = "flip" => Same(s, Copied(c.was, c.key, c.bundle))
  /\ c.at = "drop" => Same(s, Switched(c.was, c.key, TRUE))
  /\ c.at = "publish" => \E kept \in BOOLEAN : Same(s, Switched(c.was, c.key, kept))

CallFits(s, c) == /\ Stages(c) /\ StoreFits(s, c) /\ EraseFits(s, c)
                  /\ UnlockFits(s, c) /\ PassphraseFits(s, c) /\ SwitchFits(s, c)

\* A load reads the store that it began on, unless a call is half way through changing
\* it and will publish over what the load found; or a master password is being set.
HalfWay(c) == c.at \in {"publish", "drop"} \/ (c.at = "flip" /\ c.op = "switch")
Rekeying(c) == c.op = "passphrase" /\ c.at \in {"peek", "save"}
Before(s, c) == [s EXCEPT !.backend = c.was.backend, !.key = c.was.key]

Reads(l, s) ==
  /\ l.backend = s.backend /\ l.key = s.key
  /\ l.got.full => /\ Opens(s)
                   /\ l.got.held = Held(s) \/ (s.backend = "keychain" /\ l.got.held = {})

LoadFits(s, c, l) == l # NoLoad =>
  /\ l.by # Nobody
  /\ l.by = Guard => c.at = "load"
  /\ ~s.cache.full
  /\ ~HalfWay(c) /\ ~Rekeying(c) => Reads(l, s)
  /\ Rekeying(c) => \/ Reads(l, Before(s, c))
                    \/ /\ l.backend = "vault" /\ l.key = c.key
                       /\ l.got.full => l.got.held = {} /\ s.file.key = 0

FileFits(s) == s.file.key = 0 => s.file = NoFile

Fits == CallFits(store, call) /\ LoadFits(store, call, load) /\ FileFits(store)

-----------------------------------------------------------------------------
(* The invariant.                                                          *)

\* A step of a load that changes nothing but the cache leaves the call where it is: had
\* the call looked at the cache, the cache would have been warm.
LEMMA FillFits ==
  ASSUME NEW s \in Stores, NEW t \in Stores, NEW c \in CallTypes, CallFits(s, c),
         Same(s, t), ~s.cache.full
  PROVE  CallFits(t, c)
  <1>1. StoreFits(t, c)
    <2>1. c.op \in {"store", "delete"} => c.at # "save"
      BY DEF CallFits, StoreFits
    <2>2. ASSUME c.op \in {"store", "delete"}, c.at = "publish" PROVE FALSE
      <3>1. c.was.cache.full /\ s = Saved(c.was, c.bundle) /\ c.was \in Stores
        BY <2>2 DEF CallFits, StoreFits, CallTypes
      <3>2. s.cache = c.was.cache
        BY <3>1, StoresIs DEF Saved
      <3>3. QED BY <3>1, <3>2
    <2>3. QED BY <2>1, <2>2 DEF StoreFits
  <1>2. EraseFits(t, c)
    BY DEF CallFits, EraseFits, Same
  <1>3. UnlockFits(t, c)
    BY DEF CallFits, UnlockFits, Same, LockedVault
  <1>4. PassphraseFits(t, c)
    BY DEF CallFits, PassphraseFits, Same, Reseals, Rekeyable, NewFor
  <1>5. SwitchFits(t, c)
    <2>1. AbsentVault(t) = AbsentVault(s) /\ LockedVault(t) = LockedVault(s)
          /\ NewFor(t) = NewFor(s)
      BY DEF Same, AbsentVault, LockedVault, NewFor
    <2>2. ASSUME c.op = "switch", c.at = "save"
          PROVE  /\ c.key \in NewFor(t) /\ Moves(t) /\ c.bundle = Moved(t)
                 /\ AbsentVault(t)
      BY <2>1, <2>2 DEF CallFits, SwitchFits, Moves, Moved
    <2>3. QED BY <2>1, <2>2 DEF CallFits, SwitchFits, Same
  <1>6. QED BY <1>1, <1>2, <1>3, <1>4, <1>5 DEF CallFits

\* The guarded call gets its bundle, from the cache that is warm from now on.
LEMMA GuardFits ==
  ASSUME store \in Stores, call \in CallTypes, CallFits(store, call), call.at = "load",
         NEW t \in Stores, Same(store, t), t.cache.full, NEW b, t.cache.held = b,
         WithBundle(Guard, b)
  PROVE  /\ CallFits(t, call')
         /\ (call'.at = "save" /\ call'.op # "passphrase") \/ call' = Free
  <1>1. call.op \in {"store", "delete", "switch"}
    BY DEF CallFits, Stages, Free
  <1>2. CASE call' = Free
    BY <1>2 DEF CallFits, Stages, StoreFits, EraseFits, UnlockFits, PassphraseFits,
       SwitchFits, Free
  <1>3. ASSUME call.op \in {"store", "delete"},
               call' = [call EXCEPT !.at = "save", !.bundle = Edited(call, b)]
        PROVE  CallFits(t, call') /\ call'.at = "save" /\ call'.op # "passphrase"
    <2>1. call'.op = call.op /\ call'.at = "save" /\ call'.bundle = Edited(call, b)
          /\ call'.keys = call.keys
      BY <1>3 DEF CallTypes
    <2>2. call'.bundle = Edited(call', b)
      BY <2>1 DEF Edited
    <2>3. QED BY <1>3, <2>1, <2>2 DEF CallFits, Stages, StoreFits, EraseFits, UnlockFits,
                 PassphraseFits, SwitchFits
  <1>4. ASSUME call.op = "switch", call' = [call EXCEPT !.at = "save", !.bundle = b]
        PROVE  CallFits(t, call') /\ call'.at = "save" /\ call'.op # "passphrase"
    <2>1. call'.op = "switch" /\ call'.at = "save" /\ call'.bundle = b
          /\ call'.key = call.key
      BY <1>4 DEF CallTypes
    <2>2. call.key \in NewFor(t) /\ ~LockedVault(t) /\ ~AbsentVault(t)
      BY <1>4 DEF CallFits, SwitchFits, Same, NewFor, LockedVault, AbsentVault
    <2>3. Moves(t) /\ Moved(t) = b
      BY <2>2 DEF Moves, Moved, Readable, Bundle
    <2>4. QED BY <2>1, <2>2, <2>3 DEF CallFits, Stages, StoreFits, EraseFits, UnlockFits,
                 PassphraseFits, SwitchFits
  <1>5. CASE call.op = "store"
    BY <1>3, <1>5 DEF WithBundle, Edited
  <1>6. CASE call.op = "delete"
    BY <1>2, <1>3, <1>6 DEF WithBundle, Edited, Return
  <1>7. CASE call.op = "switch"
    BY <1>4, <1>7 DEF WithBundle
  <1>8. QED BY <1>1, <1>5, <1>6, <1>7

LEMMA FreeFits == \A s : CallFits(s, Free)
  BY DEF CallFits, Stages, StoreFits, EraseFits, UnlockFits, PassphraseFits, SwitchFits, Free

\* A call that was begun knows what its guard looked at.
LEMMA BeginFits ==
  ASSUME TypeOK, Fits, Begin
  PROVE  CallFits(store', call') /\ store' = store
  <1>1. store \in Stores
    BY TypesAre
  <1>2. ASSUME NEW op \in Ops, NEW at, NEW ks, NEW k, Take(op, at, ks, k)
        PROVE  /\ call'.op = op /\ call'.at = at /\ call'.keys = ks /\ call'.bundle = {}
               /\ call'.key = k /\ store' = store
    BY <1>2 DEF Take
  <1> DEFINE All == /\ StoreFits(store, call') /\ EraseFits(store, call')
                    /\ UnlockFits(store, call') /\ PassphraseFits(store, call')
                    /\ SwitchFits(store, call') /\ Stages(call') /\ store' = store
  <1>3. ASSUME NEW ks, BeginStore(ks) \/ BeginDelete(ks) PROVE All
    BY <1>2, <1>3 DEF BeginStore, BeginDelete, Ops, Stages, StoreFits, EraseFits, UnlockFits,
       PassphraseFits, SwitchFits
  <1>4. ASSUME BeginErase PROVE All
    <2>1. call'.op = "erase" /\ call'.at = "save" /\ call'.bundle = {} /\ store' = store
      BY <1>4 DEF BeginErase, Take
    <2>2. QED BY <2>1 DEF Stages, StoreFits, EraseFits, UnlockFits, PassphraseFits, SwitchFits
  <1>5. ASSUME BeginUnlock PROVE All
    <2>1. call'.op = "unlock" /\ call'.at = "flip" /\ LockedVault(store) /\ store' = store
      BY <1>5 DEF BeginUnlock, Take
    <2>2. QED BY <2>1 DEF Stages, StoreFits, EraseFits, UnlockFits, PassphraseFits, SwitchFits
  <1>6. ASSUME BeginPassphrase PROVE All
    <2>1. call'.op = "passphrase" /\ call'.at = "flip" /\ Rekeyable(store, store, call'.key)
          /\ store' = store
      BY <1>6 DEF BeginPassphrase, Take, Rekeyable, NewKey, NewFor, Reseals
    <2>2. QED BY <2>1 DEF Stages, StoreFits, EraseFits, UnlockFits, PassphraseFits, SwitchFits
  <1>7. ASSUME BeginSwitch PROVE All
    <2>1. PICK k \in NewKey :
            Take("switch", IF AbsentVault(store) THEN "save" ELSE "load", {}, k)
      BY <1>7 DEF BeginSwitch
    <2>2. call'.key \in NewFor(store) /\ ~LockedVault(store)
      BY <1>7, <2>1 DEF BeginSwitch, Take, NewKey, NewFor
    <2>3. AbsentVault(store) => Moves(store) /\ Moved(store) = {}
      BY DEF Moves, Moved
    <2>4. call'.op = "switch" /\ call'.bundle = {} /\ store' = store
          /\ call'.at = IF AbsentVault(store) THEN "save" ELSE "load"
      BY <2>1 DEF Take
    <2>5. Stages(call')
      BY <2>4 DEF Stages
    <2>6. SwitchFits(store, call')
      BY <2>2, <2>3, <2>4 DEF SwitchFits
    <2>7. QED BY <2>4, <2>5, <2>6 DEF StoreFits, EraseFits, UnlockFits, PassphraseFits
  <1>8. ASSUME NEW r \in Readers, BeginRead(r) PROVE All
    BY <1>8 DEF BeginRead, Fits, CallFits
  <1>9. QED BY <1>3, <1>4, <1>5, <1>6, <1>7, <1>8 DEF Begin, CallFits

LEMMA SaveBundleFits ==
  ASSUME TypeOK, Fits, SaveBundle
  PROVE  CallFits(store', call')
  <1>1. call \in CallTypes
    BY TypesAre
  <1>2. /\ call'.op = call.op /\ call'.at = "publish" /\ call'.keys = call.keys
        /\ call'.bundle = call.bundle /\ call'.was = store
    BY <1>1 DEF SaveBundle, CallTypes
  <1>3. /\ call.op \in {"store", "delete"} /\ Saves(store) /\ store.cache.full
        /\ call.bundle = Edited(call, store.cache.held) /\ store' = Saved(store, call.bundle)
    BY DEF SaveBundle, Fits, CallFits, StoreFits
  <1>4. Edited(call', store.cache.held) = Edited(call, store.cache.held)
    BY <1>2 DEF Edited
  <1>5. StoreFits(store', call') /\ Stages(call')
    BY <1>2, <1>3, <1>4 DEF StoreFits, Stages
  <1>6. QED BY <1>2, <1>3, <1>5 DEF CallFits, EraseFits, UnlockFits, PassphraseFits, SwitchFits

LEMMA CopyBundleFits ==
  ASSUME TypeOK, Fits, CopyBundle
  PROVE  CallFits(store', call')
  <1>1. call \in CallTypes
    BY TypesAre
  <1>2. /\ call'.op = "switch" /\ call'.at = "flip" /\ call'.key = call.key
        /\ call'.bundle = call.bundle /\ call'.was = store
    BY <1>1 DEF CopyBundle, CallTypes
  <1>3. call.key \in NewFor(store) /\ Moves(store) /\ call.bundle = Moved(store)
    BY DEF CopyBundle, Fits, CallFits, SwitchFits
  <1>4. store' = Copied(store, call.key, call.bundle)
    BY DEF CopyBundle, Copied
  <1>5. SwitchFits(store', call')
    BY <1>2, <1>3, <1>4 DEF SwitchFits, Same
  <1>6. QED BY <1>2, <1>5 DEF CallFits, Stages, StoreFits, EraseFits, UnlockFits,
               PassphraseFits

LEMMA EraseActiveFits ==
  ASSUME TypeOK, Fits, EraseActive
  PROVE  CallFits(store', call')
  <1>1. call \in CallTypes
    BY TypesAre
  <1>2. /\ call'.op = "erase" /\ call'.at = "drop" /\ call'.bundle = call.bundle
        /\ call'.was = store
    BY <1>1 DEF EraseActive, CallTypes
  <1>3. call.bundle = {} /\ store' = ErasedActive(store)
    BY DEF EraseActive, ErasedActive, Fits, CallFits, EraseFits
  <1>4. QED BY <1>2, <1>3 DEF CallFits, Stages, StoreFits, EraseFits, UnlockFits,
               PassphraseFits, SwitchFits, Same

LEMMA FlipFits ==
  ASSUME TypeOK, Fits, Flip
  PROVE  CallFits(store', call')
  <1>1. call \in CallTypes /\ store \in Stores /\ call.at = "flip"
    BY TypesAre DEF Flip
  <1>2. ASSUME call.op = "unlock", store' = [store EXCEPT !.key = store.file.key],
               call' = [call EXCEPT !.at = "publish", !.bundle = store.file.held,
                                    !.was = store]
        PROVE  CallFits(store', call')
    <2>1. /\ call'.op = "unlock" /\ call'.at = "publish" /\ call'.bundle = store.file.held
          /\ call'.was = store
      BY <1>1, <1>2 DEF CallTypes
    <2>2. LockedVault(store)
      BY <1>1, <1>2 DEF Fits, CallFits, UnlockFits
    <2>3. Same(store', Unlocked(store))
      BY <1>1, <1>2, StoresIs DEF Same, Unlocked
    <2>4. QED BY <2>1, <2>2, <2>3 DEF CallFits, Stages, StoreFits, EraseFits, UnlockFits,
                 PassphraseFits, SwitchFits
  <1>3. ASSUME call.op = "passphrase", store' = Flipped(store, call.key),
               call' = [call EXCEPT !.at = "peek", !.was = store]
        PROVE  CallFits(store', call')
    <2>1. /\ call'.op = "passphrase" /\ call'.at = "peek" /\ call'.key = call.key
          /\ call'.was = store
      BY <1>1, <1>3 DEF CallTypes
    <2>2. Rekeyable(store, store, call.key)
      BY <1>1, <1>3 DEF Fits, CallFits, PassphraseFits
    <2>3. Rekeyable(store, store', call.key)
      <3>1. store'.cache = store.cache
        BY <1>1, <1>3, StoresIs DEF Flipped
      <3>2. QED BY <2>2, <3>1 DEF Rekeyable
    <2>4. QED BY <1>3, <2>1, <2>3 DEF CallFits, Stages, StoreFits, EraseFits, UnlockFits,
                 PassphraseFits, SwitchFits, Same
  <1>4. ASSUME call.op = "switch",
               store' = IF store.backend = "keychain" THEN Flipped(store, call.key)
                                                      ELSE ToKeychain(store),
               call' = [call EXCEPT !.at = "drop"]
        PROVE  CallFits(store', call')
    <2> DEFINE was == call.was
               copy == Copied(was, call.key, call.bundle)
    <2>1. /\ call'.op = "switch" /\ call'.at = "drop" /\ call'.key = call.key
          /\ call'.bundle = call.bundle /\ call'.was = call.was
      BY <1>1, <1>4 DEF CallTypes
    <2>2. /\ call.key \in NewFor(was) /\ Moves(was) /\ call.bundle = Moved(was)
          /\ Same(store, copy)
      BY <1>1, <1>4 DEF Fits, CallFits, SwitchFits
    <2>3. was \in Stores /\ call.key \in Keys /\ call.bundle \in Bundles
      BY <1>1 DEF CallTypes
    <2>4. copy \in Stores /\ copy.backend = was.backend
      BY <2>3, Changes, StoresIs DEF Copied, ToVaultCopy, ToKeychainCopy
    <2>5. ASSUME was.backend = "keychain" PROVE Same(store', Switched(was, call.key, TRUE))
      <3>1. store.backend = "keychain"
        BY <2>2, <2>4, <2>5 DEF Same
      <3>2. store' = Flipped(store, call.key)
        BY <1>4, <3>1
      <3>3. Switched(was, call.key, TRUE) =
              [Flipped(copy, call.key) EXCEPT !.item = @, !.cache = Warm(call.bundle)]
        BY <2>2, <2>5 DEF Switched, SwitchedToVault, Copied
      <3>4. Flipped(copy, call.key) \in Stores
        BY <2>3, <2>4, Changes
      <3>5. Same(Flipped(copy, call.key), Switched(was, call.key, TRUE))
        BY <3>3, <3>4, StoresIs DEF Same
      <3>6. Same(Flipped(store, call.key), Flipped(copy, call.key))
        BY <1>1, <2>2, <2>4, StoresIs DEF Same, Flipped
      <3>7. QED BY <3>2, <3>5, <3>6 DEF Same
    <2>6. ASSUME was.backend # "keychain" PROVE Same(store', Switched(was, call.key, TRUE))
      <3>1. store.backend # "keychain"
        BY <2>2, <2>4, <2>6 DEF Same
      <3>2. store' = ToKeychain(store)
        BY <1>4, <3>1
      <3>3. Switched(was, call.key, TRUE) =
              [ToKeychain(copy) EXCEPT !.file = @, !.cache = Warm(call.bundle)]
        BY <2>2, <2>6 DEF Switched, SwitchedToKeychain, Copied
      <3>4. ToKeychain(copy) \in Stores
        BY <2>3, <2>4, Changes
      <3>5. Same(ToKeychain(copy), Switched(was, call.key, TRUE))
        BY <3>3, <3>4, StoresIs DEF Same
      <3>6. Same(ToKeychain(store), ToKeychain(copy))
        BY <1>1, <2>2, <2>4, StoresIs DEF Same, ToKeychain
      <3>7. QED BY <3>2, <3>5, <3>6 DEF Same
    <2>7. Same(store', Switched(was, call.key, TRUE))
      BY <2>5, <2>6
    <2>8. QED BY <2>1, <2>2, <2>7 DEF CallFits, Stages, StoreFits, EraseFits, UnlockFits,
                 PassphraseFits, SwitchFits
  <1>5. QED BY <1>2, <1>3, <1>4 DEF Flip, Goes

LEMMA PeekCacheFits ==
  ASSUME TypeOK, Fits, PeekCache
  PROVE  CallFits(store', call')
  <1>1. call \in CallTypes /\ store' = store
    BY TypesAre DEF PeekCache
  <1>2. CASE call' = Free
    BY <1>2, FreeFits
  <1>3. ASSUME Reseals(store), call' = [call EXCEPT !.at = "save", !.bundle = store.cache.held]
        PROVE  CallFits(store', call')
    <2>1. call.op = "passphrase"
      BY DEF PeekCache, Fits, CallFits, Stages, Free
    <2>2. /\ call'.op = "passphrase" /\ call'.at = "save" /\ call'.key = call.key
          /\ call'.bundle = store.cache.held /\ call'.was = call.was
      BY <1>1, <1>3, <2>1 DEF CallTypes
    <2>3. Rekeyable(call.was, store, call.key) /\ Same(store, Flipped(call.was, call.key))
      BY <2>1 DEF PeekCache, Fits, CallFits, PassphraseFits
    <2>4. QED BY <1>1, <1>3, <2>2, <2>3 DEF CallFits, Stages, StoreFits, EraseFits,
                 UnlockFits, PassphraseFits, SwitchFits
  <1>4. QED BY <1>2, <1>3 DEF PeekCache, Return

LEMMA DropOtherFits ==
  ASSUME TypeOK, Fits, DropOther
  PROVE  CallFits(store', call')
  <1> DEFINE was == call.was
  <1>1. call \in CallTypes /\ store \in Stores /\ was \in Stores /\ call.at = "drop"
    BY TypesAre DEF DropOther, CallTypes
  <1>2. /\ call'.op = call.op /\ call'.at = "publish" /\ call'.key = call.key
        /\ call'.bundle = call.bundle /\ call'.was = was
    BY <1>1 DEF DropOther, Goes, CallTypes
  <1>3. PICK kept \in BOOLEAN :
          store' = IF kept THEN store
                   ELSE IF (was.backend = "keychain") = (call.op = "switch")
                     THEN [store EXCEPT !.item = {}]
                     ELSE [store EXCEPT !.file = NoFile]
    BY DEF DropOther
  <1>4. {} \in Bundles /\ NoFile \in Files
    BY Parts DEF Bundles
  <1>5. ASSUME call.op = "erase" PROVE Same(store', Erased(was, kept))
    <2>1. Same(store, ErasedActive(was))
      BY <1>1, <1>5 DEF Fits, CallFits, EraseFits
    <2>2. CASE was.backend = "keychain"
      <3>1. store' = IF kept THEN store ELSE [store EXCEPT !.file = NoFile]
        BY <1>3, <1>5, <2>2
      <3>2. QED BY <1>1, <1>4, <2>1, <2>2, <3>1, StoresIs DEF Same, Erased, ErasedActive
    <2>3. CASE was.backend # "keychain"
      <3>1. store' = IF kept THEN store ELSE [store EXCEPT !.item = {}]
        BY <1>3, <1>5, <2>3
      <3>2. QED BY <1>1, <1>4, <2>1, <2>3, <3>1, StoresIs DEF Same, Erased, ErasedActive
    <2>4. QED BY <2>2, <2>3
  <1>6. ASSUME call.op = "switch" PROVE Same(store', Switched(was, call.key, kept))
    <2>1. Same(store, Switched(was, call.key, TRUE)) /\ call.bundle = Moved(was)
      BY <1>1, <1>6 DEF Fits, CallFits, SwitchFits
    <2>2. call.key \in Keys /\ call.bundle \in Bundles
      BY <1>1 DEF CallTypes
    <2>3. CASE was.backend = "keychain"
      <3> DEFINE t == Flipped(ToVaultCopy(was, call.key, Moved(was)), call.key)
      <3>1. store' = IF kept THEN store ELSE [store EXCEPT !.item = {}]
        BY <1>3, <1>6, <2>3
      <3>2. t \in Stores
        BY <1>1, <2>1, <2>2, Changes
      <3>3. \A k \in BOOLEAN : Switched(was, call.key, k) =
               [t EXCEPT !.item = IF k THEN @ ELSE {}, !.cache = Warm(Moved(was))]
        BY <2>3 DEF Switched, SwitchedToVault
      <3> HIDE DEF t
      <3>4. QED BY <1>1, <1>4, <2>1, <3>1, <3>2, <3>3, StoresIs DEF Same
    <2>4. CASE was.backend # "keychain"
      <3> DEFINE t == ToKeychain(ToKeychainCopy(was, Moved(was)))
      <3>1. store' = IF kept THEN store ELSE [store EXCEPT !.file = NoFile]
        BY <1>3, <1>6, <2>4
      <3>2. t \in Stores
        BY <1>1, <2>1, <2>2, Changes
      <3>3. \A k \in BOOLEAN : Switched(was, call.key, k) =
               [t EXCEPT !.file = IF k THEN @ ELSE NoFile, !.cache = Warm(Moved(was))]
        BY <2>4 DEF Switched, SwitchedToKeychain
      <3> HIDE DEF t
      <3>4. QED BY <1>1, <1>4, <2>1, <3>1, <3>2, <3>3, StoresIs DEF Same
    <2>5. QED BY <2>3, <2>4
  <1>7. call.op \in {"erase", "switch"}
    BY <1>1 DEF Fits, CallFits, Stages, Free
  <1>8. CASE call.op = "erase"
    <2>1. call.bundle = {}
      BY <1>8 DEF Fits, CallFits, EraseFits
    <2>2. QED BY <1>2, <1>5, <1>8, <2>1 DEF CallFits, Stages, StoreFits, EraseFits,
                 UnlockFits, PassphraseFits, SwitchFits
  <1>9. CASE call.op = "switch"
    <2>1. call.key \in NewFor(was) /\ Moves(was) /\ call.bundle = Moved(was)
      BY <1>1, <1>9 DEF Fits, CallFits, SwitchFits
    <2>2. QED BY <1>2, <1>6, <1>9, <2>1 DEF CallFits, Stages, StoreFits, EraseFits,
                 UnlockFits, PassphraseFits, SwitchFits
  <1>10. QED BY <1>7, <1>8, <1>9

LEMMA CallStepFits ==
  ASSUME TypeOK, Fits, CallStep
  PROVE  CallFits(store', call')
  <1>1. CASE SealBundle \/ FailSave \/ Publish
    BY <1>1, FreeFits DEF SealBundle, FailSave, Publish, Return
  <1>2. QED BY <1>1, SaveBundleFits, CopyBundleFits, EraseActiveFits, FlipFits,
               PeekCacheFits, DropOtherFits DEF CallStep

\* No file is ever sealed without a key.
LEMMA FilesFit ==
  ASSUME TypeOK, Fits, Next
  PROVE  FileFits(store')
  <1>1. store \in Stores /\ call \in CallTypes /\ FileFits(store)
    BY TypesAre DEF Fits
  <1>2. ASSUME store'.file = store.file PROVE FileFits(store')
    BY <1>1, <1>2 DEF FileFits
  <1>3. ASSUME NEW k, NEW b, k # 0, store'.file = Sealed(k, b) PROVE FileFits(store')
    BY <1>3 DEF FileFits, Sealed
  <1>4. ASSUME store'.file = NoFile PROVE FileFits(store')
    BY <1>4 DEF FileFits
  <1>5. CASE SaveBundle
    BY <1>1, <1>2, <1>3, <1>5, StoresIs DEF SaveBundle, Saved, Saves, Backends
  <1>6. CASE CopyBundle
    <2>1. call.key \in NewFor(store)
      BY <1>6 DEF Fits, CallFits, SwitchFits, CopyBundle
    <2>2. call.key # 0
      BY <2>1, KeyAssumption DEF KeyAssumption, NewFor
    <2>3. QED BY <1>1, <1>2, <1>3, <1>6, <2>2, StoresIs DEF CopyBundle, ToVaultCopy,
                 ToKeychainCopy
  <1>7. CASE SealBundle
    <2>1. call.key \in NewFor(call.was) /\ Same(store, Flipped(call.was, call.key))
      BY <1>7 DEF Fits, CallFits, PassphraseFits, SealBundle, Rekeyable
    <2>2. call.key # 0
      BY <2>1, KeyAssumption DEF KeyAssumption, NewFor
    <2>3. call.was \in Stores
      BY <1>1 DEF CallTypes
    <2>4. store.key = call.key
      BY <2>1, <2>3, StoresIs DEF Same, Flipped
    <2>5. QED BY <1>1, <1>2, <1>3, <1>7, <2>2, <2>4, StoresIs DEF SealBundle, Saved
  <1>8. CASE EraseActive
    BY <1>1, <1>2, <1>4, <1>8, StoresIs, Parts DEF EraseActive
  <1>9. CASE DropOther
    BY <1>1, <1>2, <1>4, <1>9, StoresIs DEF DropOther
  <1>10. CASE Flip
    BY <1>1, <1>2, <1>10, StoresIs DEF Flip, Flipped, ToKeychain
  <1>11. CASE FailSave \/ PeekCache \/ Publish
    BY <1>1, <1>2, <1>11, StoresIs DEF FailSave, PeekCache, Publish, Cached
  <1>12. CASE FetchStep \/ Forget
    BY <1>1, <1>2, <1>12, StoresIs DEF FetchStep, FetchLoad, FillCache, FailLoad, Forget,
       Cached, Forgotten
  <1>13. ASSUME NEW p, LoadStep(p) PROVE FileFits(store')
    BY <1>1, <1>13 DEF LoadStep, HitCache, BeginLoad
  <1>14. CASE Begin
    BY <1>1, <1>14, BeginFits
  <1>15. QED BY <1>5, <1>6, <1>7, <1>8, <1>9, <1>10, <1>11, <1>12, <1>13, <1>14
                DEF Next, CallStep

LEMMA LoadIdle == \A s, c : LoadFits(s, c, NoLoad)
  BY DEF LoadFits

\* A load begins on the store as it is; a vault key that is being set is in it already.
LEMMA BeginLoadFits ==
  ASSUME TypeOK, Fits, NEW p \in Readers \union {Guard}, BeginLoad(p)
  PROVE  LoadFits(store, call, load')
  <1>1. load'.by = p /\ load'.backend = store.backend /\ load'.key = store.key
        /\ load'.got = Cold /\ ~load'.got.full
    BY Parts DEF BeginLoad
  <1>2. p # Nobody /\ (p = Guard => call.at = "load")
    BY ThreadAssumption DEF ThreadAssumption, BeginLoad, Wants
  <1>3. Reads(load', store)
    BY <1>1 DEF Reads
  <1>4. ASSUME Rekeying(call) PROVE load'.backend = "vault" /\ load'.key = call.key
    <2>1. Same(store, Flipped(call.was, call.key)) /\ call.was \in Stores
      BY <1>4, TypesAre DEF Rekeying, Fits, CallFits, PassphraseFits, CallTypes
    <2>2. QED BY <1>1, <2>1, StoresIs DEF Same, Flipped
  <1>5. QED BY <1>1, <1>2, <1>3, <1>4 DEF LoadFits, BeginLoad

LEMMA BeforeParts ==
  ASSUME TypeOK
  PROVE  /\ Before(store, call) \in Stores
         /\ Before(store, call).backend = call.was.backend
         /\ Before(store, call).key = call.was.key
         /\ Before(store, call).item = store.item
         /\ Before(store, call).file = store.file
         /\ Before(store, call).cache = store.cache
  <1>1. store \in Stores /\ call.was.backend \in Backends /\ call.was.key \in Keys
    BY TypesAre, StoresIs DEF CallTypes
  <1>2. QED BY <1>1, StoresIs DEF Before

\* What the backend answers is what the store holds, or nothing.
LEMMA FetchReads ==
  ASSUME TypeOK, NEW s \in Stores, s.item = store.item, s.file = store.file,
         Reads(load, s), FetchLoad
  PROVE  Reads(load', s)
  <1>1. load \in LoadTypes /\ load'.backend = load.backend /\ load'.key = load.key
    BY TypesAre DEF FetchLoad, LoadTypes
  <1>2. PICK b \in Answers : load' = [load EXCEPT !.got = Warm(b)]
    BY DEF FetchLoad
  <1>3. load'.got.held = b
    BY <1>1, <1>2 DEF LoadTypes, Warm
  <1>4. Opens(s) /\ (b = Held(s) \/ (s.backend = "keychain" /\ b = {}))
    <2>1. load.backend = s.backend /\ load.key = s.key
      BY DEF Reads
    <2>2. CASE s.backend = "keychain"
      BY <1>2, <2>1, <2>2 DEF Answers, Opens, Held
    <2>3. CASE s.backend # "keychain"
      BY <1>2, <2>1, <2>3 DEF Answers, Opens, Held
    <2>4. QED BY <2>2, <2>3
  <1>5. QED BY <1>1, <1>3, <1>4 DEF Reads

LEMMA FetchLoadFits ==
  ASSUME TypeOK, Fits, FetchLoad
  PROVE  LoadFits(store, call, load')
  <1>1. load \in LoadTypes /\ call \in CallTypes /\ store \in Stores /\ LoadFits(store, call, load)
        /\ load # NoLoad
    BY TypesAre DEF Fits, FetchLoad
  <1>2. PICK b \in Answers : load' = [load EXCEPT !.got = Warm(b)]
    BY DEF FetchLoad
  <1>3. load'.by = load.by /\ load'.backend = load.backend /\ load'.key = load.key
        /\ load'.got.held = b
    BY <1>1, <1>2 DEF LoadTypes, Warm
  <1>4. ~HalfWay(call) /\ ~Rekeying(call) => Reads(load', store)
    BY <1>1, FetchReads DEF LoadFits
  <1>5. ASSUME Rekeying(call), Reads(load, Before(store, call))
        PROVE  Reads(load', Before(store, call))
    BY <1>5, BeforeParts, FetchReads
  <1>6. ASSUME Rekeying(call), load.backend = "vault", load.key = call.key
        PROVE  b = {} /\ store.file.key = 0
    <2>1. /\ call.key \in NewFor(call.was) /\ call.was \in Stores
          /\ Same(store, Flipped(call.was, call.key))
      BY <1>1, <1>6 DEF Rekeying, Fits, CallFits, PassphraseFits, Rekeyable, CallTypes
    <2>2. store.file = call.was.file
      BY <2>1, StoresIs DEF Same, Flipped
    <2>3. store.file.key # load.key
      BY <1>6, <2>1, <2>2 DEF NewFor
    <2>4. store.file.key = 0 => store.file.held = {}
      BY DEF Fits, FileFits, NoFile
    <2>5. QED BY <1>2, <1>6, <2>3, <2>4 DEF Answers
  <1>7. QED BY <1>1, <1>3, <1>4, <1>5, <1>6 DEF LoadFits

\* A step of the call leaves a load under way alone, and lets it see what it may see.
LEMMA CallStepLoadFits ==
  ASSUME TypeOK, Fits, CallStep
  PROVE  LoadFits(store', call', load')
  <1>1. load \in LoadTypes /\ call \in CallTypes /\ store \in Stores /\ LoadFits(store, call, load)
        /\ load' = load
    BY TypesAre DEF Fits, CallStep, SaveBundle, CopyBundle, SealBundle, EraseActive, FailSave,
       Flip, PeekCache, DropOther, Publish
  <1>2. CASE load = NoLoad
    BY <1>1, <1>2, LoadIdle
  <1>3. ASSUME load # NoLoad PROVE LoadFits(store', call', load)
    <2>1. load.by # Nobody /\ load.by # Guard /\ ~store.cache.full
      BY <1>1, <1>3 DEF LoadFits, CallStep, SaveBundle, CopyBundle, SealBundle, EraseActive,
         FailSave, Flip, PeekCache, DropOther, Publish
    <2>2. ASSUME store'.cache = store.cache, HalfWay(call') PROVE LoadFits(store', call', load)
      BY <2>1, <2>2 DEF LoadFits, HalfWay, Rekeying
    <2>3. CASE SaveBundle
      BY <2>1, <2>3 DEF SaveBundle, Fits, CallFits, StoreFits
    <2>4. CASE CopyBundle
      <3>1. call'.at = "flip" /\ call'.op = "switch"
        BY <1>1, <2>4 DEF CopyBundle, CallTypes
      <3>2. store'.cache = store.cache
        BY <1>1, <2>4, StoresIs DEF CopyBundle, ToVaultCopy, ToKeychainCopy
      <3>3. QED BY <2>2, <3>1, <3>2 DEF HalfWay
    <2>5. CASE SealBundle
      BY <2>1, <2>5 DEF SealBundle, Fits, CallFits, PassphraseFits, Reseals
    <2>6. CASE EraseActive
      <3>1. call'.at = "drop"
        BY <1>1, <2>6 DEF EraseActive, CallTypes
      <3>2. store'.cache = store.cache
        BY <1>1, <2>6, StoresIs DEF EraseActive
      <3>3. QED BY <2>2, <3>1, <3>2 DEF HalfWay
    <2>7. CASE FailSave
      <3>1. call.op # "passphrase"
        BY <2>1, <2>7 DEF FailSave, Fits, CallFits, PassphraseFits, Reseals
      <3>2. ~HalfWay(call) /\ ~Rekeying(call)
        BY <2>7, <3>1 DEF FailSave, HalfWay, Rekeying
      <3>3. Reads(load, store) /\ store' = store /\ call' = Free
        BY <1>1, <1>3, <2>7, <3>2 DEF LoadFits, FailSave, Return
      <3>4. QED BY <2>1, <3>3 DEF LoadFits, Rekeying, Free
    <2>8. CASE Flip
      <3>1. CASE call.op = "unlock"
        <4>1. call'.at = "publish"
          BY <1>1, <2>8, <3>1 DEF Flip, CallTypes
        <4>2. store'.cache = store.cache
          BY <1>1, <2>8, <3>1, StoresIs DEF Flip
        <4>3. QED BY <2>2, <4>1, <4>2 DEF HalfWay
      <3>2. CASE call.op = "switch"
        <4>1. call'.at = "drop"
          BY <1>1, <2>8, <3>2 DEF Flip, Goes, CallTypes
        <4>2. store'.cache = store.cache
          BY <1>1, <2>8, <3>2, StoresIs DEF Flip, Flipped, ToKeychain
        <4>3. QED BY <2>2, <4>1, <4>2 DEF HalfWay
      <3>3. CASE call.op = "passphrase"
        <4>1. call'.at = "peek" /\ call'.op = "passphrase" /\ call'.was = store
          BY <1>1, <2>8, <3>3 DEF Flip, CallTypes
        <4>2. store' = Flipped(store, call.key)
          BY <2>8, <3>3 DEF Flip
        <4>3. call.key \in Keys /\ store.backend \in Backends /\ store.key \in Keys
          BY <1>1, StoresIs DEF CallTypes
        <4>4. /\ Before(store', call').backend = store.backend
              /\ Before(store', call').key = store.key
              /\ Before(store', call').item = store.item
              /\ Before(store', call').file = store.file
              /\ store'.cache = store.cache
          BY <1>1, <4>1, <4>2, <4>3, StoresIs DEF Before, Flipped
        <4>5. Reads(load, store)
          BY <1>1, <1>3, <2>8, <3>3 DEF LoadFits, Flip, HalfWay, Rekeying
        <4>6. Reads(load, Before(store', call'))
          BY <4>4, <4>5 DEF Reads, Opens, Held
        <4>7. QED BY <2>1, <4>1, <4>4, <4>6 DEF LoadFits, HalfWay, Rekeying
      <3>4. QED BY <2>8, <3>1, <3>2, <3>3 DEF Flip
    <2>9. CASE PeekCache \/ Publish
      BY <1>3, <2>9 DEF PeekCache, Publish
    <2>10. CASE DropOther
      <3>1. call'.at = "publish"
        BY <1>1, <2>10 DEF DropOther, Goes, CallTypes
      <3>2. store'.cache = store.cache
        BY <1>1, <2>10, StoresIs DEF DropOther
      <3>3. QED BY <2>2, <3>1, <3>2 DEF HalfWay
    <2>11. QED BY <2>3, <2>4, <2>5, <2>6, <2>7, <2>8, <2>9, <2>10 DEF CallStep
  <1>4. QED BY <1>1, <1>2, <1>3

LEMMA BeginLoadsFit ==
  ASSUME TypeOK, Fits, Begin
  PROVE  LoadFits(store', call', load')
  <1>1. LoadFits(store, call, load) /\ store' = store
    BY BeginFits DEF Fits
  <1>2. ASSUME call = Free, load' = load, ~Rekeying(call') PROVE LoadFits(store', call', load')
    BY <1>1, <1>2 DEF LoadFits, HalfWay, Rekeying, Free
  <1>3. ASSUME NEW op, NEW at, NEW ks, NEW k, Take(op, at, ks, k),
               op = "passphrase" => at = "flip"
        PROVE  LoadFits(store', call', load')
    BY <1>2, <1>3 DEF Take, Rekeying
  <1>4. ASSUME NEW r \in Readers, BeginRead(r) PROVE LoadFits(store', call', load')
    BY <1>1, <1>4 DEF BeginRead
  <1>5. QED BY <1>3, <1>4 DEF Begin, BeginStore, BeginDelete, BeginErase, BeginUnlock,
               BeginPassphrase, BeginSwitch

LEMMA FillCacheFits ==
  ASSUME TypeOK, Fits, FillCache
  PROVE  /\ CallFits(store', call')
         /\ \/ call' = call /\ load.by # Guard
            \/ /\ call.at = "load"
               /\ (call'.at = "save" /\ call'.op # "passphrase") \/ call' = Free
  <1>1. store \in Stores /\ call \in CallTypes /\ load \in LoadTypes
    BY TypesAre
  <1>2. load.got.held \in Bundles
    BY <1>1 DEF LoadTypes, Caches
  <1>3. /\ store' \in Stores /\ Same(store, store')
        /\ store'.cache.full /\ store'.cache.held = load.got.held
    BY <1>1, <1>2, Parts, WithField DEF FillCache, Cached, Same
  <1>4. load # NoLoad /\ ~store.cache.full /\ (load.by = Guard => call.at = "load")
    BY Parts DEF FillCache, Fits, LoadFits, NoLoad
  <1>5. CASE load.by = Guard
    BY <1>1, <1>3, <1>4, <1>5, GuardFits DEF Fits, FillCache
  <1>6. CASE load.by # Guard
    <2>1. call' = call
      BY <1>6 DEF FillCache, WithBundle
    <2>2. CallFits(store, call)
      BY DEF Fits
    <2>3. CallFits(store', call)
      BY <1>1, <1>3, <1>4, <2>2, FillFits
    <2>4. QED BY <1>6, <2>1, <2>3
  <1>7. QED BY <1>5, <1>6

LEMMA LoadStepFits ==
  ASSUME TypeOK, Fits, NEW p \in Readers \union {Guard}, LoadStep(p)
  PROVE  CallFits(store', call') /\ LoadFits(store', call', load')
  <1>1. store \in Stores /\ call \in CallTypes
    BY TypesAre
  <1>2. CASE BeginLoad(p)
    BY <1>2, BeginLoadFits DEF BeginLoad, Fits
  <1>3. CASE HitCache(p)
    <2>1. store' = store /\ load' = NoLoad /\ WithBundle(p, store.cache.held)
          /\ store.cache.full
      BY <1>3 DEF HitCache
    <2>2. CASE p # Guard
      BY <2>1, <2>2, LoadIdle DEF WithBundle, Fits
    <2>3. CASE p = Guard
      <3>1. call.at = "load" /\ Same(store, store)
        BY <1>3, <2>3 DEF HitCache, Wants, Same
      <3>2. QED BY <1>1, <2>1, <2>3, <3>1, GuardFits, LoadIdle DEF Fits
    <2>4. QED BY <2>2, <2>3
  <1>4. QED BY <1>2, <1>3 DEF LoadStep

LEMMA FetchStepFits ==
  ASSUME TypeOK, Fits, FetchStep
  PROVE  CallFits(store', call') /\ LoadFits(store', call', load')
  <1>1. CASE FetchLoad
    BY <1>1, FetchLoadFits DEF FetchLoad, Fits
  <1>2. CASE FillCache
    BY <1>2, FillCacheFits, LoadIdle DEF FillCache
  <1>3. CASE FailLoad
    BY <1>3, FreeFits, LoadIdle DEF FailLoad, WithoutBundle, Return, Fits
  <1>4. QED BY <1>1, <1>2, <1>3 DEF FetchStep

LEMMA InitFits == Init => Fits
  <1> SUFFICES ASSUME Init PROVE Fits
    OBVIOUS
  <1>1. FileFits(store)
    <2>1. store.file = NoFile \/ store.file.key = 1
      BY DEF Init, Sealed
    <2>2. QED BY <2>1 DEF FileFits
  <1>2. QED BY <1>1, FreeFits, LoadIdle DEF Init, Fits

LEMMA NextFits == TypeOK /\ Fits /\ [Next]_vars => Fits'
  <1> SUFFICES ASSUME TypeOK, Fits, [Next]_vars PROVE Fits'
    OBVIOUS
  <1>1. CASE UNCHANGED vars
    BY <1>1 DEF vars, Fits
  <1>2. CASE Next
    <2>1. CallFits(store', call') /\ LoadFits(store', call', load')
      <3>1. CASE Begin
        BY <3>1, BeginFits, BeginLoadsFit
      <3>2. CASE Forget
        BY <3>2, FreeFits, LoadIdle DEF Forget
      <3>3. QED BY <1>2, <3>1, <3>2, LoadStepFits, FetchStepFits, CallStepFits,
                   CallStepLoadFits DEF Next
    <2>2. QED BY <1>2, <2>1, FilesFit DEF Fits
  <1>3. QED BY <1>1, <1>2

LEMMA AlwaysFits == Spec => [](TypeOK /\ Fits)
  <1>1. Init => TypeOK /\ Fits
    BY InitTyped, InitFits
  <1>2. TypeOK /\ Fits /\ [Next]_vars => TypeOK' /\ Fits'
    BY NextTyped, NextFits
  <1>3. QED BY <1>1, <1>2, PTL DEF Spec


-----------------------------------------------------------------------------
(* The refinement.                                                         *)

-----------------------------------------------------------------------------
(* The atomic calls, from a store s to a store t.                          *)

LoadsTo(s, t) ==
  /\ ~s.cache.full
  /\ Opens(s)
  /\ t = Cached(s, Held(s)) \/ (s.backend = "keychain" /\ t = Cached(s, {}))

StoresTo(s, t) == \E ks \in Bundles : /\ s.cache.full /\ Saves(s)
                                      /\ t = Written(s, Bundle(s) \union ks)
DeletesTo(s, t) == \E ks \in Bundles : /\ s.cache.full /\ Saves(s)
                                       /\ t = Written(s, Bundle(s) \ ks)
ErasesTo(s, t) == \E kept \in BOOLEAN : t = Erased(s, kept)
UnlocksTo(s, t) == Unlocks(s) /\ t = Unlocked(s)

PassphrasesTo(s, t) ==
  \E k \in NewFor(s) :
    \/ t \in {Passphrased(s, k), Flipped(s, k)}
    \/ /\ ~s.cache.full /\ s.backend = "keychain"
       /\ t \in {Passphrased(Cached(s, {}), k), Flipped(Cached(s, {}), k)}

SwitchesTo(s, t) ==
  /\ Moves(s)
  /\ \E kept \in BOOLEAN :
       \/ s.backend = "keychain" /\ \E k \in NewFor(s) : t = SwitchedToVault(s, k, kept)
       \/ s.backend = "vault" /\ t = SwitchedToKeychain(s, kept)

StepsTo(s, t) ==
  \/ LoadsTo(s, t) \/ t = Forgotten(s) \/ StoresTo(s, t) \/ DeletesTo(s, t)
  \/ ErasesTo(s, t) \/ UnlocksTo(s, t) \/ PassphrasesTo(s, t) \/ SwitchesTo(s, t)

MayStepTo(s, t) == t = s \/ StepsTo(s, t)

\* These are the actions of AtomicSecretStore.
LEMMA AtomicSteps == StepsTo(Settled, Settled') => Atomic!Next
  <1> SUFFICES ASSUME StepsTo(Settled, Settled') PROVE Atomic!Next
    OBVIOUS
  <1> DEFINE s == Settled
             t == Settled'
  <1>1. ASSUME LoadsTo(s, t) PROVE Atomic!Load
    BY <1>1 DEF LoadsTo, Atomic!Load, Opens, Cached, Held, Warm, Atomic!Opens, Atomic!Cached,
       Atomic!Held, Atomic!Warm
  <1>2. ASSUME t = Forgotten(s) PROVE Atomic!Forget
    BY <1>2 DEF Forgotten, Cold, Atomic!Forget, Atomic!Forgotten, Atomic!Cold
  <1>3. ASSUME StoresTo(s, t) PROVE \E ks \in SUBSET Secrets : Atomic!Store(ks)
    BY <1>3 DEF StoresTo, Atomic!Store, Bundles, Saves, Written, Bundle, Held, Saved, Cached,
       Sealed, Warm, Atomic!Saves, Atomic!Written, Atomic!Bundle, Atomic!Held, Atomic!Saved,
       Atomic!Cached, Atomic!Sealed, Atomic!Warm
  <1>4. ASSUME DeletesTo(s, t) PROVE \E ks \in SUBSET Secrets : Atomic!Delete(ks)
    BY <1>4 DEF DeletesTo, Atomic!Delete, Bundles, Saves, Written, Bundle, Held, Saved, Cached,
       Sealed, Warm, Atomic!Saves, Atomic!Written, Atomic!Bundle, Atomic!Held, Atomic!Saved,
       Atomic!Cached, Atomic!Sealed, Atomic!Warm
  <1>5. ASSUME ErasesTo(s, t) PROVE Atomic!Erase
    BY <1>5 DEF ErasesTo, Erased, NoFile, Warm, Atomic!Erase, Atomic!Erased, Atomic!NoFile,
       Atomic!Warm
  <1>6. ASSUME UnlocksTo(s, t) PROVE Atomic!Unlock
    BY <1>6 DEF UnlocksTo, Unlocks, Unlocked, Warm, Atomic!Unlock, Atomic!Unlocks,
       Atomic!Unlocked, Atomic!Warm
  <1>7. ASSUME PassphrasesTo(s, t) PROVE Atomic!SetPassphrase
    <2>1. PICK k \in NewFor(s) :
            \/ t \in {Passphrased(s, k), Flipped(s, k)}
            \/ /\ ~s.cache.full /\ s.backend = "keychain"
               /\ t \in {Passphrased(Cached(s, {}), k), Flipped(Cached(s, {}), k)}
      BY <1>7 DEF PassphrasesTo
    <2>2. k \in Atomic!NewKey
      BY DEF NewFor, Atomic!NewKey
    <2>3. \A x : /\ Passphrased(x, k) = Atomic!Passphrased(x, k)
                 /\ Flipped(x, k) = Atomic!Flipped(x, k)
      BY DEF Passphrased, Flipped, Reseals, Saved, Sealed, Atomic!Passphrased, Atomic!Flipped,
         Atomic!Reseals, Atomic!Saved, Atomic!Sealed
    <2>4. Cached(s, {}) = Atomic!Cached(s, {})
      BY DEF Cached, Warm, Atomic!Cached, Atomic!Warm
    <2>5. QED BY <2>1, <2>2, <2>3, <2>4 DEF Atomic!SetPassphrase
  <1>8. ASSUME SwitchesTo(s, t) PROVE Atomic!SwitchBackend
    <2>1. Moves(s) = Atomic!Moves(s) /\ Moved(s) = Atomic!Moved(s)
      BY DEF Moves, Moved, AbsentVault, LockedVault, Readable, Bundle, Opens, Held,
         Atomic!Moves, Atomic!Moved, Atomic!AbsentVault, Atomic!LockedVault, Atomic!Readable,
         Atomic!Bundle, Atomic!Opens, Atomic!Held
    <2>2. \A k, kept : SwitchedToVault(s, k, kept) = Atomic!SwitchedToVault(s, k, kept)
      BY <2>1 DEF SwitchedToVault, Flipped, ToVaultCopy, Sealed, Warm, Atomic!SwitchedToVault,
         Atomic!Flipped, Atomic!ToVaultCopy, Atomic!Sealed, Atomic!Warm
    <2>3. \A kept : SwitchedToKeychain(s, kept) = Atomic!SwitchedToKeychain(s, kept)
      BY <2>1 DEF SwitchedToKeychain, ToKeychain, ToKeychainCopy, NoFile, Warm,
         Atomic!SwitchedToKeychain, Atomic!ToKeychain, Atomic!ToKeychainCopy, Atomic!NoFile,
         Atomic!Warm
    <2>4. NewFor(s) = Atomic!NewKey
      BY DEF NewFor, Atomic!NewKey
    <2>5. QED BY <1>8, <2>1, <2>2, <2>3, <2>4 DEF SwitchesTo, Atomic!SwitchBackend
  <1>9. QED BY <1>1, <1>2, <1>3, <1>4, <1>5, <1>6, <1>7, <1>8 DEF StepsTo, Atomic!Next

-----------------------------------------------------------------------------
(* The store that the calls show, and how a step changes it.               *)

Shown == IF HalfWay(call) THEN call.was
         ELSE IF Rekeying(call) /\ StillSeals THEN Before(store, call)
         ELSE store

LEMMA SettledIs == Settled = Shown /\ Settled' = Shown'
  BY DEF Settled, Shown, HalfWay, Rekeying, Before

LEMMA SettledElsewhere ==
  /\ ~HalfWay(call) /\ ~Rekeying(call) => Settled = store
  /\ HalfWay(call) => Settled = call.was
  /\ ~HalfWay(call') /\ ~Rekeying(call') => Settled' = store'
  /\ HalfWay(call') => Settled' = call'.was
  BY SettledIs DEF Shown

\* Setting a master password: the old store shows as long as its bundle may be sealed.
LEMMA SettledRekeying ==
  ASSUME TypeOK, Fits, Rekeying(call)
  PROVE  /\ StillSeals => Settled = Before(store, call)
         /\ ~StillSeals => Settled = store
         /\ call.key \in NewFor(Before(store, call))
         /\ Before(store, call).backend = "vault" =>
              Before(store, call).key = 0 \/ store.cache.full
         /\ Flipped(Before(store, call), call.key) = store
         /\ Before(store, call) \in Stores /\ Before(store, call).cache = store.cache
         /\ store.backend = "vault" /\ store.key = call.key /\ call.key # 0
  <1> DEFINE b == Before(store, call)
  <1>1. store \in Stores /\ call \in CallTypes /\ call.was \in Stores /\ call.key \in Keys
    BY TypesAre DEF CallTypes
  <1>2. Rekeyable(call.was, store, call.key) /\ Same(store, Flipped(call.was, call.key))
    BY DEF Rekeying, Fits, CallFits, PassphraseFits
  <1>3. store.backend = "vault" /\ store.key = call.key /\ store.file = call.was.file
    BY <1>1, <1>2, StoresIs DEF Same, Flipped
  <1>4. call.key \in NewFor(b) /\ (b.backend = "vault" => b.key = 0 \/ store.cache.full)
    BY <1>2, <1>3, BeforeParts DEF Rekeyable, NewFor
  <1>5. Flipped(b, call.key) \in Stores
    BY <1>1, BeforeParts, StoresIs DEF Flipped, Backends
  <1>6. Same(Flipped(b, call.key), store) /\ Flipped(b, call.key).cache = store.cache
    BY <1>1, <1>3, BeforeParts, StoresIs DEF Same, Flipped
  <1>7. Flipped(b, call.key) = store
    BY <1>1, <1>5, <1>6, StoreEqual
  <1>8. call.key # 0
    BY <1>4, KeyAssumption DEF KeyAssumption, NewFor
  <1>9. ~HalfWay(call)
    BY DEF HalfWay, Rekeying
  <1>10. QED BY <1>3, <1>4, <1>7, <1>8, <1>9, BeforeParts, SettledIs DEF Shown

LEMMA CachedIs ==
  ASSUME NEW s \in Stores, NEW b \in Bundles
  PROVE  /\ Cached(s, b) \in Stores /\ Same(Cached(s, b), s)
         /\ Cached(s, b).cache = Warm(b) /\ Cached(s, b).cache.full
         /\ Cached(s, b).cache.held = b
  BY Parts, WithField DEF Cached, Same

\* The steps that only move a call or a reader on show nothing.
LEMMA QuietSteps ==
  ASSUME TypeOK, Fits, Begin \/ (\E p \in Readers \union {Guard} : LoadStep(p))
  PROVE  Settled' = Settled
  <1>1. CASE Begin
    <2>1. ASSUME NEW op \in Ops, NEW at \in {"load", "save", "flip"}, NEW ks, NEW k,
                 Take(op, at, ks, k), op = "passphrase" => at = "flip",
                 op = "switch" => at # "flip"
          PROVE  Settled' = Settled
      <3>1. ~HalfWay(call) /\ ~Rekeying(call) /\ ~HalfWay(call') /\ ~Rekeying(call')
        BY <2>1 DEF Take, HalfWay, Rekeying, Free
      <3>2. Settled = store /\ Settled' = store'
        BY <3>1, SettledElsewhere
      <3>3. QED BY <2>1, <3>2 DEF Take
    <2>2. ASSUME NEW r \in Readers, BeginRead(r) PROVE Settled' = Settled
      BY <2>2 DEF BeginRead, Settled, StillSeals
    <2>3. QED BY <1>1, <2>1, <2>2 DEF Begin, BeginStore, BeginDelete, BeginErase, BeginUnlock,
                 BeginPassphrase, BeginSwitch, Ops
  <1>2. ASSUME NEW p \in Readers \union {Guard}, HitCache(p) PROVE Settled' = Settled
    <2>1. CASE p # Guard
      BY <1>2, <2>1 DEF HitCache, WithBundle, Settled, StillSeals
    <2>2. CASE p = Guard
      <3>1. store \in Stores /\ call \in CallTypes /\ call.at = "load" /\ store' = store
        BY <1>2, <2>2, TypesAre DEF HitCache, Wants
      <3>2. (call'.at = "save" /\ call'.op # "passphrase") \/ call' = Free
        BY <1>2, <2>2, <3>1, GuardFits DEF HitCache, Fits, Same
      <3>4. ~HalfWay(call) /\ ~Rekeying(call) /\ ~HalfWay(call') /\ ~Rekeying(call')
        BY <3>1, <3>2 DEF HalfWay, Rekeying, Free
      <3>5. Settled = store /\ Settled' = store'
        BY <3>4, SettledElsewhere
      <3>6. QED BY <3>1, <3>5
    <2>3. QED BY <2>1, <2>2
  <1>3. ASSUME NEW p \in Readers \union {Guard}, BeginLoad(p) PROVE Settled' = Settled
    <2>1. store' = store /\ call' = call /\ load = NoLoad /\ ~store.cache.full
          /\ load'.key = store.key
      BY <1>3 DEF BeginLoad
    <2>2. ASSUME Rekeying(call) PROVE ~StillSeals /\ ~StillSeals'
      BY <2>1, <2>2, SettledRekeying DEF StillSeals, Reseals
    <2>3. HalfWay(call') = HalfWay(call) /\ Rekeying(call') = Rekeying(call)
          /\ Before(store', call') = Before(store, call)
      BY <2>1
    <2>4. CASE Rekeying(call)
      <3>1. ~HalfWay(call) /\ ~HalfWay(call')
        BY <2>3, <2>4 DEF Rekeying, HalfWay
      <3>2. Settled = store /\ Settled' = store'
        BY <2>2, <2>4, <3>1, SettledIs DEF Shown
      <3>3. QED BY <2>1, <3>2
    <2>5. CASE ~Rekeying(call)
      <3>1. ~Rekeying(call')
        BY <2>3, <2>5
      <3>2. QED BY <2>1, <2>3, <2>5, <3>1, SettledIs DEF Shown
    <2>6. QED BY <2>4, <2>5
  <1>4. QED BY <1>1, <1>2, <1>3 DEF LoadStep

\* The end of a load: the cache is filled, or was not to be filled.
LEMMA FillSteps ==
  ASSUME TypeOK, Fits, FillCache
  PROVE  MayStepTo(Settled, Settled')
  <1> DEFINE held == load.got.held
  <1>1. store \in Stores /\ call \in CallTypes /\ load \in LoadTypes /\ held \in Bundles
    BY TypesAre DEF LoadTypes, Caches
  <1>2. store' = Cached(store, held) /\ load' = NoLoad /\ load.got.full
    BY DEF FillCache
  <1>3. load # NoLoad /\ ~store.cache.full /\ LoadFits(store, call, load)
    BY Parts DEF FillCache, Fits, LoadFits, NoLoad
  <1>4. /\ CallFits(store', call')
        /\ \/ call' = call /\ load.by # Guard
           \/ /\ call.at = "load"
              /\ (call'.at = "save" /\ call'.op # "passphrase") \/ call' = Free
    BY FillCacheFits
  <1>5. CASE HalfWay(call)
    <2>1. call' = call
      BY <1>4, <1>5 DEF HalfWay
    <2>2. Settled = call.was /\ Settled' = call'.was
      BY <1>5, <2>1, SettledElsewhere
    <2>3. QED BY <2>1, <2>2 DEF MayStepTo
  <1>6. CASE ~HalfWay(call) /\ ~Rekeying(call)
    <2>1. ~HalfWay(call') /\ ~Rekeying(call')
      BY <1>4, <1>6 DEF HalfWay, Rekeying, Free
    <2>2. Settled = store /\ Settled' = store'
      BY <1>6, <2>1, SettledElsewhere
    <2>3. Opens(store) /\ (held = Held(store) \/ (store.backend = "keychain" /\ held = {}))
      BY <1>2, <1>3, <1>6 DEF LoadFits, Reads
    <2>4. LoadsTo(store, store')
      BY <1>2, <1>3, <2>3 DEF LoadsTo
    <2>5. QED BY <2>2, <2>4 DEF MayStepTo, StepsTo
  <1>7. CASE Rekeying(call)
    <2> DEFINE b == Before(store, call)
    <2>1. call' = call /\ Rekeying(call') /\ ~HalfWay(call')
      BY <1>4, <1>7 DEF Rekeying, HalfWay
    <2>2. /\ call.key \in NewFor(b) /\ (b.backend = "vault" => b.key = 0)
          /\ Flipped(b, call.key) = store /\ b \in Stores /\ b.cache = store.cache
          /\ store.backend = "vault" /\ store.key = call.key /\ call.key # 0
      BY <1>3, <1>7, SettledRekeying
    <2>3. b.backend = call.was.backend /\ b.key = call.was.key /\ b.item = store.item
          /\ b.file = store.file
      BY BeforeParts
    <2>4. /\ store' \in Stores /\ Same(store', store) /\ store'.cache.full
          /\ store'.cache.held = held /\ store'.cache = Warm(held)
      BY <1>1, <1>2, CachedIs
    <2>5. StillSeals <=> load.key # call.key
      BY <1>3 DEF StillSeals, Reseals, LoadFits
    <2>6. StillSeals' <=> held # {}
      BY <1>2, <2>4 DEF StillSeals, Reseals
    <2>7. Settled' = IF held # {} THEN Before(store', call) ELSE store'
      BY <2>1, <2>6, SettledIs DEF Shown
    <2>8. CASE Reads(load, b)
      <3>1. load.key # call.key /\ Opens(b)
            /\ (held = Held(b) \/ (b.backend = "keychain" /\ held = {}))
        BY <1>2, <2>2, <2>8 DEF Reads, NewFor
      <3>2. Settled = b
        BY <1>7, <2>5, <3>1, SettledRekeying
      <3>3. CASE held # {}
        <4>1. Settled' = Before(store', call)
          BY <2>7, <3>3
        <4>2. /\ Before(store', call) \in Stores
              /\ Before(store', call).backend = call.was.backend
              /\ Before(store', call).key = call.was.key
              /\ Before(store', call).item = store.item
              /\ Before(store', call).file = store.file
              /\ Before(store', call).cache = Warm(held)
          <5>1. call.was.backend \in Backends /\ call.was.key \in Keys
            BY <1>1, StoresIs DEF CallTypes
          <5>2. QED BY <2>4, <5>1, StoresIs DEF Before, Same
        <4>3. Before(store', call) = Cached(b, held)
          <5>1. /\ Cached(b, held) \in Stores /\ Same(Cached(b, held), b)
                /\ Cached(b, held).cache = Warm(held)
            BY <1>1, <2>2, CachedIs
          <5>2. Same(Before(store', call), Cached(b, held))
            BY <2>3, <4>2, <5>1 DEF Same
          <5>3. QED BY <4>2, <5>1, <5>2, StoreEqual
        <4>4. LoadsTo(b, Cached(b, held))
          BY <1>3, <2>2, <3>1, <3>3 DEF LoadsTo
        <4>5. QED BY <3>2, <4>1, <4>3, <4>4 DEF MayStepTo, StepsTo
      <3>4. CASE held = {}
        <4>1. Settled' = Cached(store, {})
          BY <1>2, <2>7, <3>4
        <4>2. b.backend = "keychain"
          <5>1. b.backend = "vault" => b.key # 0
            BY <3>1 DEF Opens
          <5>2. QED BY <2>2, <5>1, StoresIs DEF Backends
        <4>3. Cached(store, {}) = Flipped(Cached(b, {}), call.key)
          <5>1. {} \in Bundles
            BY DEF Bundles
          <5>2. call.key \in Keys
            BY <1>1 DEF CallTypes
          <5>3. Cached(b, {}) \in Stores /\ Same(Cached(b, {}), b)
                /\ Cached(b, {}).cache = Warm({})
            BY <2>2, <5>1, CachedIs
          <5>4. Cached(store, {}) \in Stores /\ Same(Cached(store, {}), store)
                /\ Cached(store, {}).cache = Warm({})
            BY <1>1, <5>1, CachedIs
          <5>5. /\ Flipped(Cached(b, {}), call.key) \in Stores
                /\ Flipped(Cached(b, {}), call.key).cache = Warm({})
                /\ Same(Flipped(Cached(b, {}), call.key), store)
            BY <2>2, <2>3, <5>2, <5>3, StoresIs DEF Flipped, Same, Backends
          <5>6. Same(Cached(store, {}), Flipped(Cached(b, {}), call.key))
            BY <5>4, <5>5 DEF Same
          <5>7. QED BY <5>4, <5>5, <5>6, StoreEqual
        <4>4. PassphrasesTo(b, Cached(store, {}))
          BY <1>3, <2>2, <4>2, <4>3 DEF PassphrasesTo
        <4>5. QED BY <3>2, <4>1, <4>4 DEF MayStepTo, StepsTo
      <3>5. QED BY <3>3, <3>4
    <2>9. CASE ~Reads(load, b)
      <3>1. load.key = call.key /\ held = {} /\ store.file.key = 0
        BY <1>2, <1>3, <1>7, <2>9 DEF LoadFits
      <3>2. Settled = store /\ Settled' = store'
        BY <1>7, <2>5, <2>7, <3>1, SettledRekeying
      <3>3. Opens(store) /\ Held(store) = {}
        <4>1. store.file.held = {}
          BY <3>1 DEF Fits, FileFits, NoFile
        <4>2. QED BY <2>2, <3>1, <4>1 DEF Opens, Held
      <3>4. LoadsTo(store, store')
        BY <1>2, <1>3, <3>1, <3>3 DEF LoadsTo
      <3>5. QED BY <3>2, <3>4 DEF MayStepTo, StepsTo
    <2>10. QED BY <2>8, <2>9
  <1>8. QED BY <1>5, <1>6, <1>7

\* An answer of the backend shows nothing yet.  A load that fails may be what a master
\* password waited for.
LEMMA FailSteps ==
  ASSUME TypeOK, Fits, FetchLoad \/ FailLoad
  PROVE  MayStepTo(Settled, Settled')
  <1>1. load \in LoadTypes /\ load # NoLoad /\ LoadFits(store, call, load) /\ store' = store
    BY TypesAre DEF FetchLoad, FailLoad, Fits
  <1>2. CASE FetchLoad
    <2>1. PICK b \in Answers : load' = [load EXCEPT !.got = Warm(b)]
      BY <1>2 DEF FetchLoad
    <2>2. load'.by = load.by /\ load'.key = load.key /\ load'.got.full
      BY <1>1, <2>1 DEF LoadTypes, Warm
    <2>3. load' # NoLoad
      BY <2>2, Parts DEF NoLoad
    <2>4. call' = call
      BY <1>2 DEF FetchLoad
    <2>5. StillSeals' <=> StillSeals
      BY <1>1, <2>2, <2>3, <2>4 DEF StillSeals
    <2>6. Settled' = Settled
      BY <1>1, <2>4, <2>5, SettledIs DEF Shown
    <2>7. QED BY <2>6 DEF MayStepTo
  <1>3. CASE FailLoad
    <2>1. load' = NoLoad /\ (call' = call \/ (load.by = Guard /\ call' = Free))
      BY <1>3 DEF FailLoad, WithoutBundle, Return
    <2>2. CASE HalfWay(call)
      <3>1. call' = call
        BY <1>1, <2>1, <2>2 DEF LoadFits, HalfWay
      <3>2. Settled = call.was /\ Settled' = call'.was
        BY <2>2, <3>1, SettledElsewhere
      <3>3. QED BY <3>1, <3>2 DEF MayStepTo
    <2>3. CASE ~HalfWay(call) /\ ~Rekeying(call)
      <3>1. ~HalfWay(call') /\ ~Rekeying(call')
        BY <2>1, <2>3 DEF HalfWay, Rekeying, Free
      <3>2. Settled = store /\ Settled' = store'
        BY <2>3, <3>1, SettledElsewhere
      <3>3. QED BY <1>1, <3>2 DEF MayStepTo
    <2>4. CASE Rekeying(call)
      <3>1. call' = call /\ ~HalfWay(call)
        BY <1>1, <2>1, <2>4 DEF LoadFits, HalfWay, Rekeying
      <3>2. ~StillSeals'
        BY <1>1, <2>1 DEF StillSeals, Reseals, LoadFits
      <3>3. Settled' = store
        BY <1>1, <3>1, <3>2, SettledIs DEF Shown
      <3>4. CASE ~StillSeals
        BY <2>4, <3>3, <3>4, SettledRekeying DEF MayStepTo
      <3>5. CASE StillSeals
        <4>1. Settled = Before(store, call) /\ call.key \in NewFor(Before(store, call))
              /\ Flipped(Before(store, call), call.key) = store
          BY <2>4, <3>5, SettledRekeying
        <4>2. PassphrasesTo(Settled, Settled')
          BY <3>3, <4>1 DEF PassphrasesTo
        <4>3. QED BY <4>2 DEF MayStepTo, StepsTo
      <3>6. QED BY <3>4, <3>5
    <2>5. QED BY <2>2, <2>3, <2>4
  <1>4. QED BY <1>2, <1>3

\* The steps in the middle of a call show nothing.
LEMMA MiddleSteps ==
  ASSUME TypeOK, Fits,
         SaveBundle \/ CopyBundle \/ EraseActive \/ DropOther \/ PeekCache
  PROVE  Settled' = Settled
  <1>1. call \in CallTypes
    BY TypesAre
  <1>2. CASE SaveBundle \/ CopyBundle \/ EraseActive
    <2>1. HalfWay(call') /\ call'.was = store
      BY <1>1, <1>2 DEF SaveBundle, CopyBundle, EraseActive, HalfWay, CallTypes
    <2>2. ~HalfWay(call) /\ ~Rekeying(call)
      BY <1>2 DEF SaveBundle, CopyBundle, EraseActive, HalfWay, Rekeying
    <2>3. QED BY <2>1, <2>2, SettledElsewhere
  <1>3. CASE DropOther
    <2>1. HalfWay(call) /\ HalfWay(call') /\ call'.was = call.was
      BY <1>1, <1>3 DEF DropOther, Goes, HalfWay, CallTypes
    <2>2. QED BY <2>1, SettledElsewhere
  <1>4. CASE PeekCache
    <2>1. call.op = "passphrase" /\ call.at = "peek"
      BY <1>4 DEF PeekCache, Fits, CallFits, Stages, Free
    <2>2. Rekeying(call) /\ load = NoLoad /\ load' = load /\ store' = store
      BY <1>4, <2>1 DEF PeekCache, Rekeying
    <2>3. ASSUME Reseals(store), call' = [call EXCEPT !.at = "save", !.bundle = store.cache.held]
          PROVE  Settled' = Settled
      <3>1. call'.op = "passphrase" /\ call'.at = "save" /\ call'.was = call.was
        BY <1>1, <2>1, <2>3 DEF CallTypes
      <3>2. ~HalfWay(call) /\ ~HalfWay(call') /\ Rekeying(call')
        BY <2>1, <3>1 DEF HalfWay, Rekeying
      <3>3. StillSeals /\ StillSeals'
        BY <2>2, <2>3 DEF StillSeals
      <3>4. Before(store', call') = Before(store, call)
        BY <2>2, <3>1 DEF Before
      <3>5. QED BY <2>2, <3>2, <3>3, <3>4, SettledIs DEF Shown
    <2>4. ASSUME ~Reseals(store), call' = Free PROVE Settled' = Settled
      <3>1. ~StillSeals
        BY <2>2, <2>4 DEF StillSeals
      <3>2. Settled = store
        BY <2>2, <3>1, SettledRekeying
      <3>3. ~HalfWay(call') /\ ~Rekeying(call')
        BY <2>4 DEF HalfWay, Rekeying, Free
      <3>4. QED BY <2>2, <3>2, <3>3, SettledElsewhere
    <2>5. QED BY <1>4, <2>3, <2>4 DEF PeekCache, Return
  <1>5. QED BY <1>2, <1>3, <1>4

\* The change of the backend in memory shows if no bundle is left to seal.
LEMMA FlipSteps ==
  ASSUME TypeOK, Fits, Flip
  PROVE  MayStepTo(Settled, Settled')
  <1>1. call \in CallTypes /\ store \in Stores /\ call.at = "flip"
    BY TypesAre DEF Flip
  <1>2. ASSUME call.op = "unlock", call' = [call EXCEPT !.at = "publish",
                                            !.bundle = store.file.held, !.was = store]
        PROVE  Settled' = Settled
    <2>1. HalfWay(call') /\ call'.was = store
      BY <1>1, <1>2 DEF HalfWay, CallTypes
    <2>2. ~HalfWay(call) /\ ~Rekeying(call)
      BY <1>1, <1>2 DEF HalfWay, Rekeying
    <2>3. QED BY <2>1, <2>2, SettledElsewhere
  <1>3. ASSUME call.op = "switch", call' = [call EXCEPT !.at = "drop"]
        PROVE  Settled' = Settled
    <2>1. HalfWay(call) /\ HalfWay(call') /\ call'.was = call.was
      BY <1>1, <1>3 DEF HalfWay, CallTypes
    <2>2. QED BY <2>1, SettledElsewhere
  <1>4. ASSUME call.op = "passphrase", store' = Flipped(store, call.key),
               call' = [call EXCEPT !.at = "peek", !.was = store]
        PROVE  MayStepTo(Settled, Settled')
    <2>1. call'.op = "passphrase" /\ call'.at = "peek" /\ call'.was = store
      BY <1>1, <1>4 DEF CallTypes
    <2>2. ~HalfWay(call) /\ ~Rekeying(call) /\ ~HalfWay(call') /\ Rekeying(call')
      BY <1>1, <1>4, <2>1 DEF HalfWay, Rekeying
    <2>3. Settled = store
      BY <2>2, SettledElsewhere
    <2>4. call.key \in NewFor(store)
      BY <1>1, <1>4 DEF Fits, CallFits, PassphraseFits, Rekeyable
    <2>5. PassphrasesTo(store, store')
      BY <1>4, <2>4 DEF PassphrasesTo
    <2>6. Before(store', call') = store
      <3>1. store' \in Stores /\ call.key \in Keys /\ store.backend \in Backends
            /\ store.key \in Keys
        BY <1>1, <1>4, StoresIs DEF CallTypes, Flipped, Backends
      <3>2. /\ Before(store', call') \in Stores /\ Same(Before(store', call'), store)
            /\ Before(store', call').cache = store.cache
        BY <1>1, <1>4, <2>1, <3>1, StoresIs DEF Before, Flipped, Same
      <3>3. QED BY <1>1, <3>2, StoreEqual
    <2>7. Settled' = store \/ Settled' = store'
      BY <2>2, <2>6, SettledIs DEF Shown
    <2>8. QED BY <2>3, <2>5, <2>7 DEF MayStepTo, StepsTo
  <1>5. QED BY <1>2, <1>3, <1>4 DEF Flip, Goes, MayStepTo

\* A master password is set: the bundle is sealed, or that failed.
LEMMA SealSteps ==
  ASSUME TypeOK, Fits, SealBundle \/ FailSave
  PROVE  MayStepTo(Settled, Settled')
  <1>1. call.at = "save" /\ call' = Free
    BY DEF SealBundle, FailSave, Return
  <1>2. Settled' = store'
    <2>1. ~HalfWay(call') /\ ~Rekeying(call')
      BY <1>1 DEF HalfWay, Rekeying, Free
    <2>2. QED BY <2>1, SettledElsewhere
  <1>3. CASE call.op # "passphrase"
    <2>1. store' = store
      BY <1>3 DEF SealBundle, FailSave
    <2>2. ~HalfWay(call) /\ ~Rekeying(call)
      BY <1>1, <1>3 DEF HalfWay, Rekeying
    <2>3. QED BY <1>2, <2>1, <2>2, SettledElsewhere DEF MayStepTo
  <1>4. CASE call.op = "passphrase"
    <2> DEFINE b == Before(store, call)
    <2>1. Rekeying(call) /\ Reseals(store) /\ call.bundle = store.cache.held
      BY <1>1, <1>4 DEF Rekeying, Fits, CallFits, PassphraseFits
    <2>2. /\ Settled = b /\ call.key \in NewFor(b) /\ Flipped(b, call.key) = store
          /\ b.cache = store.cache
      BY <2>1, SettledRekeying DEF StillSeals
    <2>3. Passphrased(b, call.key) = Saved(store, call.bundle)
      BY <2>1, <2>2 DEF Passphrased, Reseals
    <2>4. store' = Saved(store, call.bundle) \/ store' = store
      BY DEF SealBundle, FailSave
    <2>5. store' \in {Passphrased(b, call.key), Flipped(b, call.key)}
      BY <2>2, <2>3, <2>4
    <2>6. PassphrasesTo(b, store')
      BY <2>2, <2>5 DEF PassphrasesTo
    <2>7. QED BY <1>2, <2>2, <2>6 DEF MayStepTo, StepsTo
  <1>5. QED BY <1>3, <1>4

\* A call that publishes shows all of what it did at once.
LEMMA PublishSteps ==
  ASSUME TypeOK, Fits, Publish
  PROVE  MayStepTo(Settled, Settled')
  <1> DEFINE was == call.was
             t == Cached(store, call.bundle)
  <1>1. /\ call \in CallTypes /\ store \in Stores /\ was \in Stores /\ call.key \in Keys
        /\ call.bundle \in Bundles /\ call.keys \in Bundles /\ call.at = "publish"
    BY TypesAre DEF Publish, CallTypes
  <1>2. Settled = was /\ Settled' = t
    <2>1. HalfWay(call) /\ call' = Free /\ store' = t
      BY DEF Publish, HalfWay, Return
    <2>2. ~HalfWay(call') /\ ~Rekeying(call')
      BY <2>1 DEF HalfWay, Rekeying, Free
    <2>3. QED BY <2>1, <2>2, SettledElsewhere
  <1>3. t \in Stores /\ Same(t, store) /\ t.cache = Warm(call.bundle)
    BY <1>1, CachedIs
  <1>4. ASSUME NEW x \in Stores, Same(store, x), x.cache = Warm(call.bundle) PROVE t = x
    <2>1. Same(t, x)
      BY <1>3, <1>4 DEF Same
    <2>2. QED BY <1>3, <1>4, <2>1, StoreEqual
  <1>5. CASE call.op \in {"store", "delete"}
    <2>1. /\ was.cache.full /\ Saves(was) /\ call.bundle = Edited(call, was.cache.held)
          /\ store = Saved(was, call.bundle)
      BY <1>1, <1>5 DEF Fits, CallFits, StoreFits
    <2>2. t = Written(was, call.bundle) /\ Bundle(was) = was.cache.held
      BY <2>1 DEF Written, Bundle
    <2>3. StoresTo(was, t) \/ DeletesTo(was, t)
      BY <1>1, <1>5, <2>1, <2>2 DEF StoresTo, DeletesTo, Edited
    <2>4. QED BY <1>2, <2>3 DEF MayStepTo, StepsTo
  <1>6. CASE call.op = "erase"
    <2>1. PICK kept \in BOOLEAN : Same(store, Erased(was, kept))
      BY <1>1, <1>6 DEF Fits, CallFits, EraseFits
    <2>2. call.bundle = {}
      BY <1>6 DEF Fits, CallFits, EraseFits
    <2>3. Erased(was, kept) \in Stores
      BY <1>1, Changes
    <2>4. Erased(was, kept).cache = Warm({})
      BY <1>1, StoresIs DEF Erased
    <2>5. t = Erased(was, kept)
      BY <1>4, <2>1, <2>2, <2>3, <2>4
    <2>6. QED BY <1>2, <2>5 DEF MayStepTo, StepsTo, ErasesTo
  <1>7. CASE call.op = "unlock"
    <2>1. LockedVault(was) /\ call.bundle = was.file.held /\ Same(store, Unlocked(was))
      BY <1>1, <1>7 DEF Fits, CallFits, UnlockFits
    <2>2. Unlocked(was) \in Stores
      BY <1>1, Changes
    <2>3. Unlocked(was).cache = Warm(was.file.held)
      BY <1>1, StoresIs DEF Unlocked
    <2>4. t = Unlocked(was)
      BY <1>4, <2>1, <2>2, <2>3
    <2>5. Unlocks(was)
      BY <2>1 DEF LockedVault, Unlocks
    <2>6. QED BY <1>2, <2>4, <2>5 DEF MayStepTo, StepsTo, UnlocksTo
  <1>8. CASE call.op = "switch"
    <2>1. call.key \in NewFor(was) /\ Moves(was) /\ call.bundle = Moved(was)
      BY <1>1, <1>8 DEF Fits, CallFits, SwitchFits
    <2>2. PICK kept \in BOOLEAN : Same(store, Switched(was, call.key, kept))
      BY <1>1, <1>8 DEF Fits, CallFits, SwitchFits
    <2>3. Switched(was, call.key, kept) \in Stores
      BY <1>1, Switches DEF Switched
    <2>4. Switched(was, call.key, kept).cache = Warm(Moved(was))
      <3>1. \A x \in Stores, y, z \in Caches : [x EXCEPT !.item = y, !.cache = z].cache = z
                                              /\ [x EXCEPT !.file = y, !.cache = z].cache = z
        BY StoresIs
      <3>2. Warm(Moved(was)) \in Caches /\ Moved(was) \in Bundles
        BY <1>1, <2>1, Parts
      <3>3. Flipped(ToVaultCopy(was, call.key, Moved(was)), call.key) \in Stores
            /\ ToKeychain(ToKeychainCopy(was, Moved(was))) \in Stores
        BY <1>1, <3>2, Changes
      <3>4. QED BY <3>2, <3>3, StoresIs DEF Switched, SwitchedToVault, SwitchedToKeychain
    <2>5. t = Switched(was, call.key, kept)
      BY <1>4, <2>1, <2>2, <2>3, <2>4
    <2>6. was.backend \in Backends
      BY <1>1, StoreParts
    <2>7. SwitchesTo(was, t)
      BY <2>1, <2>5, <2>6 DEF SwitchesTo, Switched, Backends
    <2>8. QED BY <1>2, <2>7 DEF MayStepTo, StepsTo
  <1>9. call.op \in {"store", "delete", "erase", "unlock", "switch"}
    BY <1>1 DEF Fits, CallFits, Stages, Free
  <1>10. QED BY <1>5, <1>6, <1>7, <1>8, <1>9

LEMMA EveryStep ==
  ASSUME TypeOK, Fits, Next
  PROVE  MayStepTo(Settled, Settled')
  <1>1. CASE Begin \/ \E p \in Readers \union {Guard} : LoadStep(p)
    BY <1>1, QuietSteps DEF MayStepTo
  <1>2. CASE Forget
    <2>1. call = Free /\ call' = Free /\ store' = Forgotten(store)
      BY <1>2 DEF Forget
    <2>2. ~HalfWay(call) /\ ~Rekeying(call) /\ ~HalfWay(call') /\ ~Rekeying(call')
      BY <2>1 DEF HalfWay, Rekeying, Free
    <2>3. QED BY <2>1, <2>2, SettledElsewhere DEF MayStepTo, StepsTo
  <1>3. CASE FetchStep
    BY <1>3, FillSteps, FailSteps DEF FetchStep
  <1>4. CASE SaveBundle \/ CopyBundle \/ EraseActive \/ DropOther \/ PeekCache
    BY <1>4, MiddleSteps DEF MayStepTo
  <1>5. CASE CallStep
    BY <1>4, <1>5, FlipSteps, SealSteps, PublishSteps DEF CallStep
  <1>6. QED BY <1>1, <1>2, <1>3, <1>5 DEF Next

LEMMA InitAtomic == Init => Atomic!Init
  <1> SUFFICES ASSUME Init PROVE Atomic!Init
    OBVIOUS
  <1>1. Settled = store
    <2>1. ~HalfWay(call) /\ ~Rekeying(call)
      BY DEF Init, HalfWay, Rekeying, Free
    <2>2. QED BY <2>1, SettledElsewhere
  <1>2. QED BY <1>1 DEF Init, Atomic!Init, NoFile, Sealed, Cold, Atomic!NoFile, Atomic!Sealed,
               Atomic!Cold

\* Whatever threads call into keychain.rs, and however their locks are taken between each
\* other's steps, every call takes effect at one instant on the whole store: the detailed
\* model implements the abstract one.
THEOREM CallsTakeEffectAtOnce == Spec => CallsAreAtomic
  <1>1. TypeOK /\ Fits /\ [Next]_vars => [Atomic!Next]_Settled
    <2> SUFFICES ASSUME TypeOK, Fits, [Next]_vars PROVE [Atomic!Next]_Settled
      OBVIOUS
    <2>1. CASE Next
      BY <2>1, EveryStep, AtomicSteps DEF MayStepTo
    <2>2. CASE UNCHANGED vars
      BY <2>2 DEF vars, Settled, StillSeals
    <2>3. QED BY <2>1, <2>2
  <1>2. QED BY <1>1, InitAtomic, AlwaysFits, PTL DEF Spec, CallsAreAtomic, Atomic!Spec

-----------------------------------------------------------------------------
(* A promise of the atomic store, kept by each of its calls, carries over to *)
(* the detailed one through the refinement.                                *)

Current(s) ==
  (/\ s.cache.full /\ s.cache.held # {}
   /\ Opens(s)
   /\ s.backend = "vault" => s.file.key # 0)
  => s.cache.held = Held(s)

LEMMA SettledTyped == TypeOK => Settled \in Stores
  <1> SUFFICES ASSUME TypeOK PROVE Settled \in Stores
    OBVIOUS
  <1>1. store \in Stores /\ call.was \in Stores
    BY TypesAre DEF CallTypes
  <1>2. call.was.backend \in Backends /\ call.was.key \in Keys
    BY <1>1, StoreParts
  <1>3. Before(store, call) \in Stores
    BY <1>1, <1>2, StoresIs DEF Before
  <1>4. QED BY <1>1, <1>3, SettledIs DEF Shown

\* Sealing what is cached, or a key that is not the file's, keeps the promise.
LEMMA FlipsKeepCurrent ==
  ASSUME NEW s \in Stores, NEW k \in NewFor(s)
  PROVE  Current(Passphrased(s, k)) /\ Current(Flipped(s, k))
  <1>1. k \in Keys /\ k # 0 /\ k # s.file.key
    BY KeyAssumption DEF NewFor, Keys, KeyAssumption
  <1>2. /\ Flipped(s, k) \in Stores
        /\ Flipped(s, k).backend = "vault" /\ Flipped(s, k).key = k
        /\ Flipped(s, k).file = s.file /\ Flipped(s, k).cache = s.cache
    BY <1>1, StoresIs DEF Flipped, Backends
  <1>3. Current(Flipped(s, k))
    BY <1>1, <1>2 DEF Current, Opens
  <1>4. CASE Reseals(s)
    <2>1. s.cache.held \in Bundles
      BY StoreParts
    <2>2. /\ Saved(Flipped(s, k), s.cache.held).file.held = s.cache.held
          /\ Saved(Flipped(s, k), s.cache.held).backend = "vault"
          /\ Saved(Flipped(s, k), s.cache.held).cache = s.cache
      BY <1>1, <1>2, <2>1, StoresIs, Parts DEF Saved
    <2>3. QED BY <1>3, <1>4, <2>2 DEF Passphrased, Current, Held
  <1>5. QED BY <1>3, <1>4 DEF Passphrased

LEMMA CallsKeepCurrent ==
  ASSUME NEW s \in Stores, NEW t, Current(s), MayStepTo(s, t)
  PROVE  Current(t)
  <1> DEFINE b == Moved(s)
  <1>0. {} \in Bundles /\ Held(s) \in Bundles /\ Bundle(s) \in Bundles /\ b \in Bundles
    BY Changes, Parts DEF Bundles
  <1>1. CASE LoadsTo(s, t)
    <2>1. /\ Cached(s, Held(s)).cache.held = Held(s)
          /\ Same(Cached(s, Held(s)), s) /\ Cached(s, {}).cache.held = {}
      BY <1>0, CachedIs
    <2>2. QED BY <1>1, <2>1 DEF LoadsTo, Current, Same, Held
  <1>2. CASE t = Forgotten(s)
    <2>1. t.cache.full = FALSE
      BY <1>2, StoresIs, Parts DEF Forgotten
    <2>2. QED BY <2>1 DEF Current
  <1>3. CASE StoresTo(s, t) \/ DeletesTo(s, t)
    <2>1. PICK x \in Bundles : t = Written(s, x)
      BY <1>0, <1>3 DEF StoresTo, DeletesTo, Bundles
    <2>2. /\ t.cache.held = x /\ t.backend = s.backend
          /\ s.backend = "keychain" => t.item = x
          /\ s.backend # "keychain" => t.file.held = x
      BY <2>1, StoresIs, Parts DEF Written, Saved, Cached
    <2>3. QED BY <2>2 DEF Current, Held
  <1>4. CASE ErasesTo(s, t)
    <2>1. t.cache.held = {}
      BY <1>0, <1>4, StoresIs, Parts DEF ErasesTo, Erased
    <2>2. QED BY <2>1 DEF Current
  <1>5. CASE UnlocksTo(s, t)
    <2>1. s.file.held \in Bundles
      BY StoreParts
    <2>2. t.cache.held = s.file.held /\ t.backend = "vault" /\ t.file = s.file
      BY <1>5, <2>1, StoresIs, Parts DEF UnlocksTo, Unlocks, Unlocked
    <2>3. QED BY <2>2 DEF Current, Held
  <1>6. CASE PassphrasesTo(s, t)
    <2>1. PICK k \in NewFor(s) :
            \/ t \in {Passphrased(s, k), Flipped(s, k)}
            \/ t \in {Passphrased(Cached(s, {}), k), Flipped(Cached(s, {}), k)}
      BY <1>6 DEF PassphrasesTo
    <2>2. Cached(s, {}) \in Stores /\ k \in NewFor(Cached(s, {}))
      BY <1>0, CachedIs DEF NewFor, Same
    <2>3. QED BY <2>1, <2>2, FlipsKeepCurrent
  <1>7. CASE SwitchesTo(s, t)
    <2>1. PICK kept \in BOOLEAN :
            \/ s.backend = "keychain" /\ \E k \in NewFor(s) : t = SwitchedToVault(s, k, kept)
            \/ s.backend = "vault" /\ t = SwitchedToKeychain(s, kept)
      BY <1>7 DEF SwitchesTo
    <2>2. CASE s.backend = "vault"
      <3>1. t = SwitchedToKeychain(s, kept)
        BY <2>1, <2>2
      <3>2. /\ t.cache.held = b /\ t.backend = "keychain"
            /\ b # {} => t.item = b
        BY <1>0, <3>1, StoresIs, Parts DEF SwitchedToKeychain, ToKeychain, ToKeychainCopy, Backends
      <3>3. QED BY <3>2 DEF Current, Held
    <2>3. CASE s.backend = "keychain"
      <3>1. PICK k \in NewFor(s) : t = SwitchedToVault(s, k, kept)
        BY <2>1, <2>3
      <3>2. k \in Keys
        BY DEF NewFor, Keys
      <3>3. /\ t.cache.held = b /\ t.backend = "vault"
            /\ b # {} => t.file.held = b
        BY <1>0, <3>1, <3>2, StoresIs, Parts DEF SwitchedToVault, ToVaultCopy, Flipped, Backends
      <3>4. QED BY <3>3 DEF Current, Held
    <2>4. QED BY <2>1, <2>2, <2>3
  <1>8. QED BY <1>1, <1>2, <1>3, <1>4, <1>5, <1>6, <1>7 DEF MayStepTo, StepsTo

\* Between calls, a warm cache that holds anything agrees with the copy the backend
\* would read: no read that began before a write puts the old secrets back over it.
THEOREM CacheStaysCurrent == Spec => []CacheIsCurrent
  <1>1. Init => Current(Settled)
    <2> SUFFICES ASSUME Init PROVE Current(Settled)
      OBVIOUS
    <2>1. ~HalfWay(call) /\ ~Rekeying(call)
      BY DEF Init, HalfWay, Rekeying, Free
    <2>2. Settled = store /\ store.cache = Cold
      BY <2>1, SettledElsewhere DEF Init
    <2>3. QED BY <2>2, Parts DEF Current
  <1>2. TypeOK /\ Fits /\ Current(Settled) /\ [Next]_vars => Current(Settled)'
    <2> SUFFICES ASSUME TypeOK, Fits, Current(Settled), [Next]_vars PROVE Current(Settled')
      OBVIOUS
    <2>1. Settled \in Stores
      BY SettledTyped
    <2>2. MayStepTo(Settled, Settled')
      <3>1. CASE Next
        BY <3>1, EveryStep
      <3>2. CASE UNCHANGED vars
        BY <3>2 DEF vars, Settled, StillSeals, MayStepTo
      <3>3. QED BY <3>1, <3>2
    <2>3. QED BY <2>1, <2>2, CallsKeepCurrent
  <1>3. Current(Settled) => CacheIsCurrent
    <2> SUFFICES ASSUME Current(Settled), call = Free PROVE CacheIsCurrent
      BY DEF CacheIsCurrent
    <2>1. ~HalfWay(call) /\ ~Rekeying(call)
      BY DEF HalfWay, Rekeying, Free
    <2>2. Settled = store
      BY <2>1, SettledElsewhere
    <2>3. QED BY <2>2 DEF Current, CacheIsCurrent
  <1>4. QED BY <1>1, <1>2, <1>3, AlwaysFits, PTL DEF Spec

=============================================================================
