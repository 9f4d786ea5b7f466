------------------------- MODULE AtomicSecretStore -------------------------
(***************************************************************************)
(* What the callers of src/rust/src/keychain.rs may rely on: every call    *)
(* takes effect at one instant, on the whole store.  A call that writes    *)
(* starts from the bundle that a read would have answered at that instant, *)
(* so no two calls lose each other's secrets.                              *)
(*                                                                         *)
(* Two things are promised to nobody.  The keychain may withhold an item   *)
(* it has, and a load then fills the cache with an empty bundle; and a     *)
(* master password may be set while no bundle is cached or the sealing     *)
(* fails, which leaves the new vault empty.                                *)
(***************************************************************************)
EXTENDS SecretCalls

VARIABLE store

\* A process starts on whatever copies the last one left, with the backend that
\* the settings name, no vault key and a cold cache.
Init == \E b \in {"keychain", "vault"}, held \in SUBSET Secrets :
          \E file \in {NoFile} \union {Sealed(1, f) : f \in SUBSET Secrets} :
            store = [backend |-> b, key |-> 0, item |-> held, file |-> file,
                     cache |-> Cold]

NewKey == (1..MaxKey) \ {store.key, store.file.key}

\* A load fills a cold cache with what the backend answers.
Load ==
  /\ ~store.cache.full
  /\ Opens(store)
  /\ \/ store' = Cached(store, Held(store))
     \/ store.backend = "keychain" /\ store' = Cached(store, {})

Forget == store' = Forgotten(store)

Store(ks) ==
  /\ store.cache.full
  /\ Saves(store)
  /\ store' = Written(store, Bundle(store) \union ks)

Delete(ks) ==
  /\ store.cache.full
  /\ Saves(store)
  /\ store' = Written(store, Bundle(store) \ ks)

Erase == \E kept \in BOOLEAN : store' = Erased(store, kept)

Unlock == Unlocks(store) /\ store' = Unlocked(store)

\* A load that was under way may end first; the sealing may fail.
SetPassphrase ==
  \E k \in NewKey : \E s \in {store} \union
      (IF ~store.cache.full /\ store.backend = "keychain"
         THEN {Cached(store, {})} ELSE {}) :
    store' \in {Passphrased(s, k), Flipped(s, k)}

SwitchBackend ==
  /\ Moves(store)
  /\ \E kept \in BOOLEAN :
       \/ /\ store.backend = "keychain"
          /\ \E k \in NewKey : store' = SwitchedToVault(store, k, kept)
       \/ /\ store.backend = "vault"
          /\ store' = SwitchedToKeychain(store, kept)

Next ==
  \/ Load \/ Forget \/ Erase \/ Unlock \/ SetPassphrase \/ SwitchBackend
  \/ \E ks \in SUBSET Secrets : Store(ks) \/ Delete(ks)

Spec == Init /\ [][Next]_store
=============================================================================
