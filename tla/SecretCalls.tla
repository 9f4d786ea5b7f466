---------------------------- MODULE SecretCalls ----------------------------
(***************************************************************************)
(* What each public call of src/rust/src/keychain.rs does to the secret    *)
(* store, as functions of the store.  All secrets of the device live in    *)
(* one bundle, kept by one of two backends: a single item of the operating *)
(* system's keychain, or a file sealed with a key derived from a master    *)
(* password.  A bundle is the set of the secrets it holds.                 *)
(*                                                                         *)
(* The functions say what a call does when it runs alone and to its end;   *)
(* SecretStore says how the calls interleave.                              *)
(***************************************************************************)
EXTENDS Naturals

CONSTANTS
  Secrets,   \* the keys of the bundle that the model tells apart
  MaxKey     \* vault keys derived at most; every derivation salts afresh

ASSUME KeyAssumption == MaxKey \in Nat \ {0}

\* A bundle, or nothing, in the process's cache.
Cold == [full |-> FALSE, held |-> {}]
Warm(b) == [full |-> TRUE, held |-> b]

\* The vault file, sealed under a key; key 0 is no file.  No keychain item
\* and an item holding an empty bundle read the same and are not told apart.
NoFile == [key |-> 0, held |-> {}]
Sealed(k, b) == [key |-> k, held |-> b]

Stores == [backend : {"keychain", "vault"},
           key : 0..MaxKey,                 \* the retained vault key, 0 for none
           item : SUBSET Secrets,
           file : [key : 0..MaxKey, held : SUBSET Secrets],
           cache : [full : BOOLEAN, held : SUBSET Secrets]]

Fresh == [backend |-> "keychain", key |-> 0, item |-> {}, file |-> NoFile,
          cache |-> Cold]

-----------------------------------------------------------------------------
\* load_bundle_from_store: can the active backend be read, and what it holds.
Opens(s) == s.backend = "vault" =>
              /\ s.key # 0
              /\ s.file.key \in {0, s.key}

Held(s) == IF s.backend = "keychain" THEN s.item ELSE s.file.held

\* load_bundle: a warm cache answers, whatever the backend holds.
Readable(s) == s.cache.full \/ Opens(s)
Bundle(s) == IF s.cache.full THEN s.cache.held ELSE Held(s)

Cached(s, b) == [s EXCEPT !.cache = Warm(b)]
Forgotten(s) == [s EXCEPT !.cache = Cold]

\* save_bundle_to_store: refused by a locked vault.
Saves(s) == s.backend = "vault" => s.key # 0

Saved(s, b) == IF s.backend = "keychain"
                 THEN [s EXCEPT !.item = b]
                 ELSE [s EXCEPT !.file = Sealed(s.key, b)]

\* store_bundle: what store_secrets and delete_keys_locked end in.
Written(s, b) == Cached(Saved(s, b), b)

\* clear_all_secrets_locked: the active copy goes, or the call fails; the other
\* one goes unless its removal fails (kept), which is only logged.
Erased(s, kept) ==
  IF s.backend = "keychain"
    THEN [s EXCEPT !.item = {}, !.file = IF kept THEN @ ELSE NoFile,
                   !.cache = Warm({})]
    ELSE [s EXCEPT !.file = NoFile, !.key = 0, !.item = IF kept THEN @ ELSE {},
                   !.cache = Warm({})]

\* unlock: only for a vault whose file is there.
Unlocks(s) == s.backend = "vault" /\ s.file.key # 0
Unlocked(s) == [s EXCEPT !.key = s.file.key, !.cache = Warm(s.file.held)]

\* set_passphrase: the backend and the key change before anything is sealed,
\* and only a bundle that happens to be cached is sealed at all.
Flipped(s, k) == [s EXCEPT !.backend = "vault", !.key = k]
Reseals(s) == s.cache.full /\ s.cache.held # {}
Passphrased(s, k) == IF Reseals(s) THEN Saved(Flipped(s, k), s.cache.held)
                                   ELSE Flipped(s, k)

\* switch_backend.  An absent vault moves an empty bundle, a locked one nothing.
AbsentVault(s) == s.backend = "vault" /\ s.key = 0 /\ s.file.key = 0
LockedVault(s) == s.backend = "vault" /\ s.key = 0 /\ s.file.key # 0
Moves(s) == AbsentVault(s) \/ (~LockedVault(s) /\ Readable(s))
Moved(s) == IF AbsentVault(s) THEN {} ELSE Bundle(s)

\* The target's copy is written only when there is something to write.
ToVaultCopy(s, k, b) == IF b = {} THEN s ELSE [s EXCEPT !.file = Sealed(k, b)]
ToKeychainCopy(s, b) == IF b = {} THEN s ELSE [s EXCEPT !.item = b]
ToKeychain(s) == [s EXCEPT !.backend = "keychain", !.key = 0]

\* The old copy goes once the backend has changed, unless its removal fails.
SwitchedToVault(s, k, kept) ==
  LET b == Moved(s)
      t == Flipped(ToVaultCopy(s, k, b), k)
  IN  [t EXCEPT !.item = IF kept THEN @ ELSE {}, !.cache = Warm(b)]

SwitchedToKeychain(s, kept) ==
  LET b == Moved(s)
      t == ToKeychain(ToKeychainCopy(s, b))
  IN  [t EXCEPT !.file = IF kept THEN @ ELSE NoFile, !.cache = Warm(b)]

\* init, in a new process: the copies are what the last one left.
Restarted(s, b) == [s EXCEPT !.backend = b, !.key = 0, !.cache = Cold]
=============================================================================
