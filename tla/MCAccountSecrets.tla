------------------------- MODULE MCAccountSecrets --------------------------
\* AccountSecrets with its accounts interchangeable, followed until the first of
\* the known ways to lose secrets but one is taken.
EXTENDS AccountSecrets, TLC, FiniteSets

Unharmed == causes \subseteq {"withheld"}

\* A save that failed left the file behind the memory, or a delete that failed left
\* secrets that no entry names.
Leftover(a) ==
  \/ mem.marker[a] # disk.marker[a]
  \/ disk.marker[a] = "none" /\ ~Unused(a)

\* Between two handlers that is so for one account at most.
AtMostOneLeftover ==
  Unharmed /\ (Idle => Cardinality({a \in Accounts : Leftover(a)}) <= 1)

Interchangeable == Permutations(Accounts)
=============================================================================
