--------------------------- MODULE SearchBackfill ---------------------------
(***************************************************************************)
(* The local search index of encrypted rooms: src/rust/src/search_index.rs *)
(* (one database per account), search_backfill.rs (the worker that pages   *)
(* through the history), the live indexer, and the setting that turns it   *)
(* all off and on (matrix.rs, app_controller.cpp).                         *)
(*                                                                         *)
(* One encrypted room per account.  Its messages are numbered from the     *)
(* oldest; a page of history holds one, and a pagination token is the      *)
(* message before which it goes on, 0 for none.                            *)
(***************************************************************************)
EXTENDS Integers, SequencesExt

CONSTANTS
  Accounts,    \* the accounts of the domain
  First,       \* the first of them
  MaxMsgs,     \* messages in a room
  MaxWorkers,  \* backfill workers of an account that are told apart
  MaxToggles,  \* times the setting is changed
  MaxStarts    \* processes

ASSUME AccountAssumption == First \in Accounts
ASSUME BoundsAssumption == /\ MaxMsgs \in Nat \ {0} /\ MaxWorkers \in Nat
                           /\ MaxToggles \in Nat /\ MaxStarts \in Nat

Msgs == 1..MaxMsgs
Tokens == 0..MaxMsgs
Workers == 1..MaxWorkers

VARIABLES
  last,       \* the newest message of each room
  index,      \* the database of each account, and its connection
  worker,     \* the backfill workers
  toggles,    \* what set_e2ee_search_enabled has spawned and has not run, per account
  flag,       \* E2EE_SEARCH_ENABLED, one for the process
  saved,      \* the setting on disk
  up,         \* the process runs
  restored,   \* accounts whose session is there
  budget,     \* toggles and starts that are left
  since,      \* the newest message when the index was last emptied
  missed,     \* messages fetched since and not written, or below an empty page
  overtaken,  \* accounts whose checkpoint a worker of an older index has written
  starved     \* why an account may be without a worker, or its index not wiped

vars == <<last, index, worker, toggles, flag, saved, up, restored, budget,
          since, missed, overtaken, starved>>

Gone == [at |-> "none", from |-> 0, end |-> 0, batch |-> {}, old |-> FALSE]
Waiting == [Gone EXCEPT !.at = "wait"]

\* The two tables: messages, and backfill_checkpoints for the room.
Empty == [open |-> FALSE, rows |-> {}, token |-> 0, done |-> FALSE]

Indexes == [open : BOOLEAN, rows : SUBSET Msgs, token : Tokens, done : BOOLEAN]
Works == [at : {"none", "wait", "room", "fetch", "index", "save"}, from : Tokens,
          end : Tokens, batch : SUBSET Msgs, old : BOOLEAN]

\* The shapes of the variables; a token never leaves the room's messages.
TypeOK ==
  /\ last \in [Accounts -> Tokens]
  /\ index \in [Accounts -> Indexes]
  /\ worker \in [Accounts -> [Workers -> Works]]
  /\ toggles \in [Accounts -> Seq(BOOLEAN)]
  /\ flag \in BOOLEAN /\ saved \in BOOLEAN /\ up \in BOOLEAN
  /\ restored \subseteq Accounts
  /\ budget \in [toggles : 0..MaxToggles, starts : 0..MaxStarts]
  /\ since \in [Accounts -> Tokens] /\ missed \in [Accounts -> SUBSET Msgs]
  /\ overtaken \subseteq Accounts
  /\ starved \in [Accounts -> SUBSET {"crossed", "closed", "skipped", "kept"}]

-----------------------------------------------------------------------------
(* The database. *)

\* Of the properties' history, what a step that leaves the files alone keeps.
KeepsFiles == UNCHANGED <<since, missed, overtaken>>

\* The passes that are under way know of an index that is gone.
Aged(ws) == [w \in Workers |-> IF ws[w].at \in {"fetch", "index", "save"}
                                 THEN [ws[w] EXCEPT !.old = TRUE] ELSE ws[w]]

(* Mutant: only the messages are deleted.                                  *)
EmptiesMessages(a, ws, open) ==
  /\ index' = [index EXCEPT ![a].rows = {}, ![a].open = open]
  /\ worker' = [worker EXCEPT ![a] = Aged(ws)]
  /\ since' = [since EXCEPT ![a] = last[a]]
  /\ missed' = [missed EXCEPT ![a] = {}]
  /\ overtaken' = overtaken \ {a}

\* The files go: what the workers ws know of them is old.
Empties(a, ws, open) ==
  /\ index' = [index EXCEPT ![a] = [Empty EXCEPT !.open = open]]
  /\ worker' = [worker EXCEPT ![a] = Aged(ws)]
  /\ since' = [since EXCEPT ![a] = last[a]]
  /\ missed' = [missed EXCEPT ![a] = {}]
  /\ overtaken' = overtaken \ {a}

\* ensure_search_index_open and SearchIndex::open: an index that cannot be opened is
\* deleted and built anew, without checkpoints, or stays closed if that fails as
\* well; without its key it stays closed.
EnsureOpen(a, ws) ==
  \/ \E open \in {TRUE, index[a].open} :
       /\ index' = [index EXCEPT ![a].open = open]
       /\ worker' = [worker EXCEPT ![a] = ws]
       /\ KeepsFiles
  \/ ~index[a].open /\ \E open \in BOOLEAN : Empties(a, ws, open)

\* The session's tasks get a worker more, in the first free place.
Free(a) == {w \in Workers : worker[a][w].at = "none"}
Hired(a) == LET new == CHOOSE w \in Free(a) : \A v \in Free(a) : w <= v
            IN  [worker[a] EXCEPT ![new] = Waiting]

\* Open the index and spawn the worker, which is of no use if that failed.
Resume(a) ==
  /\ Free(a) # {}
  /\ EnsureOpen(a, Hired(a))
  /\ starved' = [starved EXCEPT ![a] = IF index'[a].open THEN {} ELSE {"closed"}]

-----------------------------------------------------------------------------
(* The process and the setting. *)

\* The flag is true when a process starts, and is then set from the settings, for
\* the account on screen first.
Launch ==
  /\ ~up
  /\ budget.starts > 0
  /\ up' = TRUE
  /\ flag' = saved
  /\ \E shown \in Accounts :
       toggles' = [a \in Accounts |-> IF a = shown /\ ~saved THEN <<FALSE>> ELSE <<>>]
  /\ budget' = [budget EXCEPT !.starts = @ - 1]
  /\ UNCHANGED <<last, index, worker, saved, restored, starved>> /\ KeepsFiles

\* restore_session and the sign-ins: the tasks of the generation before are aborted.
Restore(a) ==
  /\ up
  /\ a \notin restored
  /\ restored' = restored \union {a}
  /\ toggles' = [toggles EXCEPT ![a] = <<>>]
  /\ IF flag THEN Resume(a)
             ELSE UNCHANGED <<index, worker, starved>> /\ KeepsFiles
  /\ UNCHANGED <<last, flag, saved, up, budget>>

\* setE2eeSearchEnabledAllAccounts: one account after the other, each through
\* set_e2ee_search_enabled, which does nothing when the flag is already as asked.
Reached == {First}

Toggle ==
  /\ up
  /\ budget.toggles > 0
  /\ budget' = [budget EXCEPT !.toggles = @ - 1]
  /\ flag' = ~flag
  /\ toggles' = [a \in Accounts |-> IF a \in Reached THEN Append(toggles[a], ~flag)
                                                     ELSE toggles[a]]
  /\ starved' = [a \in Accounts |-> starved[a] \union
                   (IF a \in Reached THEN {} ELSE {"skipped"})]
  /\ UNCHANGED <<last, index, worker, saved, up, restored>> /\ KeepsFiles

\* saveSettingsDelayed.
SaveSettings ==
  /\ up
  /\ saved' = flag
  /\ UNCHANGED <<last, index, worker, toggles, flag, up, restored, budget,
                 starved>> /\ KeepsFiles

Die ==
  /\ up
  /\ up' = FALSE
  /\ index' = [a \in Accounts |-> [index[a] EXCEPT !.open = FALSE]]
  /\ worker' = [a \in Accounts |-> [w \in Workers |-> Gone]]
  /\ toggles' = [a \in Accounts |-> <<>>]
  /\ flag' = TRUE
  /\ restored' = {}
  /\ starved' = [a \in Accounts |-> {}]
  /\ UNCHANGED <<last, saved, budget>> /\ KeepsFiles

\* The spawned tasks run in any order.
Takes(a, on) ==
  \E i \in DOMAIN toggles[a] :
    /\ toggles[a][i] = on
    /\ toggles' = [toggles EXCEPT ![a] = RemoveAt(@, i)]

\* The connection is dropped and the files are deleted, under the lock; that they
\* could not be is ignored.
TurnOff(a) ==
  /\ Takes(a, FALSE)
  /\ \/ /\ Empties(a, worker[a], FALSE)
        /\ starved' = [starved EXCEPT ![a] = @ \union {"crossed"}]
     \/ /\ index' = [index EXCEPT ![a].open = FALSE]
        /\ starved' = [starved EXCEPT ![a] = @ \union {"crossed", "kept"}]
        /\ UNCHANGED worker /\ KeepsFiles
  /\ UNCHANGED <<last, flag, saved, up, restored, budget>>

\* Without a session there is nothing to do.
TurnOn(a) ==
  /\ Takes(a, TRUE)
  /\ IF a \in restored THEN Resume(a)
                       ELSE UNCHANGED <<index, worker, starved>> /\ KeepsFiles
  /\ UNCHANGED <<last, flag, saved, up, restored, budget>>

-----------------------------------------------------------------------------
(* A backfill worker. *)

Becomes(a, w, r) == worker' = [worker EXCEPT ![a][w] = r]
WorkerKeeps == UNCHANGED <<last, toggles, flag, saved, up, restored, budget, since,
                           starved>>

(* Mutant: the worker ends when the room is done.                         *)
ScanUntilDone(a, w) ==
  /\ worker[a][w].at = "wait"
  /\ Becomes(a, w, IF index[a].open /\ ~index[a].done THEN [Waiting EXCEPT !.at = "room"]
                   ELSE Gone)
  /\ WorkerKeeps /\ UNCHANGED <<index, missed, overtaken>>

\* run: every pass begins with a look at the index.  Without one the worker ends; a
\* look that fails says that the room is done.
Scan(a, w) ==
  /\ worker[a][w].at = "wait"
  /\ \E read \in BOOLEAN :
       Becomes(a, w, IF ~index[a].open THEN Gone
                     ELSE IF index[a].done \/ ~read THEN Waiting
                     ELSE [Waiting EXCEPT !.at = "room"])
  /\ WorkerKeeps /\ UNCHANGED <<index, missed, overtaken>>

\* backfill_room: from the checkpoint, if there is an index and it has one that can
\* be read.
ReadCheckpoint(a, w) ==
  /\ worker[a][w].at = "room"
  /\ \E read \in BOOLEAN :
       Becomes(a, w, [Gone EXCEPT !.at = "fetch",
                        !.from = IF index[a].open /\ read THEN index[a].token ELSE 0])
  /\ WorkerKeeps /\ UNCHANGED <<index, missed, overtaken>>

\* A checkpoint that a worker writes into an index younger than its pass.
Overtakes(a, w) ==
  overtaken' = IF index[a].open /\ worker[a][w].old THEN overtaken \union {a}
                                                    ELSE overtaken

\* mark_backfill_done, whose failure is ignored.
MarkDone(a) ==
  \E ok \in {TRUE, FALSE} :
    index' = IF ok /\ index[a].open
               THEN [index EXCEPT ![a].done = TRUE, ![a].token = 0] ELSE index

\* What a step keeps from the index of the messages that it is to have.
Misses(a, ms) ==
  missed' = [missed EXCEPT ![a] = @ \union ((ms \intersect 1..since[a]) \ index[a].rows)]

(* Mutant: a page ends one message too high.                              *)
BelowOffByOne(page) == {page + 1}

\* The end tokens of a page: with nothing below it the server may send none.
Below(page) == IF page = 1 THEN {0, 1} ELSE {page}

\* /messages fails; or answers with an empty chunk, which ends the room's history
\* whatever remains below and whatever end token comes with it; or with the page,
\* whose message may be no text, or not decrypt.
Fetch(a, w) ==
  LET r == worker[a][w]
      page == IF r.from = 0 THEN last[a] ELSE r.from - 1
  IN  /\ r.at = "fetch"
      /\ \/ /\ Becomes(a, w, Waiting)
            /\ UNCHANGED <<index, missed, overtaken>>
         \/ /\ MarkDone(a)
            /\ Overtakes(a, w)
            /\ Becomes(a, w, Waiting)
            /\ Misses(a, IF index'[a].done THEN 1..page ELSE {})
         \/ /\ page # 0
            /\ \E batch \in {{page}, {}}, end \in Below(page) :
                 /\ Becomes(a, w, [r EXCEPT !.at = "index", !.batch = batch, !.end = end])
                 /\ Misses(a, {page} \ batch)
            /\ UNCHANGED <<index, overtaken>>
      /\ WorkerKeeps

\* index_batch, on a blocking thread: a write that fails, or finds no index, is
\* logged at most.
IndexBatch(a, w) ==
  LET r == worker[a][w]
  IN  /\ r.at = "index"
      /\ \/ /\ index[a].open
            /\ index' = [index EXCEPT ![a].rows = @ \union r.batch]
            /\ UNCHANGED missed
         \/ /\ Misses(a, r.batch)
            /\ UNCHANGED index
      /\ Becomes(a, w, [r EXCEPT !.at = "save", !.batch = {}])
      /\ WorkerKeeps /\ UNCHANGED overtaken

\* The checkpoint moves on all the same, in the index that is there now; on the
\* last page the room is done.
SaveCheckpoint(a, w) ==
  LET r == worker[a][w]
  IN  /\ r.at = "save"
      /\ IF r.end = 0
           THEN MarkDone(a) /\ Becomes(a, w, Waiting)
           ELSE /\ \E ok \in {TRUE, FALSE} :
                     index' = IF ok /\ index[a].open
                                THEN [index EXCEPT ![a].token = r.end, ![a].done = FALSE]
                                ELSE index
                /\ Becomes(a, w, [r EXCEPT !.at = "fetch", !.from = r.end, !.end = 0])
      /\ Overtakes(a, w)
      /\ WorkerKeeps /\ UNCHANGED missed

-----------------------------------------------------------------------------
(* Messages, and the live indexer. *)

Arrive(a) ==
  /\ last[a] < MaxMsgs
  /\ last' = [last EXCEPT ![a] = @ + 1]
  /\ UNCHANGED <<index, worker, toggles, flag, saved, up, restored, budget,
                 starved>> /\ KeepsFiles

\* index_encrypted_messages: a resident timeline writes any of its messages.  A
\* write that fails drops the connection.
IndexLive(a) ==
  /\ a \in restored
  /\ flag
  /\ index[a].open
  /\ \/ /\ \E m \in 1..last[a] : index' = [index EXCEPT ![a].rows = @ \union {m}]
        /\ UNCHANGED starved
     \/ /\ index' = [index EXCEPT ![a].open = FALSE]
        /\ starved' = [starved EXCEPT ![a] = @ \union {"closed"}]
  /\ UNCHANGED <<last, worker, toggles, flag, saved, up, restored, budget>> /\ KeepsFiles

\* A search in all rooms opens the index, whatever the flag says (search_global).
Search(a) ==
  /\ a \in restored
  /\ ~index[a].open
  /\ EnsureOpen(a, worker[a])
  /\ UNCHANGED <<last, toggles, flag, saved, up, restored, budget, starved>>

-----------------------------------------------------------------------------
\* Rooms with a message, and no process yet.
Init ==
  /\ last = [a \in Accounts |-> 1]
  /\ index = [a \in Accounts |-> Empty]
  /\ worker = [a \in Accounts |-> [w \in Workers |-> Gone]]
  /\ toggles = [a \in Accounts |-> <<>>]
  /\ flag = TRUE /\ saved = TRUE /\ up = FALSE
  /\ restored = {}
  /\ budget = [toggles |-> MaxToggles, starts |-> MaxStarts]
  /\ since = last
  /\ missed = [a \in Accounts |-> {}]
  /\ overtaken = {}
  /\ starved = [a \in Accounts |-> {}]

WorkerStep(a, w) ==
  Scan(a, w) \/ ReadCheckpoint(a, w) \/ Fetch(a, w) \/ IndexBatch(a, w)
    \/ SaveCheckpoint(a, w)

Next ==
  \/ Launch \/ Toggle \/ SaveSettings \/ Die
  \/ \E a \in Accounts :
       \/ Restore(a) \/ TurnOff(a) \/ TurnOn(a)
       \/ Arrive(a) \/ IndexLive(a) \/ Search(a)
       \/ \E w \in Workers : WorkerStep(a, w)

Spec == Init /\ [][Next]_vars

-----------------------------------------------------------------------------
\* A room that is marked as done, which no later pass looks at again, has in its
\* index all the messages that it had when the index was made, but those whose
\* batch was fetched and not written, and those below an empty page, which is taken
\* for the end of the history; unless a worker of an earlier index wrote its
\* checkpoint into this one.
DoneMeansIndexed ==
  \A a \in Accounts \ overtaken :
    index[a].done => 1..since[a] \subseteq index[a].rows \union missed[a]

Settled(a) == a \in restored /\ toggles[a] = <<>>

\* While the setting is on, an account that is signed in has a worker, also after
\* the setting was changed back and forth; unless the index was closed under it, or
\* the two changes were carried out in the wrong order, or only for the others.
EnabledMeansIndexing ==
  \A a \in Accounts :
    flag /\ Settled(a) /\ starved[a] = {} => Free(a) # Workers

\* "Apply to EVERY account ... background accounts must run the same index wipe":
\* with the setting off, no account's index holds messages once its tasks have run,
\* but one whose files could not be deleted.
OffMeansWiped ==
  \A a \in Accounts :
    ~flag /\ Settled(a) /\ "kept" \notin starved[a] => index[a].rows = {}
=============================================================================
