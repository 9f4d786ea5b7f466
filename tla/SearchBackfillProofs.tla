------------------------ MODULE SearchBackfillProofs ------------------------
(***************************************************************************)
(* TLAPS proofs about SearchBackfill, for any number of accounts, messages,*)
(* workers, changes of the setting and processes.                          *)
(***************************************************************************)
EXTENDS SearchBackfill, SequenceTheorems, NaturalsInduction, WellFoundedInduction, TLAPS

USE AccountAssumption, BoundsAssumption

-----------------------------------------------------------------------------
(* Types. *)

\* The database and its connection, the workers, and the history of both.
FilesOK == /\ index \in [Accounts -> Indexes]
           /\ worker \in [Accounts -> [Workers -> Works]]
           /\ since \in [Accounts -> Tokens]
           /\ missed \in [Accounts -> SUBSET Msgs]
           /\ overtaken \subseteq Accounts

LEMMA ZeroIsToken == 0 \in Tokens
  BY DEF Tokens, BoundsAssumption

LEMMA WaitingTyped == Gone \in Works /\ Waiting \in Works
  BY ZeroIsToken DEF Gone, Waiting, Works

LEMMA EmptyTyped == ASSUME NEW open \in BOOLEAN
                    PROVE  [Empty EXCEPT !.open = open] \in Indexes
  BY ZeroIsToken DEF Empty, Indexes

LEMMA AgedTyped ==
  ASSUME NEW ws \in [Workers -> Works]
  PROVE  Aged(ws) \in [Workers -> Works]
  <1>1. ASSUME NEW r \in Works PROVE [r EXCEPT !.old = TRUE] \in Works
    BY DEF Works
  <1>2. QED BY <1>1 DEF Aged

\* Deleting the files of an account keeps the types.
LEMMA EmptiesTyped ==
  ASSUME FilesOK, last \in [Accounts -> Tokens], NEW a \in Accounts,
         NEW ws \in [Workers -> Works], NEW open \in BOOLEAN, Empties(a, ws, open)
  PROVE  FilesOK'
  <1>1. index' \in [Accounts -> Indexes]
    BY EmptyTyped DEF Empties, FilesOK
  <1>2. worker' \in [Accounts -> [Workers -> Works]]
    BY AgedTyped DEF Empties, FilesOK
  <1>3. since' \in [Accounts -> Tokens] /\ missed' \in [Accounts -> SUBSET Msgs]
    BY DEF Empties, FilesOK
  <1>4. QED BY <1>1, <1>2, <1>3 DEF Empties, FilesOK

LEMMA HiredTyped ==
  ASSUME FilesOK, NEW a \in Accounts
  PROVE  Hired(a) \in [Workers -> Works]
  BY WaitingTyped DEF Hired, FilesOK

\* What the index was made without is within the room.
LEMMA MissesTyped ==
  ASSUME since \in [Accounts -> Tokens], missed \in [Accounts -> SUBSET Msgs],
         NEW a \in Accounts, NEW ms, Misses(a, ms)
  PROVE  missed' \in [Accounts -> SUBSET Msgs]
  <1>1. 1..since[a] \subseteq Msgs
    BY DEF Tokens, Msgs, BoundsAssumption
  <1>2. QED BY <1>1 DEF Misses

LEMMA EnsureOpenTyped ==
  ASSUME FilesOK, last \in [Accounts -> Tokens], NEW a \in Accounts,
         NEW ws \in [Workers -> Works], EnsureOpen(a, ws)
  PROVE  FilesOK'
  <1>1. ASSUME NEW open \in BOOLEAN, Empties(a, ws, open) PROVE FilesOK'
    BY <1>1, EmptiesTyped
  <1>2. CASE \E open \in {TRUE, index[a].open} :
               /\ index' = [index EXCEPT ![a].open = open]
               /\ worker' = [worker EXCEPT ![a] = ws]
               /\ KeepsFiles
    <2>1. PICK open \in {TRUE, index[a].open} :
               /\ index' = [index EXCEPT ![a].open = open]
               /\ worker' = [worker EXCEPT ![a] = ws]
               /\ KeepsFiles
      BY <1>2
    <2>2. index[a] \in Indexes /\ open \in BOOLEAN
      BY DEF FilesOK, Indexes
    <2>3. [index[a] EXCEPT !.open = open] \in Indexes
      BY <2>2 DEF Indexes
    <2>4. index' \in [Accounts -> Indexes]
      BY <2>1, <2>3 DEF FilesOK
    <2>5. QED BY <2>1, <2>4 DEF FilesOK, KeepsFiles
  <1>3. QED BY <1>1, <1>2 DEF EnsureOpen

LEMMA ResumeTyped ==
  ASSUME TypeOK, NEW a \in Accounts, Resume(a)
  PROVE  FilesOK' /\ starved' \in [Accounts -> SUBSET {"crossed", "closed", "skipped", "kept"}]
  <1>1. FilesOK BY DEF TypeOK, FilesOK
  <1>2. FilesOK' BY <1>1, HiredTyped, EnsureOpenTyped DEF Resume, TypeOK
  <1>3. QED BY <1>2 DEF Resume, TypeOK

LEMMA BecomesTyped ==
  ASSUME worker \in [Accounts -> [Workers -> Works]], NEW a \in Accounts,
         NEW w \in Workers, NEW r \in Works, Becomes(a, w, r)
  PROVE  worker' \in [Accounts -> [Workers -> Works]]
  BY DEF Becomes

LEMMA MarkDoneTyped ==
  ASSUME index \in [Accounts -> Indexes], NEW a \in Accounts, MarkDone(a)
  PROVE  index' \in [Accounts -> Indexes]
  <1>1. ASSUME NEW i \in Indexes PROVE [i EXCEPT !.done = TRUE, !.token = 0] \in Indexes
    BY ZeroIsToken DEF Indexes
  <1>2. index' \in {index, [index EXCEPT ![a] = [@ EXCEPT !.done = TRUE, !.token = 0]]}
    BY DEF MarkDone, Indexes
  <1>3. QED BY <1>1, <1>2

\* The messages that a token leaves.
Left(t) == IF t = 0 THEN 0 ELSE t - 1

\* A page is a message, and its end tokens leave the messages below it.
LEMMA PageTyped ==
  ASSUME NEW page \in Tokens, page # 0, NEW end \in Below(page)
  PROVE  page \in Msgs /\ end \in Tokens /\ Left(end) + 1 = page
  BY DEF Tokens, Msgs, Below, Left, BoundsAssumption

\* The page before a token.
LEMMA FromTyped ==
  ASSUME NEW t \in Tokens
  PROVE  Left(t) \in Tokens
  BY DEF Tokens, Left, BoundsAssumption

\* Taking a spawned task out of the list.
LEMMA TakesTyped ==
  ASSUME toggles \in [Accounts -> Seq(BOOLEAN)], NEW a \in Accounts, NEW on, Takes(a, on)
  PROVE  toggles' \in [Accounts -> Seq(BOOLEAN)]
  <1>1. PICK i \in DOMAIN toggles[a] : toggles' = [toggles EXCEPT ![a] = RemoveAt(@, i)]
    BY DEF Takes
  <1>2. toggles[a] \in Seq(BOOLEAN) /\ i \in 1..Len(toggles[a])
    BY <1>1
  <1>3. SubSeq(toggles[a], 1, i - 1) \in Seq(BOOLEAN)
    BY <1>2, SubSeqProperties
  <1>4. SubSeq(toggles[a], i + 1, Len(toggles[a])) \in Seq(BOOLEAN)
    BY <1>2, SubSeqProperties
  <1>5. RemoveAt(toggles[a], i) \in Seq(BOOLEAN)
    BY <1>3, <1>4, ConcatProperties DEF RemoveAt
  <1>6. QED BY <1>1, <1>5

LEMMA WorkerStepTyped ==
  ASSUME TypeOK, NEW a \in Accounts, NEW w \in Workers, WorkerStep(a, w)
  PROVE  TypeOK'
  <1> DEFINE r == worker[a][w]
  <1>1. r \in Works /\ last[a] \in Tokens /\ index[a] \in Indexes
    BY DEF TypeOK
  <1>2. index' \in [Accounts -> Indexes] /\ worker' \in [Accounts -> [Workers -> Works]]
        /\ missed' \in [Accounts -> SUBSET Msgs] /\ overtaken' \subseteq Accounts
    <2>1. CASE Scan(a, w)
      <3>1. \A x \in {"room"} : [Waiting EXCEPT !.at = x] \in Works
        BY WaitingTyped DEF Works
      <3>2. PICK n \in Works : Becomes(a, w, n)
        BY <2>1, <3>1, WaitingTyped DEF Scan
      <3>3. QED BY <2>1, <3>2, BecomesTyped DEF Scan, TypeOK
    <2>2. CASE ReadCheckpoint(a, w)
      <3>1. \A t \in Tokens : [Gone EXCEPT !.at = "fetch", !.from = t] \in Works
        BY WaitingTyped DEF Works
      <3>2. \A read \in BOOLEAN :
              (IF index[a].open /\ read THEN index[a].token ELSE 0) \in Tokens
        BY <1>1, ZeroIsToken DEF Indexes
      <3>3. PICK n \in Works : Becomes(a, w, n)
        BY <2>2, <3>1, <3>2 DEF ReadCheckpoint
      <3>4. QED BY <2>2, <3>3, BecomesTyped DEF ReadCheckpoint, TypeOK
    <2>3. CASE Fetch(a, w)
      <3> DEFINE page == IF r.from = 0 THEN last[a] ELSE r.from - 1
      <3>1. page \in Tokens
        BY <1>1, FromTyped DEF Works, Left
      <3>2. CASE MarkDone(a) /\ Overtakes(a, w) /\ Becomes(a, w, Waiting)
                 /\ Misses(a, IF index'[a].done THEN 1..page ELSE {})
        BY <3>2, MarkDoneTyped, BecomesTyped, WaitingTyped, MissesTyped DEF TypeOK, Overtakes
      <3>3. CASE Becomes(a, w, Waiting) /\ UNCHANGED <<index, missed, overtaken>>
        BY <3>3, BecomesTyped, WaitingTyped DEF TypeOK
      <3>4. ASSUME page # 0, UNCHANGED <<index, overtaken>>, NEW batch \in {{page}, {}},
                   NEW end \in Below(page),
                   Becomes(a, w, [r EXCEPT !.at = "index", !.batch = batch, !.end = end]),
                   Misses(a, {page} \ batch)
            PROVE  /\ index' \in [Accounts -> Indexes] /\ overtaken' \subseteq Accounts
                   /\ worker' \in [Accounts -> [Workers -> Works]]
                   /\ missed' \in [Accounts -> SUBSET Msgs]
        <4>1. page \in Msgs /\ end \in Tokens
          BY <3>1, <3>4, PageTyped
        <4>2. batch \in SUBSET Msgs
          BY <4>1, <3>4
        <4>3. [r EXCEPT !.at = "index", !.batch = batch, !.end = end] \in Works
          BY <1>1, <4>1, <4>2 DEF Works
        <4>4. worker' \in [Accounts -> [Workers -> Works]]
          BY <3>4, <4>3, BecomesTyped DEF TypeOK
        <4>5. missed' \in [Accounts -> SUBSET Msgs]
          BY <3>4, MissesTyped DEF TypeOK
        <4>6. QED BY <4>4, <4>5, <3>4 DEF TypeOK
      <3>5. QED BY <2>3, <3>2, <3>3, <3>4 DEF Fetch
    <2>4. CASE IndexBatch(a, w)
      <3>1. [r EXCEPT !.at = "save", !.batch = {}] \in Works
        BY <1>1 DEF Works
      <3>2. worker' \in [Accounts -> [Workers -> Works]]
        BY <2>4, <3>1, BecomesTyped DEF IndexBatch, TypeOK
      <3>3. r.batch \subseteq Msgs
        BY <1>1 DEF Works
      <3>4. CASE index' = [index EXCEPT ![a].rows = @ \union r.batch] /\ UNCHANGED missed
        <4>1. [index[a] EXCEPT !.rows = @ \union r.batch] \in Indexes
          BY <1>1, <3>3 DEF Indexes
        <4>2. QED BY <2>4, <3>2, <3>4, <4>1 DEF IndexBatch, TypeOK
      <3>5. CASE Misses(a, r.batch) /\ UNCHANGED index
        BY <2>4, <3>2, <3>5, MissesTyped DEF IndexBatch, TypeOK
      <3>6. QED BY <2>4, <3>4, <3>5 DEF IndexBatch
    <2>5. CASE SaveCheckpoint(a, w)
      <3>1. r.end \in Tokens
        BY <1>1 DEF Works
      <3>2. [r EXCEPT !.at = "fetch", !.from = r.end, !.end = 0] \in Works
        BY <1>1, <3>1, ZeroIsToken DEF Works
      <3>3. worker' \in [Accounts -> [Workers -> Works]]
        BY <2>5, <3>2, WaitingTyped, BecomesTyped DEF SaveCheckpoint, TypeOK
      <3>4. [index[a] EXCEPT !.token = r.end, !.done = FALSE] \in Indexes
        BY <1>1, <3>1 DEF Indexes
      <3>5. index' \in [Accounts -> Indexes]
        BY <2>5, <3>4, MarkDoneTyped DEF SaveCheckpoint, TypeOK
      <3>6. QED BY <2>5, <3>3, <3>5 DEF SaveCheckpoint, Overtakes, TypeOK
    <2>6. QED BY <2>1, <2>2, <2>3, <2>4, <2>5 DEF WorkerStep
  <1>3. WorkerKeeps
    BY DEF WorkerStep, Scan, ReadCheckpoint, Fetch, IndexBatch, SaveCheckpoint
  <1>4. QED BY <1>2, <1>3 DEF TypeOK, WorkerKeeps

LEMMA BudgetTyped ==
  ASSUME NEW b \in [toggles : 0..MaxToggles, starts : 0..MaxStarts]
  PROVE  /\ b.starts > 0 => [b EXCEPT !.starts = @ - 1]
                              \in [toggles : 0..MaxToggles, starts : 0..MaxStarts]
         /\ b.toggles > 0 => [b EXCEPT !.toggles = @ - 1]
                              \in [toggles : 0..MaxToggles, starts : 0..MaxStarts]
  BY DEF BoundsAssumption

LEMMA IndexTyped ==
  ASSUME NEW i \in Indexes
  PROVE  /\ [i EXCEPT !.open = FALSE] \in Indexes
         /\ \A m \in Msgs : [i EXCEPT !.rows = @ \union {m}] \in Indexes
  BY DEF Indexes

\* The steps of the process and of the setting.
LEMMA ProcessTyped ==
  ASSUME TypeOK, Launch \/ Toggle \/ SaveSettings \/ Die
  PROVE  TypeOK'
  <1>1. CASE Launch
    <2>1. <<>> \in Seq(BOOLEAN) /\ <<FALSE>> \in Seq(BOOLEAN)
      OBVIOUS
    <2>2. toggles' \in [Accounts -> Seq(BOOLEAN)]
      BY <1>1, <2>1 DEF Launch
    <2>3. budget' \in [toggles : 0..MaxToggles, starts : 0..MaxStarts]
      BY <1>1, BudgetTyped DEF Launch, TypeOK
    <2>4. QED BY <1>1, <2>2, <2>3 DEF Launch, TypeOK, KeepsFiles
  <1>2. CASE Toggle
    <2>1. ASSUME NEW s \in Seq(BOOLEAN), NEW b \in BOOLEAN
          PROVE  Append(s, b) \in Seq(BOOLEAN)
      OBVIOUS
    <2>2. (~flag) \in BOOLEAN
      OBVIOUS
    <2>3. toggles' \in [Accounts -> Seq(BOOLEAN)]
      BY <1>2, <2>1, <2>2 DEF Toggle, TypeOK
    <2>4. budget' \in [toggles : 0..MaxToggles, starts : 0..MaxStarts]
      BY <1>2, BudgetTyped DEF Toggle, TypeOK
    <2>5. starved' \in [Accounts -> SUBSET {"crossed", "closed", "skipped", "kept"}]
      BY <1>2 DEF Toggle, TypeOK
    <2>6. flag' \in BOOLEAN
      BY <1>2, <2>2 DEF Toggle
    <2>7. QED BY <1>2, <2>3, <2>4, <2>5, <2>6 DEF Toggle, TypeOK, KeepsFiles
  <1>3. CASE SaveSettings
    BY <1>3 DEF SaveSettings, TypeOK, KeepsFiles
  <1>4. CASE Die
    <2>1. \A a \in Accounts : [index[a] EXCEPT !.open = FALSE] \in Indexes
      BY IndexTyped DEF TypeOK
    <2>2. index' \in [Accounts -> Indexes]
      BY <1>4, <2>1 DEF Die
    <2>3. worker' \in [Accounts -> [Workers -> Works]]
      BY <1>4, WaitingTyped DEF Die
    <2>4. toggles' \in [Accounts -> Seq(BOOLEAN)]
      BY <1>4 DEF Die
    <2>5. QED BY <1>4, <2>2, <2>3, <2>4 DEF Die, TypeOK, KeepsFiles
  <1>5. QED BY <1>1, <1>2, <1>3, <1>4

\* The steps of one account that are not a worker's.
LEMMA AccountTyped ==
  ASSUME TypeOK, NEW a \in Accounts,
         \/ Restore(a) \/ TurnOff(a) \/ TurnOn(a)
         \/ Arrive(a) \/ IndexLive(a) \/ Search(a)
  PROVE  TypeOK'
  <1>1. FilesOK
    BY DEF TypeOK, FilesOK
  <1> DEFINE Kept == UNCHANGED <<index, worker, starved>> /\ KeepsFiles
             StarvedOK == starved \in [Accounts -> SUBSET {"crossed", "closed", "skipped", "kept"}]
  <1>2. ASSUME Resume(a) \/ Kept
        PROVE  FilesOK' /\ StarvedOK'
    <2>1. CASE Resume(a)
      BY <2>1, ResumeTyped
    <2>2. CASE Kept
      BY <2>2, <1>1 DEF FilesOK, KeepsFiles, TypeOK
    <2>3. QED BY <1>2, <2>1, <2>2
  <1>3. CASE Restore(a)
    <2>1. FilesOK' /\ StarvedOK'
      BY <1>2, <1>3 DEF Restore
    <2>2. toggles' \in [Accounts -> Seq(BOOLEAN)]
      BY <1>3 DEF Restore, TypeOK
    <2>3. QED BY <1>3, <2>1, <2>2 DEF Restore, TypeOK, FilesOK
  <1>4. CASE TurnOff(a)
    <2>1. FilesOK'
      <3>1. CASE Empties(a, worker[a], FALSE)
        BY <1>1, <3>1, EmptiesTyped DEF TypeOK
      <3>2. CASE /\ index' = [index EXCEPT ![a].open = FALSE]
                 /\ UNCHANGED worker /\ KeepsFiles
        <4>1. [index[a] EXCEPT !.open = FALSE] \in Indexes
          BY IndexTyped DEF TypeOK
        <4>2. QED BY <1>1, <3>2, <4>1 DEF FilesOK, KeepsFiles
      <3>3. QED BY <1>4, <3>1, <3>2 DEF TurnOff
    <2>2. toggles' \in [Accounts -> Seq(BOOLEAN)]
      BY <1>4, TakesTyped DEF TurnOff, TypeOK
    <2>3. StarvedOK'
      <3>1. PICK why \in SUBSET {"crossed", "closed", "skipped", "kept"} :
              starved' = [starved EXCEPT ![a] = @ \union why]
        BY <1>4 DEF TurnOff
      <3>2. QED BY <3>1 DEF TypeOK
    <2>4. UNCHANGED <<last, flag, saved, up, restored, budget>>
      BY <1>4 DEF TurnOff
    <2>5. QED BY <2>1, <2>2, <2>3, <2>4 DEF TypeOK, FilesOK
  <1>5. CASE TurnOn(a)
    <2>1. FilesOK' /\ StarvedOK'
      BY <1>2, <1>5 DEF TurnOn
    <2>2. toggles' \in [Accounts -> Seq(BOOLEAN)]
      BY <1>5, TakesTyped DEF TurnOn, TypeOK
    <2>3. QED BY <1>5, <2>1, <2>2 DEF TurnOn, TypeOK, FilesOK
  <1>6. CASE Arrive(a)
    <2>1. last' \in [Accounts -> Tokens]
      BY <1>6 DEF Arrive, TypeOK, Tokens, BoundsAssumption
    <2>2. QED BY <1>6, <2>1 DEF Arrive, TypeOK, KeepsFiles
  <1>7. CASE IndexLive(a)
    <2> DEFINE Goal == /\ index' \in [Accounts -> Indexes]
                       /\ starved' \in [Accounts -> SUBSET {"crossed", "closed", "skipped", "kept"}]
    <2>1. 1..last[a] \subseteq Msgs
      BY DEF TypeOK, Tokens, Msgs, BoundsAssumption
    <2>2. Goal
      <3>1. ASSUME NEW m \in 1..last[a],
                   index' = [index EXCEPT ![a].rows = @ \union {m}], UNCHANGED starved
            PROVE  Goal
        <4>1. index[a] \in Indexes /\ m \in Msgs
          BY <2>1 DEF TypeOK
        <4>2. [index[a] EXCEPT !.rows = @ \union {m}] \in Indexes
          BY <4>1, IndexTyped
        <4>3. QED BY <3>1, <4>2 DEF TypeOK
      <3>2. ASSUME index' = [index EXCEPT ![a].open = FALSE],
                   starved' = [starved EXCEPT ![a] = @ \union {"closed"}]
            PROVE  Goal
        <4>1. [index[a] EXCEPT !.open = FALSE] \in Indexes
          BY IndexTyped DEF TypeOK
        <4>2. QED BY <3>2, <4>1 DEF TypeOK
      <3>3. QED BY <1>7, <3>1, <3>2 DEF IndexLive
    <2>4. UNCHANGED <<last, worker, toggles, flag, saved, up, restored, budget,
                      since, missed, overtaken>>
      BY <1>7 DEF IndexLive, KeepsFiles
    <2>5. QED BY <2>2, <2>4 DEF TypeOK
  <1>8. CASE Search(a)
    <2>1. FilesOK'
      BY <1>1, <1>8, EnsureOpenTyped DEF Search, TypeOK
    <2>2. QED BY <1>8, <2>1 DEF Search, TypeOK, FilesOK
  <1>9. QED BY <1>3, <1>4, <1>5, <1>6, <1>7, <1>8

LEMMA InitTyped == Init => TypeOK
  <1> SUFFICES ASSUME Init PROVE TypeOK
    OBVIOUS
  <1>1. 1 \in Tokens
    BY DEF Tokens, BoundsAssumption
  <1>2. Empty \in Indexes
    BY ZeroIsToken DEF Empty, Indexes
  <1>3. budget \in [toggles : 0..MaxToggles, starts : 0..MaxStarts]
    BY DEF Init, BoundsAssumption
  <1>4. toggles \in [Accounts -> Seq(BOOLEAN)]
    BY DEF Init
  <1>5. worker \in [Accounts -> [Workers -> Works]]
    BY WaitingTyped DEF Init
  <1>6. QED BY <1>1, <1>2, <1>3, <1>4, <1>5 DEF Init, TypeOK

LEMMA NextTyped == TypeOK /\ [Next]_vars => TypeOK'
  <1> SUFFICES ASSUME TypeOK, [Next]_vars PROVE TypeOK'
    OBVIOUS
  <1>1. CASE Next
    BY <1>1, ProcessTyped, AccountTyped, WorkerStepTyped DEF Next
  <1>2. CASE UNCHANGED vars
    BY <1>2 DEF vars, TypeOK
  <1>3. QED BY <1>1, <1>2

\* Every token, page and checkpoint stays within the room's messages, and the lists of
\* spawned changes of the setting hold nothing else, however the steps interleave.
THEOREM TypeCorrect == Spec => []TypeOK
  BY InitTyped, NextTyped, PTL DEF Spec

-----------------------------------------------------------------------------
(* A room that is done is indexed.                                         *)
(*                                                                         *)
(* Checkpoints and workers walk down the room.  Of a room whose index has  *)
(* the messages c (or they were fetched, and not written), and had s       *)
(* messages when it was made, a token promises the messages from it on.    *)

Above(c, s, t) == t + 1 .. s \subseteq c

\* What a worker of this index knows: before a page is fetched, between the answer
\* and the write, and before the checkpoint.
Knows(c, s, r) ==
  /\ r.at = "fetch" /\ r.from # 0 => Above(c, s, Left(r.from))
  /\ r.at = "index" => Above(c \union r.batch, s, Left(r.end))
  /\ r.at = "save" => Above(c, s, Left(r.end))

\* Every checkpoint, and every worker that is not older than the index, is right.
Sound(i, ws, s, u) ==
  /\ i.token # 0 => Above(i.rows \union u, s, Left(i.token))
  /\ i.done => Above(i.rows \union u, s, 0)
  /\ \A w \in Workers : ws[w].old \/ Knows(i.rows \union u, s, ws[w])

SoundOf(a) == Sound(index[a], worker[a], since[a], missed[a])

CheckpointsSound == \A a \in Accounts : /\ since[a] <= last[a]
                                        /\ a \notin overtaken => SoundOf(a)

LEMMA KnowsMore ==
  ASSUME NEW c, NEW d, c \subseteq d, NEW s, NEW r, Knows(c, s, r)
  PROVE  Knows(d, s, r)
  BY DEF Knows, Above

\* A step that loses no message, and after which the checkpoint and the workers it
\* changed are right.
LEMMA StaysSound ==
  ASSUME NEW i, NEW j, NEW ws, NEW vs, NEW s, NEW u, NEW v, Sound(i, ws, s, u),
         i.rows \union u \subseteq j.rows \union v,
         j.token \in {0, i.token} \/ Above(j.rows \union v, s, Left(j.token)),
         j.done = FALSE \/ j.done = i.done \/ Above(j.rows \union v, s, 0),
         \A w \in Workers : vs[w] = ws[w] \/ vs[w].old \/ Knows(j.rows \union v, s, vs[w])
  PROVE  Sound(j, vs, s, v)
  <1>1. j.token # 0 => Above(j.rows \union v, s, Left(j.token))
    BY DEF Sound, Above
  <1>2. j.done => Above(j.rows \union v, s, 0)
    BY DEF Sound, Above
  <1>3. ASSUME NEW w \in Workers
        PROVE  vs[w].old \/ Knows(j.rows \union v, s, vs[w])
    <2>1. CASE vs[w] = ws[w]
      BY <2>1, KnowsMore DEF Sound
    <2>2. CASE vs[w].old \/ Knows(j.rows \union v, s, vs[w])
      BY <2>2
    <2>3. QED BY <2>1, <2>2
  <1>4. QED BY <1>1, <1>2, <1>3 DEF Sound

\* Nothing is known of a worker that waits.
LEMMA WaitingKnows ==
  ASSUME NEW c, NEW s, NEW r, r.at \in {"none", "wait", "room"}
  PROVE  Knows(c, s, r)
  BY DEF Knows

\* A new index is sound: it promises nothing, and all the workers are old.
LEMMA EmptiesSound ==
  ASSUME FilesOK, last \in [Accounts -> Tokens], NEW a \in Accounts,
         NEW ws \in [Workers -> Works], NEW open \in BOOLEAN, Empties(a, ws, open)
  PROVE  SoundOf(a)' /\ since'[a] <= last[a]
  <1>1. index'[a] = [Empty EXCEPT !.open = open]
    BY DEF Empties, FilesOK
  <1>2. index'[a].token = 0 /\ index'[a].done = FALSE
    BY <1>1 DEF Empty
  <1>3. worker'[a] = Aged(ws)
    BY DEF Empties, FilesOK
  <1>4. ASSUME NEW w \in Workers
        PROVE  worker'[a][w].old \/ Knows(index'[a].rows \union missed'[a], since'[a],
                                          worker'[a][w])
    <2>1. CASE ws[w].at \in {"fetch", "index", "save"}
      <3>1. worker'[a][w] = [ws[w] EXCEPT !.old = TRUE] /\ ws[w] \in Works
        BY <1>3, <2>1 DEF Aged
      <3>2. QED BY <3>1 DEF Works
    <2>2. CASE ws[w].at \notin {"fetch", "index", "save"}
      <3>1. worker'[a][w] = ws[w]
        BY <1>3, <2>2 DEF Aged
      <3>2. QED BY <2>2, <3>1 DEF Knows
    <2>3. QED BY <2>1, <2>2
  <1>5. SoundOf(a)'
    BY <1>2, <1>4 DEF SoundOf, Sound
  <1>6. since'[a] = last[a] /\ last[a] \in Nat
    BY DEF Empties, FilesOK, Tokens
  <1>7. QED BY <1>5, <1>6

\* What happens to the other accounts: nothing.
Untouched(b) == /\ index'[b] = index[b] /\ worker'[b] = worker[b]
                /\ since'[b] = since[b] /\ missed'[b] = missed[b]
                /\ b \in overtaken => b \in overtaken'

LEMMA UntouchedSound ==
  ASSUME NEW b, Untouched(b), b \notin overtaken => SoundOf(b)
  PROVE  b \notin overtaken' => SoundOf(b)'
  BY DEF Untouched, SoundOf

\* Opening the index loses no checkpoint, or all of it.
LEMMA EnsureOpenSound ==
  ASSUME FilesOK, last \in [Accounts -> Tokens], CheckpointsSound, NEW a \in Accounts,
         NEW ws \in [Workers -> Works], EnsureOpen(a, ws),
         \A w \in Workers : ws[w] = worker[a][w] \/ ws[w].at = "wait"
  PROVE  /\ \A b \in Accounts \ {a} : Untouched(b)
         /\ since'[a] <= last[a]
         /\ a \notin overtaken' => SoundOf(a)'
  <1>1. ASSUME NEW open \in BOOLEAN, Empties(a, ws, open)
        PROVE  /\ \A b \in Accounts \ {a} : Untouched(b)
               /\ since'[a] <= last[a]
               /\ a \notin overtaken' => SoundOf(a)'
    <2>1. \A b \in Accounts \ {a} : Untouched(b)
      BY <1>1 DEF Empties, Untouched, FilesOK
    <2>2. QED BY <1>1, <2>1, EmptiesSound
  <1>2. ASSUME NEW open \in {TRUE, index[a].open},
               index' = [index EXCEPT ![a].open = open],
               worker' = [worker EXCEPT ![a] = ws],
               KeepsFiles
        PROVE  /\ \A b \in Accounts \ {a} : Untouched(b)
               /\ since'[a] <= last[a]
               /\ a \notin overtaken' => SoundOf(a)'
    <2>1. \A b \in Accounts \ {a} : Untouched(b)
      BY <1>2 DEF Untouched, KeepsFiles, FilesOK
    <2>2. index'[a] = [index[a] EXCEPT !.open = open] /\ index[a] \in Indexes
      BY <1>2 DEF FilesOK
    <2>3. /\ index'[a].rows = index[a].rows
          /\ index'[a].token = index[a].token
          /\ index'[a].done = index[a].done
      BY <2>2 DEF Indexes
    <2>4. worker'[a] = ws /\ since'[a] = since[a] /\ missed'[a] = missed[a]
          /\ overtaken' = overtaken
      BY <1>2 DEF FilesOK, KeepsFiles
    <2>5. ASSUME SoundOf(a) PROVE SoundOf(a)'
      <3>1. \A w \in Workers : ws[w] = worker[a][w]
              \/ Knows(index'[a].rows \union missed[a], since[a], ws[w])
        BY WaitingKnows
      <3>2. Sound(index[a], worker[a], since[a], missed[a])
        BY <2>5 DEF SoundOf
      <3>3. Sound(index'[a], ws, since[a], missed[a])
        <4> DEFINE i == index[a]
                   j == index'[a]
        <4>1. /\ i.rows \union missed[a] \subseteq j.rows \union missed[a]
              /\ j.token \in {0, i.token} /\ j.done = i.done
          BY <2>3
        <4> HIDE DEF i, j
        <4>2. \A w \in Workers : \/ ws[w] = worker[a][w]
                                \/ Knows(j.rows \union missed[a], since[a], ws[w])
          BY <3>1 DEF j
        <4>3. Sound(i, worker[a], since[a], missed[a])
          BY <3>2 DEF i
        <4>4. Sound(j, ws, since[a], missed[a])
          BY <4>1, <4>2, <4>3, StaysSound
        <4>5. QED BY <4>4 DEF j
      <3>4. QED BY <2>4, <3>3 DEF SoundOf
    <2>6. QED BY <2>1, <2>4, <2>5 DEF CheckpointsSound
  <1>3. QED BY <1>1, <1>2 DEF EnsureOpen

-----------------------------------------------------------------------------
(* The steps of a worker. *)

\* A worker's step is sound if it loses no message and what it writes and what it then
\* knows are right.
LEMMA WorkerSound ==
  ASSUME TypeOK, NEW a \in Accounts, NEW w \in Workers, NEW n \in Works, SoundOf(a),
         Becomes(a, w, n), since' = since,
         NEW c, c = index'[a].rows \union missed'[a],
         index[a].rows \union missed[a] \subseteq c,
         index'[a].token \in {0, index[a].token}
           \/ Above(c, since[a], Left(index'[a].token)),
         index'[a].done \in {FALSE, index[a].done} \/ Above(c, since[a], 0),
         n.old \/ Knows(c, since[a], n)
  PROVE  SoundOf(a)'
  <1>1. worker'[a] = [worker[a] EXCEPT ![w] = n]
    BY DEF TypeOK, Becomes
  <1>2. \A v \in Workers : \/ worker'[a][v] = worker[a][v]
                           \/ worker'[a][v].old
                           \/ Knows(c, since[a], worker'[a][v])
    BY <1>1 DEF TypeOK
  <1> DEFINE i == index[a]
             j == index'[a]
             ws == worker[a]
             vs == worker'[a]
             u == missed[a]
             v == missed'[a]
             s == since[a]
  <1>3. Sound(i, ws, s, u)
    BY DEF SoundOf
  <1>4. /\ i.rows \union u \subseteq j.rows \union v
        /\ j.token \in {0, i.token} \/ Above(j.rows \union v, s, Left(j.token))
        /\ j.done = FALSE \/ j.done = i.done \/ Above(j.rows \union v, s, 0)
        /\ \A x \in Workers : \/ vs[x] = ws[x] \/ vs[x].old
                              \/ Knows(j.rows \union v, s, vs[x])
    BY <1>2
  <1>5. SoundOf(a)' <=> Sound(j, vs, s, v)
    BY DEF SoundOf
  <1> HIDE DEF i, j, ws, vs, u, v, s
  <1>6. Sound(j, vs, s, v)
    BY <1>3, <1>4, StaysSound
  <1>7. QED BY <1>5, <1>6

\* mark_backfill_done adds and loses no message.
LEMMA MarkDoneEffect ==
  ASSUME TypeOK, NEW a \in Accounts, MarkDone(a)
  PROVE  /\ index'[a].rows = index[a].rows
         /\ index'[a].token \in {0, index[a].token}
         /\ ~index[a].open => index'[a].done = index[a].done
  <1>1. index[a] \in Indexes
    BY DEF TypeOK
  <1>2. CASE index' = index
    BY <1>2
  <1>3. CASE index[a].open /\ index' = [index EXCEPT ![a].done = TRUE, ![a].token = 0]
    BY <1>1, <1>3 DEF TypeOK, Indexes
  <1>4. QED BY <1>2, <1>3 DEF MarkDone

\* Of what a step keeps from the index, the history holds what the room had.
LEMMA MissesEffect ==
  ASSUME TypeOK, NEW a \in Accounts, NEW ms, Misses(a, ms), index'[a].rows = index[a].rows
  PROVE  index'[a].rows \union missed'[a]
           = index[a].rows \union missed[a] \union (ms \intersect 1..since[a])
  <1>1. missed'[a] = missed[a] \union ((ms \intersect 1..since[a]) \ index[a].rows)
    BY DEF Misses, TypeOK
  <1>2. QED BY <1>1

\* A worker that writes what it knows, of this index, is right.
LEMMA OldOvertakes ==
  ASSUME NEW a \in Accounts, NEW w \in Workers, Overtakes(a, w), a \notin overtaken',
         index[a].open
  PROVE  ~worker[a][w].old
  BY DEF Overtakes

LEMMA ScanSound ==
  ASSUME TypeOK, NEW a \in Accounts, NEW w \in Workers, SoundOf(a), Scan(a, w)
  PROVE  SoundOf(a)'
  <1>1. [Waiting EXCEPT !.at = "room"] \in Works
        /\ [Waiting EXCEPT !.at = "room"].at = "room"
    BY WaitingTyped DEF Works
  <1>2. Gone.at = "none" /\ Waiting.at = "wait"
    BY DEF Gone, Waiting
  <1>3. PICK n \in Works : Becomes(a, w, n) /\ n.at \in {"none", "wait", "room"}
    BY <1>1, <1>2, WaitingTyped DEF Scan
  <1>4. index' = index /\ missed' = missed /\ since' = since
    BY DEF Scan, WorkerKeeps
  <1>5. Knows(index'[a].rows \union missed'[a], since[a], n)
    BY <1>3, WaitingKnows
  <1>6. QED BY <1>3, <1>4, <1>5, WorkerSound

LEMMA ReadCheckpointSound ==
  ASSUME TypeOK, NEW a \in Accounts, NEW w \in Workers, SoundOf(a), ReadCheckpoint(a, w)
  PROVE  SoundOf(a)'
  <1> PICK read \in BOOLEAN :
         Becomes(a, w, [Gone EXCEPT !.at = "fetch",
                          !.from = IF index[a].open /\ read THEN index[a].token ELSE 0])
    BY DEF ReadCheckpoint
  <1> DEFINE t == IF index[a].open /\ read THEN index[a].token ELSE 0
             n == [Gone EXCEPT !.at = "fetch", !.from = t]
  <1>1. t \in Tokens
    BY ZeroIsToken DEF TypeOK, Indexes
  <1>2. n \in Works /\ n.at = "fetch" /\ n.from = t
    BY <1>1, WaitingTyped DEF Works
  <1>3. Becomes(a, w, n) /\ index' = index /\ missed' = missed /\ since' = since
    BY DEF ReadCheckpoint, WorkerKeeps
  <1>4. t # 0 => Above(index[a].rows \union missed[a], since[a], Left(t))
    BY DEF SoundOf, Sound
  <1> HIDE DEF n, t
  <1>5. Knows(index'[a].rows \union missed'[a], since[a], n)
    BY <1>2, <1>3, <1>4 DEF Knows
  <1>6. QED BY <1>2, <1>3, <1>5, WorkerSound

LEMMA FetchSound ==
  ASSUME TypeOK, NEW a \in Accounts, NEW w \in Workers, SoundOf(a), Fetch(a, w),
         since[a] <= last[a], a \notin overtaken'
  PROVE  SoundOf(a)'
  <1> DEFINE r == worker[a][w]
             page == IF r.from = 0 THEN last[a] ELSE r.from - 1
             c == index[a].rows \union missed[a]
             d == index'[a].rows \union missed'[a]
  <1>1. r \in Works /\ page \in Tokens /\ r.at = "fetch" /\ since' = since
        /\ since[a] \in Tokens
    <2>1. r \in Works /\ last[a] \in Tokens /\ since[a] \in Tokens
      BY DEF TypeOK
    <2>2. r.from \in Tokens
      BY <2>1 DEF Works
    <2>3. page \in Tokens
      BY <2>1, <2>2, FromTyped DEF Left
    <2>4. QED BY <2>1, <2>3 DEF Fetch, WorkerKeeps
  <1>2. r.old \/ Above(c, since[a], page)
    <2>1. CASE r.from = 0
      BY <2>1, <1>1 DEF Above, Tokens
    <2>2. CASE r.from # 0
      BY <2>2, <1>1 DEF SoundOf, Sound, Knows, Left
    <2>3. QED BY <2>1, <2>2
  <1>3. CASE Becomes(a, w, Waiting) /\ UNCHANGED <<index, missed, overtaken>>
    <2>1. Knows(index'[a].rows \union missed'[a], since[a], Waiting)
      BY WaitingKnows DEF Waiting, Gone
    <2>2. QED BY <1>1, <1>3, <2>1, WaitingTyped, WorkerSound
  <1>4. CASE MarkDone(a) /\ Overtakes(a, w) /\ Becomes(a, w, Waiting)
             /\ Misses(a, IF index'[a].done THEN 1..page ELSE {})
    <2>1. /\ index'[a].rows = index[a].rows
          /\ index'[a].token \in {0, index[a].token}
          /\ ~index[a].open => index'[a].done = index[a].done
          /\ index'[a].done \in BOOLEAN
      BY <1>4, MarkDoneEffect, MarkDoneTyped DEF TypeOK, Indexes
    <2>2. d = c \union ((IF index'[a].done THEN 1..page ELSE {}) \intersect 1..since[a])
      BY <1>4, <2>1, MissesEffect
    <2>3. index[a].open /\ index'[a].done => Above(d, since[a], 0)
      <3>1. SUFFICES ASSUME index[a].open, index'[a].done, NEW m \in 1..since[a] PROVE m \in d
        BY DEF Above
      <3>2. Above(c, since[a], page)
        BY <1>2, <1>4, <3>1, OldOvertakes
      <3>3. m \in 1..page \/ m \in page + 1 .. since[a]
        BY <1>1, <3>1 DEF Tokens
      <3>4. QED BY <2>2, <3>1, <3>2, <3>3 DEF Above
    <2>4. Knows(d, since[a], Waiting)
      BY WaitingKnows DEF Waiting, Gone
    <2>5. index[a].rows \union missed[a] \subseteq d
      BY <2>2
    <2> HIDE DEF c
    <2>6. index'[a].done \in {FALSE, index[a].done} \/ Above(d, since[a], 0)
      BY <2>1, <2>3
    <2>7. QED BY <1>1, <1>4, <2>1, <2>4, <2>5, <2>6, WaitingTyped, WorkerSound
  <1>5. ASSUME page # 0, UNCHANGED <<index, overtaken>>, NEW batch \in {{page}, {}},
               NEW end \in Below(page),
               Becomes(a, w, [r EXCEPT !.at = "index", !.batch = batch, !.end = end]),
               Misses(a, {page} \ batch)
        PROVE  SoundOf(a)'
    <2> DEFINE n == [r EXCEPT !.at = "index", !.batch = batch, !.end = end]
    <2>1. page \in Msgs /\ end \in Tokens /\ Left(end) + 1 = page
      BY <1>1, <1>5, PageTyped
    <2>2. n \in Works /\ n.at = "index" /\ n.batch = batch /\ n.end = end /\ n.old = r.old
      <3>1. batch \in SUBSET Msgs
        BY <2>1
      <3>2. QED BY <1>1, <2>1, <3>1 DEF Works
    <2>3. d = c \union (({page} \ batch) \intersect 1..since[a])
      BY <1>5, MissesEffect
    <2>4. index[a].rows \union missed[a] \subseteq d
      BY <2>3
    <2>5. r.old \/ Above(d \union batch, since[a], Left(end))
      <3>1. SUFFICES ASSUME ~r.old, NEW m \in page .. since[a] PROVE m \in d \union batch
        BY <2>1 DEF Above
      <3>2. m = page \/ m \in page + 1 .. since[a]
        BY <1>1, <3>1 DEF Tokens
      <3>3. m \in 1..since[a]
        <4>1. page \in Nat /\ page # 0 /\ since[a] \in Int
          BY <1>1, <1>5 DEF Tokens
        <4> HIDE DEF page
        <4>2. QED BY <3>1, <4>1
      <3>4. QED BY <1>2, <2>3, <3>1, <3>2, <3>3 DEF Above
    <2>6. Becomes(a, w, n)
      BY <1>5
    <2> HIDE DEF n, c, d, page
    <2>7. n.old \/ Knows(d, since[a], n)
      BY <2>2, <2>5 DEF Knows
    <2> USE DEF d
    <2>8. QED BY <1>1, <1>5, <2>2, <2>4, <2>6, <2>7, WorkerSound
  <1>6. QED BY <1>3, <1>4, <1>5 DEF Fetch

LEMMA IndexBatchSound ==
  ASSUME TypeOK, NEW a \in Accounts, NEW w \in Workers, SoundOf(a), IndexBatch(a, w)
  PROVE  SoundOf(a)'
  <1> DEFINE r == worker[a][w]
             n == [r EXCEPT !.at = "save", !.batch = {}]
             c == index[a].rows \union missed[a]
             d == index'[a].rows \union missed'[a]
  <1>1. r \in Works /\ r.at = "index" /\ since' = since /\ Becomes(a, w, n)
    BY DEF TypeOK, IndexBatch, WorkerKeeps
  <1>2. n \in Works /\ n.at = "save" /\ n.end = r.end /\ n.old = r.old /\ r.end \in Tokens
    BY <1>1 DEF Works
  <1>3. /\ c \subseteq d /\ r.batch \intersect 1..since[a] \subseteq d
        /\ index'[a].token = index[a].token /\ index'[a].done = index[a].done
    <2>1. CASE index' = [index EXCEPT ![a].rows = @ \union r.batch] /\ UNCHANGED missed
      <3>1. index'[a] = [index[a] EXCEPT !.rows = @ \union r.batch] /\ index[a] \in Indexes
        BY <2>1 DEF TypeOK
      <3>2. QED BY <2>1, <3>1 DEF Indexes
    <2>2. CASE Misses(a, r.batch) /\ UNCHANGED index
      BY <2>2, MissesEffect
    <2>3. QED BY <2>1, <2>2 DEF IndexBatch
  <1>4. r.old \/ Above(c \union r.batch, since[a], Left(r.end))
    BY <1>1 DEF SoundOf, Sound, Knows
  <1>5. c \subseteq d /\ index[a].rows \union missed[a] \subseteq d
    BY <1>3
  <1> HIDE DEF n, c
  <1>6. r.old \/ Above(d, since[a], Left(r.end))
    <2>1. SUFFICES ASSUME ~r.old, NEW m \in Left(r.end) + 1 .. since[a] PROVE m \in d
      BY DEF Above
    <2>2. Left(r.end) \in Nat /\ since[a] \in Int
      <3>1. Left(r.end) \in Tokens
        BY <1>2, FromTyped
      <3>2. QED BY <3>1 DEF Tokens, TypeOK
    <2>3. m \in 1..since[a]
      BY <2>1, <2>2
    <2>4. QED BY <1>3, <1>4, <2>1, <2>3 DEF Above
  <1>7. n.old \/ Knows(d, since[a], n)
    BY <1>2, <1>6 DEF Knows
  <1>8. QED BY <1>1, <1>2, <1>3, <1>5, <1>7, WorkerSound

LEMMA SaveCheckpointSound ==
  ASSUME TypeOK, NEW a \in Accounts, NEW w \in Workers, SoundOf(a), SaveCheckpoint(a, w),
         a \notin overtaken'
  PROVE  SoundOf(a)'
  <1> DEFINE r == worker[a][w]
             c == index[a].rows \union missed[a]
             d == index'[a].rows \union missed'[a]
  <1>1. r \in Works /\ r.at = "save" /\ since' = since /\ missed' = missed
        /\ Overtakes(a, w)
    BY DEF TypeOK, SaveCheckpoint, WorkerKeeps
  <1>2. r.end \in Tokens /\ r.old \in BOOLEAN
    BY <1>1 DEF Works
  <1>3. r.old \/ Above(c, since[a], Left(r.end))
    BY <1>1 DEF SoundOf, Sound, Knows
  <1>4. index[a].open => Above(c, since[a], Left(r.end))
    BY <1>1, <1>3, OldOvertakes
  <1>5. CASE r.end = 0 /\ MarkDone(a) /\ Becomes(a, w, Waiting)
    <2>1. /\ index'[a].rows = index[a].rows
          /\ index'[a].token \in {0, index[a].token}
          /\ ~index[a].open => index'[a].done = index[a].done
      BY <1>5, MarkDoneEffect
    <2>2. Knows(d, since[a], Waiting)
      BY WaitingKnows DEF Waiting, Gone
    <2>3. d = c
      BY <1>1, <2>1
    <2>4. index[a].rows \union missed[a] \subseteq d
      BY <2>3
    <2>5. index[a].open => Above(d, since[a], 0)
      BY <1>4, <1>5, <2>3 DEF Left
    <2> HIDE DEF c
    <2>6. index'[a].done \in {FALSE, index[a].done} \/ Above(d, since[a], 0)
      BY <2>1, <2>5
    <2>7. QED BY <1>1, <1>5, <2>1, <2>2, <2>4, <2>6, WaitingTyped, WorkerSound
  <1>6. ASSUME r.end # 0, NEW ok \in {TRUE, FALSE},
               index' = IF ok /\ index[a].open
                          THEN [index EXCEPT ![a].token = r.end, ![a].done = FALSE]
                          ELSE index,
               Becomes(a, w, [r EXCEPT !.at = "fetch", !.from = r.end, !.end = 0])
        PROVE  SoundOf(a)'
    <2> DEFINE n == [r EXCEPT !.at = "fetch", !.from = r.end, !.end = 0]
    <2>1. n \in Works /\ n.at = "fetch" /\ n.from = r.end /\ n.old = r.old
      BY <1>1, <1>2, ZeroIsToken DEF Works
    <2>2. /\ index'[a].rows = index[a].rows
          /\ index'[a].done \in {FALSE, index[a].done}
          /\ index'[a].token = index[a].token
               \/ (index[a].open /\ index'[a].token = r.end)
      <3>1. index[a] \in Indexes
        BY DEF TypeOK
      <3>2. CASE index' = index
        BY <3>2
      <3>3. CASE index[a].open
                 /\ index' = [index EXCEPT ![a].token = r.end, ![a].done = FALSE]
        <4>1. index'[a] = [index[a] EXCEPT !.token = r.end, !.done = FALSE]
          BY <3>3 DEF TypeOK
        <4>2. QED BY <3>1, <3>3, <4>1 DEF Indexes
      <3>4. QED BY <1>6, <3>2, <3>3
    <2>3. d = c
      BY <1>1, <2>2
    <2>4. index[a].rows \union missed[a] \subseteq d
      BY <2>3
    <2>5. Becomes(a, w, n)
      BY <1>6
    <2>6. r.old \/ Above(d, since[a], Left(r.end))
      BY <1>3, <2>3
    <2>7. index[a].open => Above(d, since[a], Left(r.end))
      BY <1>4, <2>3
    <2> HIDE DEF n, c
    <2>8. n.old \/ Knows(d, since[a], n)
      BY <2>1, <2>6 DEF Knows
    <2>9. index'[a].token \in {0, index[a].token}
            \/ Above(d, since[a], Left(index'[a].token))
      BY <2>2, <2>7
    <2>10. QED BY <1>1, <2>1, <2>2, <2>4, <2>5, <2>8, <2>9, WorkerSound
  <1>7. QED BY <1>5, <1>6 DEF SaveCheckpoint

LEMMA WorkerStepSound ==
  ASSUME TypeOK, CheckpointsSound, NEW a \in Accounts, NEW w \in Workers, WorkerStep(a, w)
  PROVE  CheckpointsSound'
  <1>1. since' = since /\ last' = last
    BY DEF WorkerStep, Scan, ReadCheckpoint, Fetch, IndexBatch, SaveCheckpoint, WorkerKeeps
  <1>2. overtaken \subseteq overtaken'
    BY DEF WorkerStep, Scan, ReadCheckpoint, Fetch, IndexBatch, SaveCheckpoint, Overtakes
  <1>3. a \notin overtaken' => SoundOf(a)'
    BY <1>2, ScanSound, ReadCheckpointSound, FetchSound, IndexBatchSound, SaveCheckpointSound
       DEF WorkerStep, CheckpointsSound
  <1>4. ASSUME NEW b \in Accounts \ {a} PROVE Untouched(b)
    <2>1. worker'[b] = worker[b]
      BY DEF WorkerStep, Scan, ReadCheckpoint, Fetch, IndexBatch, SaveCheckpoint, Becomes,
             TypeOK
    <2>2. missed'[b] = missed[b]
      <3>1. ASSUME NEW ms, Misses(a, ms) PROVE missed'[b] = missed[b]
        BY <3>1 DEF Misses, TypeOK
      <3>2. Fetch(a, w) => missed'[b] = missed[b]
        BY <3>1 DEF Fetch
      <3>3. QED BY <3>1, <3>2 DEF WorkerStep, Scan, ReadCheckpoint, IndexBatch, SaveCheckpoint
    <2>3. MarkDone(a) => index'[b] = index[b]
      BY DEF MarkDone, TypeOK
    <2>4. index'[b] = index[b]
      BY <2>3 DEF WorkerStep, Scan, ReadCheckpoint, Fetch, IndexBatch, SaveCheckpoint, TypeOK
    <2>5. QED BY <1>1, <1>2, <2>1, <2>2, <2>4 DEF Untouched
  <1>5. ASSUME NEW b \in Accounts PROVE b \notin overtaken' => SoundOf(b)'
    BY <1>3, <1>4, UntouchedSound DEF CheckpointsSound
  <1>6. QED BY <1>1, <1>5 DEF CheckpointsSound

-----------------------------------------------------------------------------
(* All the other steps. *)

\* A new worker waits.
LEMMA HiredWaits ==
  ASSUME TypeOK, NEW a \in Accounts
  PROVE  \A w \in Workers : Hired(a)[w] = worker[a][w] \/ Hired(a)[w].at = "wait"
  <1>1. Waiting.at = "wait"
    BY DEF Waiting, Gone
  <1>2. QED BY <1>1 DEF Hired, TypeOK

LEMMA OpeningSound ==
  ASSUME TypeOK, CheckpointsSound, NEW a \in Accounts,
         Resume(a) \/ EnsureOpen(a, worker[a]), last' = last
  PROVE  CheckpointsSound'
  <1>1. FilesOK /\ worker[a] \in [Workers -> Works] /\ last \in [Accounts -> Tokens]
    BY DEF TypeOK, FilesOK
  <1>2. PICK ws \in [Workers -> Works] :
          /\ EnsureOpen(a, ws)
          /\ \A w \in Workers : ws[w] = worker[a][w] \/ ws[w].at = "wait"
    BY <1>1, HiredTyped, HiredWaits DEF Resume
  <1>3. /\ \A b \in Accounts \ {a} : Untouched(b)
        /\ since'[a] <= last[a]
        /\ a \notin overtaken' => SoundOf(a)'
    BY <1>1, <1>2, EnsureOpenSound
  <1>4. ASSUME NEW b \in Accounts
        PROVE  since'[b] <= last'[b] /\ (b \notin overtaken' => SoundOf(b)')
    <2>1. CASE b = a
      BY <1>3, <2>1
    <2>2. CASE b # a
      BY <1>3, <2>2, UntouchedSound DEF CheckpointsSound, Untouched
    <2>3. QED BY <2>1, <2>2
  <1>5. QED BY <1>4 DEF CheckpointsSound

\* Nothing happens to the index, its workers and its history.
LEMMA IdleSound ==
  ASSUME TypeOK, CheckpointsSound, UNCHANGED <<index, worker>>, KeepsFiles,
         \A a \in Accounts : last'[a] \in {last[a], last[a] + 1}
  PROVE  CheckpointsSound'
  <1>1. \A a \in Accounts : since[a] \in Int /\ last[a] \in Int
    BY DEF TypeOK, Tokens
  <1>2. \A a \in Accounts : since'[a] = since[a]
    BY DEF KeepsFiles
  <1>3. \A a \in Accounts : since'[a] <= last'[a]
    BY <1>1, <1>2 DEF CheckpointsSound
  <1>4. \A a \in Accounts : Untouched(a)
    BY DEF Untouched, KeepsFiles
  <1>5. QED BY <1>3, <1>4, UntouchedSound DEF CheckpointsSound

LEMMA DieSound ==
  ASSUME TypeOK, CheckpointsSound, Die
  PROVE  CheckpointsSound'
  <1>1. overtaken' = overtaken /\ since' = since /\ missed' = missed /\ last' = last
    BY DEF Die, KeepsFiles
  <1>2. ASSUME NEW a \in Accounts, SoundOf(a) PROVE SoundOf(a)'
    <2>1. index'[a] = [index[a] EXCEPT !.open = FALSE] /\ index[a] \in Indexes
      BY DEF Die, TypeOK
    <2>2. /\ index'[a].rows = index[a].rows
          /\ index'[a].token = index[a].token
          /\ index'[a].done = index[a].done
      BY <2>1 DEF Indexes
    <2>3. \A w \in Workers : worker'[a][w].at = "none"
      BY DEF Die, Gone
    <2>4. \A w \in Workers :
            Knows(index'[a].rows \union missed'[a], since'[a], worker'[a][w])
      BY <2>3, WaitingKnows
    <2>5. QED BY <1>1, <1>2, <2>2, <2>4 DEF SoundOf, Sound
  <1>3. QED BY <1>1, <1>2 DEF CheckpointsSound

\* An index of which only the connection is dropped.
LEMMA ClosedSound ==
  ASSUME TypeOK, NEW a \in Accounts, SoundOf(a), index' = [index EXCEPT ![a].open = FALSE],
         worker' = worker, since' = since, missed' = missed
  PROVE  SoundOf(a)'
  <1>1. index'[a] = [index[a] EXCEPT !.open = FALSE] /\ index[a] \in Indexes
    BY DEF TypeOK
  <1>2. /\ index'[a].rows = index[a].rows
        /\ index'[a].token = index[a].token
        /\ index'[a].done = index[a].done
    BY <1>1 DEF Indexes
  <1>3. QED BY <1>2 DEF SoundOf, Sound

LEMMA TurnOffSound ==
  ASSUME TypeOK, CheckpointsSound, NEW a \in Accounts, TurnOff(a)
  PROVE  CheckpointsSound'
  <1>1. FilesOK /\ worker[a] \in [Workers -> Works] /\ last \in [Accounts -> Tokens]
    BY DEF TypeOK, FilesOK
  <1>2. last' = last
    BY DEF TurnOff
  <1> DEFINE Closes == /\ index' = [index EXCEPT ![a].open = FALSE]
                       /\ UNCHANGED worker /\ KeepsFiles
  <1>3. Empties(a, worker[a], FALSE) \/ Closes
    BY DEF TurnOff
  <1>4. since'[a] <= last[a] /\ (a \notin overtaken' => SoundOf(a)')
    <2>1. CASE Empties(a, worker[a], FALSE)
      BY <1>1, <2>1, EmptiesSound
    <2>2. CASE Closes
      BY <2>2, ClosedSound DEF KeepsFiles, CheckpointsSound
    <2>3. QED BY <1>3, <2>1, <2>2
  <1>5. ASSUME NEW b \in Accounts \ {a} PROVE Untouched(b)
    BY <1>3 DEF Empties, KeepsFiles, Untouched, TypeOK
  <1>6. ASSUME NEW b \in Accounts
        PROVE  since'[b] <= last'[b] /\ (b \notin overtaken' => SoundOf(b)')
    <2>1. CASE b = a
      BY <1>2, <1>4, <2>1
    <2>2. CASE b # a
      BY <1>2, <1>5, <2>2, UntouchedSound DEF CheckpointsSound, Untouched
    <2>3. QED BY <2>1, <2>2
  <1>7. QED BY <1>6 DEF CheckpointsSound

LEMMA IndexLiveSound ==
  ASSUME TypeOK, CheckpointsSound, NEW a \in Accounts, IndexLive(a)
  PROVE  CheckpointsSound'
  <1>1. last' = last /\ worker' = worker /\ since' = since /\ missed' = missed
        /\ overtaken' = overtaken
    BY DEF IndexLive, KeepsFiles
  <1>2. index[a] \in Indexes
    BY DEF TypeOK
  <1>3. /\ index[a].rows \subseteq index'[a].rows
        /\ index'[a].token = index[a].token /\ index'[a].done = index[a].done
        /\ \A b \in Accounts \ {a} : index'[b] = index[b]
    <2>1. ASSUME NEW m, index' = [index EXCEPT ![a].rows = @ \union {m}]
          PROVE  <1>3
      BY <1>2, <2>1 DEF TypeOK, Indexes
    <2>2. CASE index' = [index EXCEPT ![a].open = FALSE]
      BY <1>2, <2>2 DEF TypeOK, Indexes
    <2>3. QED BY <2>1, <2>2 DEF IndexLive
  <1>4. ASSUME SoundOf(a) PROVE SoundOf(a)'
    <2> DEFINE i == index[a]
               j == index'[a]
               ws == worker[a]
               s == since[a]
               u == missed[a]
    <2>1. Sound(i, ws, s, u) /\ (SoundOf(a)' <=> Sound(j, ws, s, u))
      BY <1>1, <1>4 DEF SoundOf
    <2>2. i.rows \union u \subseteq j.rows \union u
          /\ j.token \in {0, i.token} /\ j.done = i.done
      BY <1>3
    <2> HIDE DEF i, j, ws, s, u
    <2>3. Sound(j, ws, s, u)
      BY <2>1, <2>2, StaysSound
    <2>4. QED BY <2>1, <2>3
  <1>5. \A b \in Accounts \ {a} : Untouched(b)
    BY <1>1, <1>3 DEF Untouched
  <1>6. ASSUME NEW b \in Accounts PROVE b \notin overtaken' => SoundOf(b)'
    BY <1>1, <1>4, <1>5, UntouchedSound DEF CheckpointsSound
  <1>7. QED BY <1>1, <1>6 DEF CheckpointsSound

LEMMA InitSound == Init => CheckpointsSound
  <1> SUFFICES ASSUME Init, NEW a \in Accounts PROVE since[a] <= last[a] /\ SoundOf(a)
    BY DEF CheckpointsSound
  <1>1. since[a] = 1 /\ last[a] = 1
    BY DEF Init
  <1>2. index[a].token = 0 /\ index[a].done = FALSE
    BY DEF Init, Empty
  <1>3. \A w \in Workers : worker[a][w].at = "none"
    BY DEF Init, Gone
  <1>4. \A w \in Workers : Knows(index[a].rows \union missed[a], since[a], worker[a][w])
    BY <1>3, WaitingKnows
  <1>5. QED BY <1>1, <1>2, <1>4 DEF SoundOf, Sound

LEMMA NextSound == TypeOK /\ CheckpointsSound /\ [Next]_vars => CheckpointsSound'
  <1> SUFFICES ASSUME TypeOK, CheckpointsSound, [Next]_vars PROVE CheckpointsSound'
    OBVIOUS
  <1>1. CASE Launch \/ Toggle \/ SaveSettings
    BY <1>1, IdleSound DEF Launch, Toggle, SaveSettings
  <1>2. CASE Die
    BY <1>2, DieSound
  <1>3. ASSUME NEW a \in Accounts, Restore(a) \/ TurnOn(a) \/ Search(a)
        PROVE  CheckpointsSound'
    <2>1. last' = last
      BY <1>3 DEF Restore, TurnOn, Search
    <2>2. \/ Resume(a) \/ EnsureOpen(a, worker[a])
          \/ UNCHANGED <<index, worker>> /\ KeepsFiles
      BY <1>3 DEF Restore, TurnOn, Search
    <2>3. QED BY <2>1, <2>2, OpeningSound, IdleSound
  <1>4. ASSUME NEW a \in Accounts, TurnOff(a) PROVE CheckpointsSound'
    BY <1>4, TurnOffSound
  <1>5. ASSUME NEW a \in Accounts, Arrive(a) PROVE CheckpointsSound'
    <2>1. \A b \in Accounts : last'[b] \in {last[b], last[b] + 1}
      BY <1>5 DEF Arrive, TypeOK
    <2>2. QED BY <1>5, <2>1, IdleSound DEF Arrive
  <1>6. ASSUME NEW a \in Accounts, IndexLive(a) PROVE CheckpointsSound'
    BY <1>6, IndexLiveSound
  <1>7. ASSUME NEW a \in Accounts, NEW w \in Workers, WorkerStep(a, w)
        PROVE  CheckpointsSound'
    BY <1>7, WorkerStepSound
  <1>8. CASE UNCHANGED vars
    BY <1>8, IdleSound DEF vars, KeepsFiles
  <1>9. QED BY <1>1, <1>2, <1>3, <1>4, <1>5, <1>6, <1>7, <1>8 DEF Next

LEMMA SoundIsIndexed == TypeOK /\ CheckpointsSound => DoneMeansIndexed
  <1> SUFFICES ASSUME TypeOK, CheckpointsSound, NEW a \in Accounts \ overtaken, index[a].done
               PROVE  1..since[a] \subseteq index[a].rows \union missed[a]
    BY DEF DoneMeansIndexed
  <1>1. Above(index[a].rows \union missed[a], since[a], 0)
    BY DEF CheckpointsSound, SoundOf, Sound
  <1>2. QED BY <1>1 DEF Above

\* backfill_room skips a room for ever once mark_backfill_done was written.  Whatever the
\* number of accounts, messages, workers, restarts and changes of the setting, such a room
\* holds every message it had when its index was made, outside the three cases that
\* DoneMeansIndexed names.
THEOREM DoneRoomsAreIndexed == Spec => []DoneMeansIndexed
  <1>1. TypeOK /\ TypeOK' /\ CheckpointsSound /\ [Next]_vars => CheckpointsSound'
    BY NextSound
  <1>2. QED BY <1>1, InitSound, TypeCorrect, SoundIsIndexed, PTL DEF Spec

-----------------------------------------------------------------------------
(* While the setting is on, an account has a worker.                       *)
(*                                                                         *)
(* An account that has none, and no excuse for it, still has a spawned     *)
(* change of the setting that will hire one.                               *)

Alive(a) == index[a].open /\ \E w \in Workers : worker[a][w].at # "none"
OnIsSpawned(a) == \E i \in DOMAIN toggles[a] : toggles[a][i] = TRUE

Served(a) == a \in restored /\ starved[a] = {} => Alive(a) \/ (flag => OnIsSpawned(a))

AllServed == (~up => restored = {}) /\ \A a \in Accounts : Served(a)

\* Some places are taken by a new worker in their order: there is a first one.
LEMMA Least ==
  ASSUME NEW n \in Nat, NEW S \in SUBSET (1..n), S # {}
  PROVE  \E m \in S : \A k \in S : m <= k
  <1>1. S \subseteq Nat
    OBVIOUS
  <1>2. IsWellFoundedOn(OpToRel(<, Nat), Nat)
    BY NatLessThanWellFounded, Zenon
  <1>3. PICK m \in S : \A k \in S : ~(<<k, m>> \in OpToRel(<, Nat))
    BY <1>1, <1>2, WFMin, Zenon
  <1>4. \A k \in S : ~(k < m)
    BY <1>1, <1>3, Zenon DEF OpToRel
  <1>5. QED BY <1>1, <1>4

LEMMA HiredWorks ==
  ASSUME TypeOK, NEW a \in Accounts, Free(a) # {}
  PROVE  \E w \in Workers : Hired(a)[w].at # "none"
  <1>1. Free(a) \in SUBSET (1..MaxWorkers) /\ MaxWorkers \in Nat
    BY DEF Free, Workers
  <1>2. \E m \in Free(a) : \A k \in Free(a) : m <= k
    BY <1>1, Least
  <1> DEFINE new == CHOOSE w \in Free(a) : \A v \in Free(a) : w <= v
  <1>3. new \in Free(a)
    BY <1>2
  <1>4. new \in Workers
    BY <1>3 DEF Free
  <1>5. Hired(a) = [worker[a] EXCEPT ![new] = Waiting]
    BY DEF Hired
  <1> HIDE DEF new
  <1>6. Hired(a)[new] = Waiting
    BY <1>4, <1>5 DEF TypeOK
  <1>7. QED BY <1>4, <1>6 DEF Waiting, Gone

\* What does not touch the service of an account.
Unserved(b) == /\ Alive(b) => Alive(b)'
               /\ toggles'[b] = toggles[b]
               /\ starved[b] \subseteq starved'[b]
               /\ b \in restored' => b \in restored

LEMMA UnservedServed ==
  ASSUME NEW b \in Accounts, Served(b), Unserved(b), flag' = flag
  PROVE  Served(b)'
  BY DEF Served, Unserved, OnIsSpawned

\* A resumed account has a worker and an index, or an excuse.
LEMMA ResumeServes ==
  ASSUME TypeOK, NEW a \in Accounts, Resume(a)
  PROVE  /\ starved'[a] = {} => Alive(a)'
         /\ \A b \in Accounts \ {a} : /\ Alive(b) => Alive(b)'
                                      /\ starved'[b] = starved[b]
  <1>1. PICK w \in Workers : Hired(a)[w].at # "none"
    BY HiredWorks DEF Resume
  <1>2. Hired(a) \in [Workers -> Works]
    BY HiredTyped DEF TypeOK, FilesOK
  <1>3. worker'[a][w].at # "none"
    <2>1. CASE worker' = [worker EXCEPT ![a] = Hired(a)]
      BY <1>1, <2>1 DEF TypeOK
    <2>2. ASSUME NEW open \in BOOLEAN, Empties(a, Hired(a), open)
          PROVE  worker'[a][w].at # "none"
      <3>1. worker'[a][w] \in {Hired(a)[w], [Hired(a)[w] EXCEPT !.old = TRUE]}
        BY <2>2 DEF Empties, Aged, TypeOK
      <3>2. QED BY <1>1, <1>2, <3>1 DEF Works
    <2>3. QED BY <2>1, <2>2 DEF Resume, EnsureOpen
  <1>4. starved'[a] = {} => index'[a].open
    BY DEF Resume, TypeOK
  <1>5. ASSUME NEW b \in Accounts \ {a}
        PROVE  /\ Alive(b) => Alive(b)'
               /\ starved'[b] = starved[b]
    <2>1. index'[b] = index[b] /\ worker'[b] = worker[b]
      BY DEF Resume, EnsureOpen, Empties, TypeOK
    <2>2. QED BY <2>1 DEF Alive, Resume, TypeOK
  <1>6. QED BY <1>3, <1>4, <1>5 DEF Alive

\* A search opens the index of the account, and hires nobody.
LEMMA SearchServes ==
  ASSUME TypeOK, NEW a \in Accounts, Search(a), NEW b \in Accounts
  PROVE  Unserved(b)
  <1>1. CASE b = a
    BY <1>1 DEF Search, Unserved, Alive
  <1>2. CASE b # a
    <2>1. index'[b] = index[b] /\ worker'[b] = worker[b]
      BY <1>2 DEF Search, EnsureOpen, Empties, TypeOK
    <2>2. QED BY <2>1 DEF Search, Unserved, Alive
  <1>3. QED BY <1>1, <1>2

LEMMA IndexLiveServes ==
  ASSUME TypeOK, AllServed, NEW a \in Accounts, IndexLive(a)
  PROVE  AllServed'
  <1>1. ASSUME NEW b \in Accounts \ {a} PROVE Unserved(b)
    <2>1. index'[b] = index[b] /\ starved'[b] = starved[b]
      BY DEF IndexLive, TypeOK
    <2>2. QED BY <2>1 DEF IndexLive, Unserved, Alive
  <1>2. Unserved(a) \/ starved'[a] # {}
    <2>1. ASSUME NEW m, index' = [index EXCEPT ![a].rows = @ \union {m}], UNCHANGED starved
          PROVE  Unserved(a)
      <3>1. index'[a].open = index[a].open
        BY <2>1 DEF TypeOK, Indexes
      <3>2. QED BY <2>1, <3>1 DEF IndexLive, Unserved, Alive
    <2>2. CASE starved' = [starved EXCEPT ![a] = @ \union {"closed"}]
      BY <2>2 DEF TypeOK
    <2>3. QED BY <2>1, <2>2 DEF IndexLive
  <1>3. ASSUME NEW b \in Accounts PROVE Served(b)'
    BY <1>1, <1>2, UnservedServed DEF AllServed, Served, IndexLive
  <1>4. QED BY <1>3 DEF AllServed, IndexLive

\* A worker ends only when it finds no index.
LEMMA WorkerStepServes ==
  ASSUME TypeOK, NEW a \in Accounts, NEW w \in Workers, WorkerStep(a, w),
         NEW b \in Accounts
  PROVE  Unserved(b)
  <1>1. toggles' = toggles /\ starved' = starved /\ restored' = restored
    BY DEF WorkerStep, Scan, ReadCheckpoint, Fetch, IndexBatch, SaveCheckpoint, WorkerKeeps
  <1>2. MarkDone(a) => index'[b].open = index[b].open
    BY DEF MarkDone, TypeOK, Indexes
  <1>3. index'[b].open = index[b].open
    <2>1. ASSUME NEW rows, index' = [index EXCEPT ![a].rows = @ \union rows]
          PROVE  index'[b].open = index[b].open
      BY <2>1 DEF TypeOK, Indexes
    <2>2. ASSUME NEW t, index' = [index EXCEPT ![a].token = t, ![a].done = FALSE]
          PROVE  index'[b].open = index[b].open
      BY <2>2 DEF TypeOK, Indexes
    <2>3. IndexBatch(a, w) => index'[b].open = index[b].open
      BY <2>1 DEF IndexBatch
    <2>4. SaveCheckpoint(a, w) => index'[b].open = index[b].open
      BY <1>2, <2>2 DEF SaveCheckpoint
    <2>5. QED BY <1>2, <2>3, <2>4 DEF WorkerStep, Scan, ReadCheckpoint, Fetch
  <1>4. ASSUME Alive(b) PROVE Alive(b)'
    <2>1. worker[a][w] \in Works /\ Gone \in Works /\ Waiting \in Works
          /\ Waiting.at = "wait"
      BY WaitingTyped DEF TypeOK, Waiting, Gone
    <2>2. ASSUME NEW r, Becomes(a, w, r)
          PROVE  /\ worker'[a][w] = r
                 /\ \A v \in Workers : v = w \/ worker'[a][v] = worker[a][v]
                 /\ b # a => worker'[b] = worker[b]
      BY <2>2 DEF Becomes, TypeOK
    <2>3. index[a].open =>
            \E r : Becomes(a, w, r) /\ r.at # "none"
      <3>1. CASE Scan(a, w) /\ index[a].open
        <4>1. [Waiting EXCEPT !.at = "room"].at = "room"
          BY <2>1 DEF Works
        <4>2. QED BY <2>1, <3>1, <4>1 DEF Scan
      <3>2. CASE ReadCheckpoint(a, w)
        <4>1. ASSUME NEW t PROVE [Gone EXCEPT !.at = "fetch", !.from = t].at = "fetch"
          BY <2>1 DEF Works
        <4>2. QED BY <3>2, <4>1 DEF ReadCheckpoint
      <3>3. CASE Fetch(a, w)
        <4>1. ASSUME NEW s, NEW t
              PROVE  [worker[a][w] EXCEPT !.at = "index", !.batch = s, !.end = t].at = "index"
          BY <2>1 DEF Works
        <4>2. QED BY <2>1, <3>3, <4>1 DEF Fetch
      <3>4. CASE IndexBatch(a, w)
        <4>1. [worker[a][w] EXCEPT !.at = "save", !.batch = {}].at = "save"
          BY <2>1 DEF Works
        <4>2. QED BY <3>4, <4>1 DEF IndexBatch
      <3>5. CASE SaveCheckpoint(a, w)
        <4>1. ASSUME NEW t
              PROVE  [worker[a][w] EXCEPT !.at = "fetch", !.from = t, !.end = 0].at = "fetch"
          BY <2>1 DEF Works
        <4>2. QED BY <2>1, <3>5, <4>1 DEF SaveCheckpoint
      <3>6. QED BY <3>1, <3>2, <3>3, <3>4, <3>5 DEF WorkerStep
    <2>4. PICK v \in Workers : worker[b][v].at # "none"
      BY <1>4 DEF Alive
    <2>5. CASE b = a
      <3>1. PICK r : Becomes(a, w, r) /\ r.at # "none"
        BY <1>4, <2>3, <2>5 DEF Alive
      <3>2. worker'[b][w].at # "none"
        BY <2>2, <2>5, <3>1
      <3>3. QED BY <1>3, <1>4, <3>2 DEF Alive
    <2>6. CASE b # a
      <3>1. \E r : Becomes(a, w, r)
        BY DEF WorkerStep, Scan, ReadCheckpoint, Fetch, IndexBatch, SaveCheckpoint
      <3>2. worker'[b] = worker[b]
        BY <2>2, <2>6, <3>1
      <3>3. QED BY <1>3, <1>4, <3>2 DEF Alive
    <2>7. QED BY <2>5, <2>6
  <1>5. QED BY <1>1, <1>4 DEF Unserved

\* The change of the setting spawns a task that will hire a worker, or is an excuse.
LEMMA ToggleServes ==
  ASSUME TypeOK, AllServed, Toggle
  PROVE  AllServed'
  <1>1. ASSUME NEW a \in Accounts, flag', starved'[a] = {} PROVE OnIsSpawned(a)'
    <2>1. a \in Reached
      BY <1>1 DEF Toggle, TypeOK
    <2>2. ~flag = TRUE /\ toggles'[a] = Append(toggles[a], ~flag)
      BY <1>1, <2>1 DEF Toggle, TypeOK
    <2>3. toggles[a] \in Seq(BOOLEAN) /\ toggles'[a] = Append(toggles[a], TRUE)
      BY <2>2 DEF TypeOK
    <2>4. /\ Len(toggles[a]) + 1 \in DOMAIN toggles'[a]
          /\ toggles'[a][Len(toggles[a]) + 1] = TRUE
      BY <2>3
    <2>5. QED BY <2>4 DEF OnIsSpawned
  <1>2. QED BY <1>1 DEF AllServed, Served, Toggle

LEMMA TurnServes ==
  ASSUME TypeOK, AllServed, NEW a \in Accounts, Restore(a) \/ TurnOff(a) \/ TurnOn(a)
  PROVE  AllServed'
  <1>1. ~up' => restored' = {}
    <2>1. Restore(a) => up'
      BY DEF Restore
    <2>2. TurnOff(a) \/ TurnOn(a) => up' = up /\ restored' = restored
      BY DEF TurnOff, TurnOn
    <2>3. QED BY <2>1, <2>2 DEF AllServed
  <1>2. flag' = flag /\ (\A b \in Accounts \ {a} : b \in restored' => b \in restored)
    BY DEF Restore, TurnOff, TurnOn
  <1>3. ASSUME NEW b \in Accounts \ {a} PROVE Unserved(b)
    <2>1. toggles'[b] = toggles[b]
      BY DEF Restore, TurnOff, TurnOn, Takes, TypeOK
    <2>2. starved[b] \subseteq starved'[b] /\ (Alive(b) => Alive(b)')
      <3>1. CASE Resume(a)
        BY <3>1, ResumeServes
      <3>2. CASE UNCHANGED <<index, worker, starved>>
        BY <3>2 DEF Alive
      <3>3. CASE TurnOff(a)
        <4>1. index'[b] = index[b] /\ worker'[b] = worker[b] /\ starved'[b] = starved[b]
          BY <3>3 DEF TurnOff, Empties, TypeOK
        <4>2. QED BY <4>1 DEF Alive
      <3>4. QED BY <3>1, <3>2, <3>3 DEF Restore, TurnOn
    <2>3. QED BY <1>2, <2>1, <2>2 DEF Unserved
  <1>4. Served(a)'
    <2>1. CASE Resume(a)
      BY <2>1, ResumeServes DEF Served
    <2>2. CASE TurnOff(a)
      <3>1. starved'[a] # {}
        <4>1. \E why : starved' = [starved EXCEPT ![a] = @ \union why] /\ "crossed" \in why
          BY <2>2 DEF TurnOff
        <4>2. QED BY <4>1 DEF TypeOK
      <3>2. QED BY <3>1 DEF Served
    <2>3. CASE Restore(a) /\ ~flag
      BY <1>2, <2>3 DEF Served
    <2>4. CASE TurnOn(a) /\ a \notin restored
      BY <2>4 DEF TurnOn, Served
    <2>5. QED BY <2>1, <2>2, <2>3, <2>4 DEF Restore, TurnOn
  <1>5. ASSUME NEW b \in Accounts PROVE Served(b)'
    BY <1>2, <1>3, <1>4, UnservedServed DEF AllServed
  <1>6. QED BY <1>1, <1>5 DEF AllServed

LEMMA NextServes == TypeOK /\ AllServed /\ [Next]_vars => AllServed'
  <1> SUFFICES ASSUME TypeOK, AllServed, [Next]_vars PROVE AllServed'
    OBVIOUS
  <1>1. CASE Toggle
    BY <1>1, ToggleServes
  <1>2. CASE Launch \/ Die
    BY <1>2 DEF Launch, Die, AllServed, Served
  <1>3. ASSUME NEW a \in Accounts, Restore(a) \/ TurnOff(a) \/ TurnOn(a) PROVE AllServed'
    BY <1>3, TurnServes
  <1>4. ASSUME NEW a \in Accounts, IndexLive(a) PROVE AllServed'
    BY <1>4, IndexLiveServes
  <1>5. ASSUME flag' = flag, up' = up, restored' = restored,
               \A b \in Accounts : Unserved(b)
        PROVE  AllServed'
    BY <1>5, UnservedServed DEF AllServed
  <1>6. ASSUME NEW a \in Accounts, Search(a) PROVE AllServed'
    BY <1>5, <1>6, SearchServes DEF Search
  <1>7. ASSUME NEW a \in Accounts, NEW w \in Workers, WorkerStep(a, w) PROVE AllServed'
    <2>1. flag' = flag /\ up' = up /\ restored' = restored
      BY <1>7 DEF WorkerStep, Scan, ReadCheckpoint, Fetch, IndexBatch, SaveCheckpoint,
                  WorkerKeeps
    <2>2. QED BY <1>5, <1>7, <2>1, WorkerStepServes
  <1>8. ASSUME UNCHANGED <<index, worker, toggles, flag, up, restored, starved>>
        PROVE  AllServed'
    BY <1>5, <1>8 DEF Unserved, Alive
  <1>9. CASE SaveSettings \/ (\E a \in Accounts : Arrive(a)) \/ UNCHANGED vars
    BY <1>8, <1>9 DEF SaveSettings, Arrive, vars
  <1>10. QED BY <1>1, <1>2, <1>3, <1>4, <1>6, <1>7, <1>9 DEF Next

LEMMA ServedHasWorker == AllServed => EnabledMeansIndexing
  <1> SUFFICES ASSUME AllServed, NEW a \in Accounts, flag, Settled(a), starved[a] = {}
               PROVE  Free(a) # Workers
    BY DEF EnabledMeansIndexing
  <1>1. ~OnIsSpawned(a)
    BY DEF OnIsSpawned, Settled
  <1>2. Alive(a)
    BY <1>1 DEF AllServed, Served, Settled
  <1>3. QED BY <1>2 DEF Alive, Free

\* Sign-ins, set_e2ee_search_enabled and the backfill worker's own exit together never
\* leave a signed-in account without a worker while the setting is on, whatever the
\* number of accounts, workers, restarts and changes of the setting, outside the three
\* cases that starved names.
THEOREM EnabledAccountsAreIndexed == Spec => []EnabledMeansIndexing
  <1>1. Init => AllServed
    BY DEF Init, AllServed, Served
  <1>2. TypeOK /\ AllServed /\ [Next]_vars => AllServed'
    BY NextServes
  <1>3. QED BY <1>1, <1>2, TypeCorrect, ServedHasWorker, PTL DEF Spec

=============================================================================
