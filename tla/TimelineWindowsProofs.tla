----------------------- MODULE TimelineWindowsProofs -----------------------
(***************************************************************************)
(* TLAPS proofs about TimelineWindows, for every set of rooms, every cap   *)
(* and any number of tasks.                                                *)
(*                                                                         *)
(* What a step does to the two maps depends on the tasks that are between  *)
(* their two locks, and on nothing else.  So the proofs look at the state  *)
(* through three sets per room, show which of seven things a step can do   *)
(* to them (StepEffect), and argue about those.                            *)
(***************************************************************************)
EXTENDS TimelineWindows, FiniteSetTheorems, TLAPS

(* The part of TypeOK that the arguments need: all but the order of use.   *)
Shape ==
    /\ window \in [Rooms -> TaskIds \cup {None}] /\ focused \in [Rooms -> TaskIds \cup {None}]
    /\ timelines \in [Rooms -> TaskIds \cup {None}]
    /\ building \subseteq Rooms
    /\ latestJump \in [Rooms -> TaskIds \cup {None}]
    /\ task \in Seq(TaskStates) /\ Len(task) <= MaxTasks
    /\ raced \subseteq Rooms /\ crossed \subseteq Rooms

(* The tasks between their two locks, by what they still have to do.       *)
LegacyHalf(r) == {t \in DOMAIN task : task[t].pc = "legacySecond" /\ task[t].room = r}
WindowHalf(r) == {t \in DOMAIN task : task[t].pc = "windowSecond" /\ task[t].room = r}
DropHalf(r)   == {t \in DOMAIN task : task[t].pc = "dropLegacy" /\ task[t].victim = r}
Half(r)       == LegacyHalf(r) \cup WindowHalf(r) \cup DropHalf(r)

-----------------------------------------------------------------------------
(* Updates of the task list.                                               *)

LEMMA TaskDomain ==
    ASSUME Shape PROVE DOMAIN task \subseteq TaskIds /\ None \notin DOMAIN task
  <1>1. DOMAIN task = 1..Len(task) /\ Len(task) \in Nat
    BY DEF Shape
  <1> QED
    BY <1>1, MaxTasksAssumption DEF Shape, TaskIds, None

LEMMA TaskRecord ==
    ASSUME Shape, NEW t \in DOMAIN task PROVE task[t] \in TaskStates
  BY DEF Shape

LEMMA GotoFacts ==
    ASSUME Shape, NEW t \in DOMAIN task, NEW pc \in Pcs, Goto(t, pc)
    PROVE  /\ task' \in Seq(TaskStates) /\ Len(task') = Len(task) /\ DOMAIN task' = DOMAIN task
           /\ task'[t].pc = pc /\ task'[t].kind = task[t].kind
           /\ task'[t].room = task[t].room /\ task'[t].victim = task[t].victim
           /\ \A u \in DOMAIN task \ {t} : task'[u] = task[u]
  <1> DEFINE new == [task[t] EXCEPT !.pc = pc]
  <1>1. new \in TaskStates /\ new.pc = pc /\ new.kind = task[t].kind
        /\ new.room = task[t].room /\ new.victim = task[t].victim
    BY TaskRecord DEF TaskStates
  <1>2. task' = [task EXCEPT ![t] = new]
    BY DEF Goto
  <1> HIDE DEF new
  <1> QED
    BY <1>1, <1>2 DEF Shape

LEMMA VictimFacts ==
    ASSUME Shape, NEW t \in DOMAIN task, NEW r \in Rooms,
           Release(t, r)
    PROVE  /\ task' \in Seq(TaskStates) /\ Len(task') = Len(task) /\ DOMAIN task' = DOMAIN task
           /\ task'[t].pc = "dropWindow" /\ task'[t].room = task[t].room
           /\ task'[t].kind = task[t].kind
           /\ \A u \in DOMAIN task \ {t} : task'[u] = task[u]
  <1> DEFINE new == [task[t] EXCEPT !.pc = "dropWindow", !.victim = r]
  <1>1. new \in TaskStates /\ new.pc = "dropWindow" /\ new.room = task[t].room
        /\ new.kind = task[t].kind
    BY TaskRecord DEF TaskStates, Pcs
  <1>2. task' = [task EXCEPT ![t] = new]
    BY DEF Release
  <1> HIDE DEF new
  <1> QED
    BY <1>1, <1>2 DEF Shape

LEMMA StartFacts ==
    ASSUME Shape, NEW kind \in Kinds, NEW r \in Rooms, Start(kind, r)
    PROVE  /\ task' \in Seq(TaskStates) /\ Len(task') <= MaxTasks
           /\ DOMAIN task' = DOMAIN task \cup {Len(task')}
           /\ Len(task') \in TaskIds
           /\ task'[Len(task')].pc \in {"look", "check", "dropWindow"}
           /\ task'[Len(task')].kind = "poll" => task'[Len(task')].pc = "look"
           /\ \A u \in DOMAIN task : task'[u] = task[u]
  <1> DEFINE new == [kind |-> kind, room |-> r, pc |-> FirstPc(kind), victim |-> r]
  <1>1. /\ FirstPc(kind) \in {"look", "check", "dropWindow"}
        /\ kind = "poll" => FirstPc(kind) = "look"
    BY DEF FirstPc, Kinds
  <1>2. new \in TaskStates /\ new.pc = FirstPc(kind) /\ new.kind = kind
    BY <1>1 DEF TaskStates, Pcs
  <1>3. task' = Append(task, new) /\ Len(task) < MaxTasks
    BY DEF Start
  <1> HIDE DEF new
  <1>4. /\ task' \in Seq(TaskStates) /\ Len(task') = Len(task) + 1
        /\ DOMAIN task' = 1..(Len(task) + 1) /\ DOMAIN task = 1..Len(task)
        /\ task'[Len(task) + 1] = new
        /\ \A u \in DOMAIN task : task'[u] = task[u]
    BY <1>2, <1>3 DEF Shape
  <1>5. Len(task) \in Nat
    BY DEF Shape
  <1>6. Len(task') <= MaxTasks /\ Len(task') \in TaskIds
        /\ DOMAIN task' = DOMAIN task \cup {Len(task')}
    BY <1>3, <1>4, <1>5, MaxTasksAssumption DEF TaskIds
  <1> QED
    BY <1>1, <1>2, <1>4, <1>6

-----------------------------------------------------------------------------
(* Type correctness.                                                       *)

LEMMA PcFacts ==
    {"done", "look", "lookLegacy", "mark", "check", "claim", "build", "windowFirst",
     "legacySecond", "legacyFirst", "windowSecond", "touch", "cap", "dropWindow", "dropLegacy",
     "dropRecent", "focus", "current", "apply"} \subseteq Pcs
  BY DEF Pcs

(* Every step of a task leaves the list of tasks well formed.              *)
LEMMA TaskStepShape ==
    ASSUME Shape, NEW t \in DOMAIN task, TaskStep(t)
    PROVE  task' \in Seq(TaskStates) /\ Len(task') = Len(task)
  <1>1. ASSUME NEW pc \in Pcs, Goto(t, pc)
        PROVE  task' \in Seq(TaskStates) /\ Len(task') = Len(task)
    BY <1>1, GotoFacts
  <1>2. ASSUME NEW r \in Rooms, Release(t, r)
        PROVE  task' \in Seq(TaskStates) /\ Len(task') = Len(task)
    BY <1>2, VictimFacts
  <1>3. CASE Look(t)
    BY <1>1, <1>3, PcFacts DEF Look, Found
  <1>4. CASE LookLegacy(t)
    BY <1>1, <1>4, PcFacts DEF LookLegacy, Found
  <1>5. CASE Mark(t)
    BY <1>1, <1>5, PcFacts DEF Mark
  <1>6. CASE Check(t)
    BY <1>1, <1>6, PcFacts DEF Check
  <1>7. CASE Claim(t)
    BY <1>1, <1>7, PcFacts DEF Claim
  <1>8. CASE Build(t)
    BY <1>1, <1>8, PcFacts DEF Build
  <1>9. CASE WindowFirst(t)
    BY <1>1, <1>9, PcFacts DEF WindowFirst
  <1>10. CASE LegacySecond(t)
    BY <1>1, <1>10, PcFacts DEF LegacySecond
  <1>11. CASE LegacyFirst(t)
    BY <1>1, <1>11, PcFacts DEF LegacyFirst
  <1>12. CASE WindowSecond(t)
    BY <1>1, <1>12, PcFacts DEF WindowSecond
  <1>13. CASE Touch(t)
    BY <1>1, <1>13, PcFacts DEF Touch
  <1>14. CASE Cap(t)
    BY <1>1, <1>2, <1>14, PcFacts DEF Cap, Evictable
  <1>15. CASE DropWindow(t)
    BY <1>1, <1>15, PcFacts DEF DropWindow
  <1>16. CASE DropLegacy(t)
    BY <1>1, <1>16, PcFacts DEF DropLegacy
  <1>17. CASE DropRecent(t)
    BY <1>1, <1>17, PcFacts DEF DropRecent
  <1>18. CASE Focus(t)
    BY <1>1, <1>18, PcFacts DEF Focus
  <1>19. CASE Current(t)
    BY <1>1, <1>19, PcFacts DEF Current
  <1>20. CASE Apply(t)
    BY <1>1, <1>20, PcFacts DEF Apply
  <1> QED
    BY <1>3, <1>4, <1>5, <1>6, <1>7, <1>8, <1>9, <1>10, <1>11, <1>12, <1>13, <1>14,
       <1>15, <1>16, <1>17, <1>18, <1>19, <1>20 DEF TaskStep

LEMMA InsertFacts ==
    ASSUME Shape, NEW t \in DOMAIN task
    PROVE  /\ InsertWindow(t) => /\ window' \in [Rooms -> TaskIds \cup {None}]
                                 /\ focused' \in [Rooms -> TaskIds \cup {None}]
           /\ InsertTimeline(t) => timelines' \in [Rooms -> TaskIds \cup {None}]
  BY TaskDomain DEF InsertWindow, InsertTimeline, Shape

LEMMA RaceFacts ==
    ASSUME Shape, NEW r \in Rooms
    PROVE  Race(r) \subseteq Rooms
  BY DEF Race, Shape

(* ... and the rest of the state.                                          *)
LEMMA TaskStepMaps ==
    ASSUME Shape, NEW t \in DOMAIN task, TaskStep(t)
    PROVE  /\ window' \in [Rooms -> TaskIds \cup {None}]
           /\ focused' \in [Rooms -> TaskIds \cup {None}]
           /\ timelines' \in [Rooms -> TaskIds \cup {None}]
           /\ building' \subseteq Rooms
           /\ latestJump' \in [Rooms -> TaskIds \cup {None}]
           /\ raced' \subseteq Rooms /\ crossed' \subseteq Rooms
  <1>1. task[t].room \in Rooms /\ task[t].victim \in Rooms
    BY TaskRecord DEF TaskStates
  <1>2. SlotFreed(t) \subseteq Rooms
    BY DEF SlotFreed, Shape
  <1>3. CASE Look(t)
    BY <1>3 DEF Look, maps, history, Shape
  <1>4. CASE LookLegacy(t)
    BY <1>4 DEF LookLegacy, maps, history, Shape
  <1>5. CASE Mark(t)
    BY <1>5 DEF Mark, maps, history, Shape
  <1>6. CASE Check(t)
    BY <1>6 DEF Check, maps, history, Shape
  <1>7. CASE Claim(t)
    BY <1>1, <1>7 DEF Claim, maps, history, Shape
  <1>8. CASE Build(t)
    BY <1>2, <1>8 DEF Build, maps, history, Shape
  <1>9. CASE WindowFirst(t)
    BY <1>1, <1>9, InsertFacts, RaceFacts DEF WindowFirst, Shape
  <1>10. CASE LegacySecond(t)
    BY <1>10, InsertFacts DEF LegacySecond, history, Shape
  <1>11. CASE LegacyFirst(t)
    BY <1>1, <1>2, <1>11, InsertFacts, RaceFacts DEF LegacyFirst, Shape
  <1>12. CASE WindowSecond(t)
    BY <1>12, InsertFacts DEF WindowSecond, history, Shape
  <1>13. CASE Touch(t)
    BY <1>2, <1>13 DEF Touch, maps, history, Shape
  <1>14. CASE Cap(t)
    BY <1>14 DEF Cap, maps, history, Shape
  <1>15. CASE DropWindow(t)
    BY <1>1, <1>15, RaceFacts DEF DropWindow, Shape
  <1>16. CASE DropLegacy(t)
    BY <1>1, <1>16 DEF DropLegacy, LegacyDropped, Shape
  <1>17. CASE DropRecent(t)
    BY <1>17 DEF DropRecent, maps, history, Shape
  <1>18. CASE Focus(t)
    BY <1>18 DEF Focus, maps, history, Shape
  <1>19. CASE Current(t)
    BY <1>19 DEF Current, maps, history, Shape
  <1>20. CASE Apply(t)
    BY <1>20, TaskDomain DEF Apply, history, Shape
  <1> QED
    BY <1>3, <1>4, <1>5, <1>6, <1>7, <1>8, <1>9, <1>10, <1>11, <1>12, <1>13, <1>14,
       <1>15, <1>16, <1>17, <1>18, <1>19, <1>20 DEF TaskStep

LEMMA InitShape == Init => Shape
  <1> SUFFICES ASSUME Init PROVE Shape
    OBVIOUS
  <1>1. task = <<>>
    BY DEF Init
  <1>2. task \in Seq(TaskStates) /\ Len(task) = 0
    BY <1>1
  <1>3. Len(task) <= MaxTasks
    BY <1>2, MaxTasksAssumption
  <1> QED
    BY <1>2, <1>3 DEF Init, Shape

LEMMA StepShape == Shape /\ [Next]_vars => Shape'
  <1> SUFFICES ASSUME Shape, [Next]_vars PROVE Shape'
    OBVIOUS
  <1>1. ASSUME NEW kind \in Kinds, NEW r \in Rooms, Start(kind, r) PROVE Shape'
    BY <1>1, StartFacts DEF Start, maps, history, Shape
  <1>2. ASSUME NEW r \in Rooms, ReturnToLive(r) PROVE Shape'
    BY <1>2 DEF ReturnToLive, history, Shape
  <1>3. ASSUME NEW t \in DOMAIN task, TaskStep(t) PROVE Shape'
    BY <1>3, TaskStepShape, TaskStepMaps DEF Shape
  <1>4. CASE UNCHANGED vars
    BY <1>4 DEF vars, Shape
  <1> QED
    BY <1>1, <1>2, <1>3, <1>4 DEF Next

(* Every variable but the order of use is always in its range.             *)
THEOREM ShapeInvariant == Spec => []Shape
  BY InitShape, StepShape, PTL DEF Spec

-----------------------------------------------------------------------------
(* The order of use.                                                       *)

Once(q) == \A i, j \in DOMAIN q : q[i] = q[j] => i = j

Queue(q) == q \in Seq(Rooms) /\ Once(q)

(* Dropping a room leaves the others in the queue, each once, as retain()  *)
(* does.                                                                   *)
LEMMA WithoutFacts ==
    ASSUME Queue(recent), NEW r \in Rooms
    PROVE  /\ Queue(Without(r))
           /\ \A i \in DOMAIN Without(r) : Without(r)[i] # r
           /\ \A j \in DOMAIN recent : recent[j] # r =>
                 \E i \in DOMAIN Without(r) : Without(r)[i] = recent[j]
  <1>1. CASE \A k \in DOMAIN recent : recent[k] # r
    BY <1>1 DEF Without
  <1>2. CASE ~\A k \in DOMAIN recent : recent[k] # r
    <2>1. Place(r) \in DOMAIN recent /\ recent[Place(r)] = r
      BY <1>2 DEF Place
    <2> DEFINE n == Len(recent)
               k == Place(r)
               q == [i \in 1..(n - 1) |-> recent[IF i < k THEN i ELSE i + 1]]
    <2>2. n \in Nat /\ DOMAIN recent = 1..n /\ k \in 1..n /\ recent[k] = r
      BY <2>1 DEF Queue
    <2>3. Without(r) = q
      BY <1>2 DEF Without
    <2> HIDE DEF n, k
    <2>4. n - 1 \in Nat
      BY <2>2
    <2>5. \A i \in 1..(n - 1) : /\ (IF i < k THEN i ELSE i + 1) \in 1..n
                                /\ (IF i < k THEN i ELSE i + 1) # k
      BY <2>2
    <2>6. \A i \in 1..(n - 1) : q[i] \in Rooms /\ q[i] # r
      BY <2>2, <2>5 DEF Queue, Once
    <2>7. q \in Seq(Rooms) /\ DOMAIN q = 1..(n - 1)
      BY <2>4, <2>6
    <2>8. ASSUME NEW i \in 1..(n - 1), NEW j \in 1..(n - 1), q[i] = q[j]
          PROVE  i = j
      <3>1. (IF i < k THEN i ELSE i + 1) = (IF j < k THEN j ELSE j + 1)
        BY <2>2, <2>5, <2>8 DEF Queue, Once
      <3> QED
        BY <2>2, <3>1
    <2>9. ASSUME NEW j \in DOMAIN recent, recent[j] # r
          PROVE  \E i \in 1..(n - 1) : q[i] = recent[j]
      <3>1. CASE j < k
        <4>1. j \in 1..(n - 1) /\ q[j] = recent[j]
          BY <2>2, <3>1
        <4> QED
          BY <4>1
      <3>2. CASE k < j
        <4>1. j - 1 \in 1..(n - 1) /\ ~(j - 1 < k) /\ (j - 1) + 1 = j
          BY <2>2, <3>2
        <4>2. q[j - 1] = recent[j]
          BY <4>1
        <4> QED
          BY <4>1, <4>2
      <3> QED
        BY <2>2, <2>9, <3>1, <3>2
    <2>10. DOMAIN q = 1..(n - 1) /\ Queue(q)
      BY <2>7, <2>8 DEF Queue, Once
    <2> HIDE DEF q
    <2> QED
      BY <2>3, <2>6, <2>9, <2>10
  <1> QED
    BY <1>1, <1>2

LEMMA TouchedFacts ==
    ASSUME Queue(recent), NEW r \in Rooms PROVE Queue(Touched(r))
  <1> DEFINE q == Without(r)
             p == <<r>> \o q
  <1>1. q \in Seq(Rooms) /\ Once(q) /\ \A i \in DOMAIN q : q[i] # r
    BY WithoutFacts DEF Queue
  <1>2. Touched(r) = p
    BY DEF Touched
  <1> HIDE DEF q
  <1>3. /\ p \in Seq(Rooms) /\ Len(q) \in Nat /\ DOMAIN q = 1..Len(q)
        /\ DOMAIN p = 1..(Len(q) + 1) /\ p[1] = r
        /\ \A i \in 2..(Len(q) + 1) : p[i] = q[i - 1] /\ i - 1 \in DOMAIN q
    BY <1>1
  <1> HIDE DEF p
  <1>4. ASSUME NEW i \in DOMAIN p, NEW j \in DOMAIN p, p[i] = p[j] PROVE i = j
    <2>1. CASE i = 1 /\ j = 1
      BY <2>1
    <2>2. CASE i # 1 /\ j # 1
      <3>1. /\ i \in 2..(Len(q) + 1) /\ j \in 2..(Len(q) + 1)
            /\ i - 1 = j - 1 => i = j
        BY <1>3, <2>2
      <3>2. i - 1 \in DOMAIN q /\ j - 1 \in DOMAIN q /\ q[i - 1] = q[j - 1]
        BY <1>3, <1>4, <3>1
      <3> QED
        BY <1>1, <3>1, <3>2 DEF Once
    <2>3. CASE i = 1 /\ j # 1
      BY <1>1, <1>3, <1>4, <2>3
    <2>4. CASE i # 1 /\ j = 1
      BY <1>1, <1>3, <1>4, <2>4
    <2> QED
      BY <2>1, <2>2, <2>3, <2>4
  <1> QED
    BY <1>2, <1>3, <1>4 DEF Queue, Once

LEMMA QueueStep == Shape /\ Queue(recent) /\ [Next]_vars => Queue(recent')
  <1> SUFFICES ASSUME Shape, Queue(recent), [Next]_vars PROVE Queue(recent')
    OBVIOUS
  <1>1. ASSUME NEW t \in DOMAIN task, TaskStep(t) PROVE Queue(recent')
    <2>1. task[t].room \in Rooms /\ task[t].victim \in Rooms
      BY TaskRecord DEF TaskStates
    <2>2. CASE Mark(t)
      BY <2>1, <2>2, TouchedFacts DEF Mark
    <2>3. CASE Touch(t)
      BY <2>1, <2>3, TouchedFacts DEF Touch
    <2>4. CASE DropRecent(t)
      BY <2>1, <2>4, WithoutFacts DEF DropRecent
    <2>5. ASSUME recent' = recent PROVE Queue(recent')
      BY <2>5
    <2> QED
      BY <1>1, <2>2, <2>3, <2>4, <2>5
      DEF TaskStep, Look, LookLegacy, Check, Claim, Build, WindowFirst, LegacySecond,
          LegacyFirst, WindowSecond, Cap, DropWindow, DropLegacy, Focus, Current, Apply
  <1>2. CASE UNCHANGED recent
    BY <1>2
  <1> QED
    BY <1>1, <1>2 DEF Next, Start, ReturnToLive, vars

(* However many rooms are opened, sent to and released: every variable     *)
(* stays in its range, and touch_recent() and release_room() keep the LRU  *)
(* queue free of rooms listed twice, which enforce_window_cap() would pick *)
(* by the wrong place.                                                     *)
THEOREM TypeCorrect == Spec => []TypeOK
  <1>1. Init => Queue(recent)
    <2> SUFFICES ASSUME Init PROVE Queue(recent)
      OBVIOUS
    <2>1. recent = <<>>
      BY DEF Init
    <2> QED
      BY <2>1 DEF Queue, Once
  <1>2. Shape /\ Queue(recent) => TypeOK
    BY DEF Shape, Queue, Once, TypeOK
  <1> DEFINE QueueOK == Queue(recent)
  <1>3. Init => QueueOK
    BY <1>1
  <1>4. Shape /\ QueueOK /\ [Next]_vars => QueueOK'
    BY QueueStep
  <1>5. Shape /\ QueueOK => TypeOK
    BY <1>2
  <1> HIDE DEF QueueOK
  <1> QED
    BY <1>3, <1>4, <1>5, InitShape, StepShape, PTL DEF Spec

-----------------------------------------------------------------------------
(* What a step does to one room.                                           *)

(* The tasks half way after a step of t to pc.                             *)
LEMMA HalvesAfter ==
    ASSUME Shape, NEW t \in DOMAIN task, NEW pc \in Pcs, Goto(t, pc), NEW r \in Rooms
    PROVE  /\ LegacyHalf(r)' = IF pc = "legacySecond" /\ task[t].room = r
                               THEN LegacyHalf(r) \cup {t}
                               ELSE IF task[t].pc = "legacySecond"
                               THEN LegacyHalf(r) \ {t} ELSE LegacyHalf(r)
           /\ WindowHalf(r)' = IF pc = "windowSecond" /\ task[t].room = r
                               THEN WindowHalf(r) \cup {t}
                               ELSE IF task[t].pc = "windowSecond"
                               THEN WindowHalf(r) \ {t} ELSE WindowHalf(r)
           /\ DropHalf(r)'   = IF pc = "dropLegacy" /\ task[t].victim = r
                               THEN DropHalf(r) \cup {t}
                               ELSE IF task[t].pc = "dropLegacy"
                               THEN DropHalf(r) \ {t} ELSE DropHalf(r)
  <1>1. /\ DOMAIN task' = DOMAIN task
        /\ task'[t].pc = pc /\ task'[t].room = task[t].room /\ task'[t].victim = task[t].victim
        /\ \A u \in DOMAIN task \ {t} : task'[u] = task[u]
    BY GotoFacts
  <1>2. LegacyHalf(r)' = IF pc = "legacySecond" /\ task[t].room = r
                         THEN LegacyHalf(r) \cup {t}
                         ELSE IF task[t].pc = "legacySecond"
                         THEN LegacyHalf(r) \ {t} ELSE LegacyHalf(r)
    BY <1>1 DEF LegacyHalf
  <1>3. WindowHalf(r)' = IF pc = "windowSecond" /\ task[t].room = r
                         THEN WindowHalf(r) \cup {t}
                         ELSE IF task[t].pc = "windowSecond"
                         THEN WindowHalf(r) \ {t} ELSE WindowHalf(r)
    BY <1>1 DEF WindowHalf
  <1>4. DropHalf(r)' = IF pc = "dropLegacy" /\ task[t].victim = r
                         THEN DropHalf(r) \cup {t}
                         ELSE IF task[t].pc = "dropLegacy"
                         THEN DropHalf(r) \ {t} ELSE DropHalf(r)
    BY <1>1 DEF DropHalf
  <1> QED
    BY <1>2, <1>3, <1>4

LEMMA RaceMeansHalf ==
    ASSUME NEW q \in Rooms, NEW r \in Rooms
    PROVE  r \in Race(q) <=> r \in raced \/ (r = q /\ Half(r) # {})
  <1>1. (\E t \in DOMAIN task : Halfway(t) /\ Target(t) = q) <=> Half(q) # {}
    BY DEF Halfway, Target, Half, LegacyHalf, WindowHalf, DropHalf
  <1> QED
    BY <1>1 DEF Race

SameMaps(r)   == window'[r] = window[r] /\ timelines'[r] = timelines[r]
SameHalves(r) == LegacyHalf(r)' = LegacyHalf(r) /\ WindowHalf(r)' = WindowHalf(r)
                 /\ DropHalf(r)' = DropHalf(r)
SameRaced(r)   == r \in raced' <=> r \in raced
MaybeRaced(r)  == r \in raced' <=> r \in raced \/ Half(r) # {}
SameCrossed(r) == r \in crossed' <=> r \in crossed

Quiet(r) == SameMaps(r) /\ SameHalves(r) /\ SameRaced(r) /\ SameCrossed(r)

FirstWindow(t, r) ==
    /\ window[r] = None /\ window'[r] = t /\ timelines'[r] = timelines[r]
    /\ LegacyHalf(r)' = LegacyHalf(r) \cup {t}
    /\ WindowHalf(r)' = WindowHalf(r) /\ DropHalf(r)' = DropHalf(r)
    /\ MaybeRaced(r) /\ SameCrossed(r)

SecondTimeline(t, r) ==
    /\ t \in LegacyHalf(r) /\ timelines'[r] = t /\ window'[r] = window[r]
    /\ LegacyHalf(r)' = LegacyHalf(r) \ {t}
    /\ WindowHalf(r)' = WindowHalf(r) /\ DropHalf(r)' = DropHalf(r)
    /\ SameRaced(r) /\ SameCrossed(r)

FirstTimeline(t, r) ==
    /\ timelines'[r] = t /\ window'[r] = window[r]
    /\ WindowHalf(r)' = WindowHalf(r) \cup {t}
    /\ LegacyHalf(r)' = LegacyHalf(r) /\ DropHalf(r)' = DropHalf(r)
    /\ MaybeRaced(r) /\ SameCrossed(r)

SecondWindow(t, r) ==
    /\ t \in WindowHalf(r) /\ window'[r] = t /\ timelines'[r] = timelines[r]
    /\ WindowHalf(r)' = WindowHalf(r) \ {t}
    /\ LegacyHalf(r)' = LegacyHalf(r) /\ DropHalf(r)' = DropHalf(r)
    /\ SameRaced(r) /\ SameCrossed(r)

FirstDrop(t, r) ==
    /\ window'[r] = None /\ timelines'[r] = timelines[r]
    /\ DropHalf(r)' = DropHalf(r) \cup {t}
    /\ LegacyHalf(r)' = LegacyHalf(r) /\ WindowHalf(r)' = WindowHalf(r)
    /\ MaybeRaced(r) /\ SameCrossed(r)

SecondDrop(t, r) ==
    /\ t \in DropHalf(r) /\ timelines'[r] = None /\ window'[r] = window[r]
    /\ DropHalf(r)' = DropHalf(r) \ {t}
    /\ LegacyHalf(r)' = LegacyHalf(r) /\ WindowHalf(r)' = WindowHalf(r)
    /\ SameRaced(r) /\ (r \in crossed' <=> LegacyHalf(r) # {})

Effect(t, r) ==
    \/ FirstWindow(t, r) \/ SecondTimeline(t, r) \/ FirstTimeline(t, r)
    \/ SecondWindow(t, r) \/ FirstDrop(t, r) \/ SecondDrop(t, r)

(* A step that is neither before nor after one of the halves, and leaves   *)
(* the maps alone.                                                         *)
LEMMA QuietGoto ==
    ASSUME Shape, NEW t \in DOMAIN task, NEW pc \in Pcs, Goto(t, pc), NEW r \in Rooms,
           pc \notin {"legacySecond", "windowSecond", "dropLegacy"},
           task[t].pc \notin {"legacySecond", "windowSecond", "dropLegacy"}
    PROVE  SameHalves(r)
  BY HalvesAfter DEF SameHalves

LEMMA QuietRelease ==
    ASSUME Shape, NEW t \in DOMAIN task, NEW q \in Rooms, Release(t, q), NEW r \in Rooms,
           task[t].pc = "cap"
    PROVE  SameHalves(r)
  <1>1. /\ DOMAIN task' = DOMAIN task /\ task'[t].pc = "dropWindow"
        /\ \A u \in DOMAIN task \ {t} : task'[u] = task[u]
    BY VictimFacts
  <1> QED
    BY <1>1 DEF SameHalves, LegacyHalf, WindowHalf, DropHalf

LEMMA QuietStart ==
    ASSUME Shape, NEW kind \in Kinds, NEW q \in Rooms, Start(kind, q), NEW r \in Rooms
    PROVE  SameHalves(r)
  <1>1. /\ DOMAIN task' = DOMAIN task \cup {Len(task')}
        /\ task'[Len(task')].pc \in {"look", "check", "dropWindow"}
        /\ \A u \in DOMAIN task : task'[u] = task[u]
    BY StartFacts
  <1>2. DOMAIN task' \ {Len(task')} \subseteq DOMAIN task
    BY <1>1
  <1>3. Len(task') \notin DOMAIN task
    BY DEF Start, Shape
  <1> QED
    BY <1>1, <1>2, <1>3 DEF SameHalves, LegacyHalf, WindowHalf, DropHalf

(* The steps of a task that are not about the maps.                        *)
QuietStep(t) ==
    \/ Look(t) \/ LookLegacy(t) \/ Mark(t)
    \/ Check(t) \/ Claim(t) \/ Build(t)
    \/ Touch(t) \/ Cap(t) \/ DropRecent(t)
    \/ Focus(t) \/ Current(t) \/ Apply(t)

LEMMA QuietTasks ==
    ASSUME Shape, NEW t \in DOMAIN task, QuietStep(t), NEW r \in Rooms
    PROVE  Quiet(r)
  <1> DEFINE Calm == {"done", "lookLegacy", "mark", "check", "claim", "build",
                      "windowFirst", "legacyFirst", "touch", "cap", "focus", "current",
                      "apply"}
  <1>1. ASSUME NEW pc \in Calm, Goto(t, pc),
               task[t].pc \notin {"legacySecond", "windowSecond", "dropLegacy"}
        PROVE  SameHalves(r)
    <2>1. pc \in Pcs /\ pc \notin {"legacySecond", "windowSecond", "dropLegacy"}
      BY DEF Pcs
    <2> QED
      BY <1>1, <2>1, QuietGoto
  <1>2. ASSUME UNCHANGED <<window, timelines, raced, crossed>>, SameHalves(r) PROVE Quiet(r)
    BY <1>2 DEF Quiet, SameMaps, SameRaced, SameCrossed
  <1>3. CASE Look(t)
    <2>1. SameHalves(r)
      BY <1>1, <1>3 DEF Look, Found
    <2>2. UNCHANGED <<window, timelines, raced, crossed>>
      BY <1>3 DEF Look, maps, history
    <2> QED
      BY <1>2, <2>1, <2>2
  <1>4. CASE LookLegacy(t)
    <2>1. SameHalves(r)
      BY <1>1, <1>4 DEF LookLegacy, Found
    <2>2. UNCHANGED <<window, timelines, raced, crossed>>
      BY <1>4 DEF LookLegacy, maps, history
    <2> QED
      BY <1>2, <2>1, <2>2
  <1>5. CASE Mark(t)
    <2>1. SameHalves(r)
      BY <1>1, <1>5 DEF Mark
    <2>2. UNCHANGED <<window, timelines, raced, crossed>>
      BY <1>5 DEF Mark, maps, history
    <2> QED
      BY <1>2, <2>1, <2>2
  <1>6. CASE Check(t)
    <2>1. SameHalves(r)
      BY <1>1, <1>6 DEF Check
    <2>2. UNCHANGED <<window, timelines, raced, crossed>>
      BY <1>6 DEF Check, maps, history
    <2> QED
      BY <1>2, <2>1, <2>2
  <1>7. CASE Claim(t)
    <2>1. SameHalves(r)
      BY <1>1, <1>7 DEF Claim
    <2>2. UNCHANGED <<window, timelines, raced, crossed>>
      BY <1>7 DEF Claim, maps, history
    <2> QED
      BY <1>2, <2>1, <2>2
  <1>8. CASE Build(t)
    <2>1. SameHalves(r)
      BY <1>1, <1>8 DEF Build
    <2>2. UNCHANGED <<window, timelines, raced, crossed>>
      BY <1>8 DEF Build, maps, history
    <2> QED
      BY <1>2, <2>1, <2>2
  <1>9. CASE Touch(t)
    <2>1. SameHalves(r)
      BY <1>1, <1>9 DEF Touch
    <2>2. UNCHANGED <<window, timelines, raced, crossed>>
      BY <1>9 DEF Touch, maps, history
    <2> QED
      BY <1>2, <2>1, <2>2
  <1>10. CASE DropRecent(t)
    <2>1. SameHalves(r)
      BY <1>1, <1>10 DEF DropRecent
    <2>2. UNCHANGED <<window, timelines, raced, crossed>>
      BY <1>10 DEF DropRecent, maps, history
    <2> QED
      BY <1>2, <2>1, <2>2
  <1>11. CASE Focus(t)
    <2>1. SameHalves(r)
      BY <1>1, <1>11 DEF Focus
    <2>2. UNCHANGED <<window, timelines, raced, crossed>>
      BY <1>11 DEF Focus, maps, history
    <2> QED
      BY <1>2, <2>1, <2>2
  <1>12. CASE Current(t)
    <2>1. SameHalves(r)
      BY <1>1, <1>12 DEF Current
    <2>2. UNCHANGED <<window, timelines, raced, crossed>>
      BY <1>12 DEF Current, maps, history
    <2> QED
      BY <1>2, <2>1, <2>2
  <1>13. CASE Apply(t)
    <2>1. SameHalves(r)
      BY <1>1, <1>13 DEF Apply
    <2>2. UNCHANGED <<window, timelines, raced, crossed>>
      BY <1>13 DEF Apply, maps, history
    <2> QED
      BY <1>2, <2>1, <2>2
  <1>14. CASE Cap(t)
    <2>1. SameHalves(r)
      BY <1>1, <1>14, QuietRelease DEF Cap, Evictable
    <2>2. UNCHANGED <<window, timelines, raced, crossed>>
      BY <1>14 DEF Cap, maps, history
    <2> QED
      BY <1>2, <2>1, <2>2
  <1> QED
    BY <1>3, <1>4, <1>5, <1>6, <1>7, <1>8, <1>9, <1>10, <1>11, <1>12, <1>13, <1>14 DEF QuietStep

(* The six steps that are, seen from one room.                             *)
LEMMA MapTasks ==
    ASSUME Shape, NEW t \in DOMAIN task, NEW r \in Rooms,
           \/ WindowFirst(t) \/ LegacySecond(t) \/ LegacyFirst(t)
           \/ WindowSecond(t) \/ DropWindow(t) \/ DropLegacy(t)
    PROVE  Quiet(r) \/ Effect(t, r)
  <1> USE DEF SameMaps, SameHalves, SameRaced, SameCrossed, MaybeRaced
  <1>1. task[t].room \in Rooms /\ task[t].victim \in Rooms
    BY TaskRecord DEF TaskStates
  <1>2. DOMAIN window = Rooms /\ DOMAIN timelines = Rooms
    BY DEF Shape
  <1>3. CASE WindowFirst(t)
    <2>1. task[t].pc = "windowFirst"
      BY <1>3 DEF WindowFirst
    <2>2. CASE window[task[t].room] # None
      <3>1. SameHalves(r)
        BY <1>3, <2>1, <2>2, QuietGoto, PcFacts DEF WindowFirst
      <3>2. UNCHANGED <<window, timelines, raced, crossed>>
        BY <1>3, <2>2 DEF WindowFirst
      <3> QED
        BY <3>1, <3>2 DEF Quiet
    <2>3. CASE window[task[t].room] = None
      <3>1. Goto(t, "legacySecond") /\ "legacySecond" \in Pcs
        BY <1>3, <2>3, PcFacts DEF WindowFirst
      <3>2. /\ LegacyHalf(r)' = IF task[t].room = r THEN LegacyHalf(r) \cup {t} ELSE LegacyHalf(r)
            /\ WindowHalf(r)' = WindowHalf(r) /\ DropHalf(r)' = DropHalf(r)
        BY <2>1, <3>1, HalvesAfter
      <3>3. /\ window' = [window EXCEPT ![task[t].room] = t] /\ timelines' = timelines
            /\ raced' = Race(task[t].room) /\ crossed' = crossed
        BY <1>3, <2>3 DEF WindowFirst, InsertWindow
      <3>4. CASE task[t].room = r
        BY <1>1, <1>2, <2>3, <3>2, <3>3, <3>4, RaceMeansHalf DEF Effect, FirstWindow
      <3>5. CASE task[t].room # r
        BY <1>1, <1>2, <3>2, <3>3, <3>5, RaceMeansHalf DEF Quiet
      <3> QED
        BY <3>4, <3>5
    <2> QED
      BY <2>2, <2>3
  <1>4. CASE LegacySecond(t)
    <2>1. task[t].pc = "legacySecond" /\ Goto(t, "touch") /\ "touch" \in Pcs
      BY <1>4, PcFacts DEF LegacySecond
    <2>2. /\ LegacyHalf(r)' = LegacyHalf(r) \ {t}
          /\ WindowHalf(r)' = WindowHalf(r) /\ DropHalf(r)' = DropHalf(r)
      BY <2>1, HalvesAfter
    <2>3. timelines' = [timelines EXCEPT ![task[t].room] = t]
          /\ UNCHANGED <<window, raced, crossed>>
      BY <1>4 DEF LegacySecond, InsertTimeline, history
    <2>4. t \in LegacyHalf(r) <=> task[t].room = r
      BY <2>1 DEF LegacyHalf
    <2> QED
      BY <1>1, <1>2, <2>2, <2>3, <2>4 DEF Effect, SecondTimeline, Quiet
  <1>5. CASE LegacyFirst(t)
    <2>1. task[t].pc = "legacyFirst"
      BY <1>5 DEF LegacyFirst
    <2>2. CASE Lost(t)
      <3>1. SameHalves(r)
        BY <1>5, <2>1, <2>2, QuietGoto, PcFacts DEF LegacyFirst
      <3>2. UNCHANGED <<window, timelines, raced, crossed>>
        BY <1>5, <2>2 DEF LegacyFirst
      <3> QED
        BY <3>1, <3>2 DEF Quiet
    <2>3. CASE ~Lost(t)
      <3>1. Goto(t, "windowSecond") /\ "windowSecond" \in Pcs
        BY <1>5, <2>3, PcFacts DEF LegacyFirst
      <3>2. /\ WindowHalf(r)' = IF task[t].room = r THEN WindowHalf(r) \cup {t} ELSE WindowHalf(r)
            /\ LegacyHalf(r)' = LegacyHalf(r) /\ DropHalf(r)' = DropHalf(r)
        BY <2>1, <3>1, HalvesAfter
      <3>3. /\ timelines' = [timelines EXCEPT ![task[t].room] = t] /\ window' = window
            /\ raced' = Race(task[t].room) /\ crossed' = crossed
        BY <1>5, <2>3 DEF LegacyFirst, InsertTimeline
      <3>4. CASE task[t].room = r
        BY <1>1, <1>2, <3>2, <3>3, <3>4, RaceMeansHalf DEF Effect, FirstTimeline
      <3>5. CASE task[t].room # r
        BY <1>1, <1>2, <3>2, <3>3, <3>5, RaceMeansHalf DEF Quiet
      <3> QED
        BY <3>4, <3>5
    <2> QED
      BY <2>2, <2>3
  <1>6. CASE WindowSecond(t)
    <2>1. task[t].pc = "windowSecond"
      BY <1>6 DEF WindowSecond
    <2>2. /\ WindowHalf(r)' = WindowHalf(r) \ {t}
          /\ LegacyHalf(r)' = LegacyHalf(r) /\ DropHalf(r)' = DropHalf(r)
      <3>1. ASSUME NEW pc \in {"done", "touch"}, Goto(t, pc)
            PROVE  /\ WindowHalf(r)' = WindowHalf(r) \ {t}
                   /\ LegacyHalf(r)' = LegacyHalf(r) /\ DropHalf(r)' = DropHalf(r)
        BY <2>1, <3>1, HalvesAfter, PcFacts
      <3> QED
        BY <1>6, <3>1 DEF WindowSecond
    <2>3. window' = [window EXCEPT ![task[t].room] = t]
          /\ UNCHANGED <<timelines, raced, crossed>>
      BY <1>6 DEF WindowSecond, InsertWindow, history
    <2>4. t \in WindowHalf(r) <=> task[t].room = r
      BY <2>1 DEF WindowHalf
    <2> QED
      BY <1>1, <1>2, <2>2, <2>3, <2>4 DEF Effect, SecondWindow, Quiet
  <1>7. CASE DropWindow(t)
    <2>1. task[t].pc = "dropWindow" /\ Goto(t, "dropLegacy") /\ "dropLegacy" \in Pcs
      BY <1>7, PcFacts DEF DropWindow
    <2>2. /\ DropHalf(r)' = IF task[t].victim = r THEN DropHalf(r) \cup {t} ELSE DropHalf(r)
          /\ LegacyHalf(r)' = LegacyHalf(r) /\ WindowHalf(r)' = WindowHalf(r)
      BY <2>1, HalvesAfter
    <2>3. /\ window' = [window EXCEPT ![task[t].victim] = None] /\ timelines' = timelines
          /\ raced' = Race(task[t].victim) /\ crossed' = crossed
      BY <1>7 DEF DropWindow
    <2>4. CASE task[t].victim = r
      BY <1>1, <1>2, <2>2, <2>3, <2>4, RaceMeansHalf DEF Effect, FirstDrop
    <2>5. CASE task[t].victim # r
      BY <1>1, <1>2, <2>2, <2>3, <2>5, RaceMeansHalf DEF Quiet
    <2> QED
      BY <2>4, <2>5
  <1>8. CASE DropLegacy(t)
    <2>1. task[t].pc = "dropLegacy" /\ Goto(t, "dropRecent") /\ "dropRecent" \in Pcs
      BY <1>8, PcFacts DEF DropLegacy
    <2>2. /\ DropHalf(r)' = DropHalf(r) \ {t}
          /\ LegacyHalf(r)' = LegacyHalf(r) /\ WindowHalf(r)' = WindowHalf(r)
      BY <2>1, HalvesAfter
    <2>3. /\ timelines' = [timelines EXCEPT ![task[t].victim] = None]
          /\ UNCHANGED <<window, raced>>
      BY <1>8 DEF DropLegacy, LegacyDropped
    <2>4. t \in DropHalf(r) <=> task[t].victim = r
      BY <2>1 DEF DropHalf
    <2>5. /\ task[t].victim = r => (r \in crossed' <=> LegacyHalf(r) # {})
          /\ task[t].victim # r => (r \in crossed' <=> r \in crossed)
      BY <1>8 DEF DropLegacy, LegacyHalf
    <2> QED
      BY <1>1, <1>2, <2>2, <2>3, <2>4, <2>5 DEF Effect, SecondDrop, Quiet
  <1> QED
    BY <1>3, <1>4, <1>5, <1>6, <1>7, <1>8

(* So a step leaves a room alone, or one task does one of six things there.*)
LEMMA StepEffect ==
    ASSUME Shape, [Next]_vars, NEW r \in Rooms
    PROVE  Quiet(r) \/ \E t \in DOMAIN task : Effect(t, r)
  <1> USE DEF SameMaps, SameRaced, SameCrossed
  <1>1. ASSUME NEW kind \in Kinds, NEW q \in Rooms, Start(kind, q) PROVE Quiet(r)
    <2>1. SameHalves(r)
      BY <1>1, QuietStart
    <2> QED
      BY <1>1, <2>1 DEF Quiet, Start, maps, history
  <1>2. ASSUME NEW q \in Rooms, ReturnToLive(q) PROVE Quiet(r)
    BY <1>2 DEF Quiet, SameHalves, LegacyHalf, WindowHalf, DropHalf, ReturnToLive, history
  <1>3. ASSUME NEW t \in DOMAIN task, TaskStep(t) PROVE Quiet(r) \/ Effect(t, r)
    BY <1>3, QuietTasks, MapTasks DEF TaskStep, QuietStep
  <1>4. CASE UNCHANGED vars
    BY <1>4 DEF Quiet, SameHalves, LegacyHalf, WindowHalf, DropHalf, vars
  <1> QED
    BY <1>1, <1>2, <1>3, <1>4 DEF Next

-----------------------------------------------------------------------------
(* A room that stays blank was emptied between the halves of a build.      *)

(* Why the window may be missing where a timeline is, or is about to be.   *)
BlankExplained(r) ==
    /\ timelines[r] # None /\ window[r] = None =>
          r \in crossed \/ WindowHalf(r) # {} \/ DropHalf(r) # {}
    /\ LegacyHalf(r) # {} /\ window[r] = None => r \in crossed \/ DropHalf(r) # {}

(* Nobody is half way in a room that is at rest.                           *)
LEMMA RestMeansNoHalf ==
    ASSUME NEW r \in Rooms, AtRest(r) PROVE Half(r) = {}
  BY DEF AtRest, Running, Target, Half, LegacyHalf, WindowHalf, DropHalf

LEMMA BlankStep ==
    ASSUME Shape, [Next]_vars, NEW r \in Rooms, BlankExplained(r)
    PROVE  BlankExplained(r)'
  <1> USE DEF BlankExplained, SameCrossed
  <1>1. CASE Quiet(r)
    BY <1>1 DEF Quiet, SameMaps, SameHalves
  <1>2. ASSUME NEW t \in DOMAIN task, Effect(t, r) PROVE BlankExplained(r)'
    <2>1. t # None
      BY TaskDomain
    <2>2. CASE FirstWindow(t, r)
      BY <2>1, <2>2 DEF FirstWindow
    <2>3. CASE SecondTimeline(t, r)
      BY <2>1, <2>3 DEF SecondTimeline
    <2>4. CASE FirstTimeline(t, r)
      BY <2>1, <2>4 DEF FirstTimeline
    <2>5. CASE SecondWindow(t, r)
      BY <2>1, <2>5 DEF SecondWindow
    <2>6. CASE FirstDrop(t, r)
      BY <2>1, <2>6 DEF FirstDrop
    <2>7. CASE SecondDrop(t, r)
      BY <2>1, <2>7 DEF SecondDrop
    <2> QED
      BY <1>2, <2>2, <2>3, <2>4, <2>5, <2>6, <2>7 DEF Effect
  <1> QED
    BY <1>1, <1>2, StepEffect

BlankInvariant == Shape /\ \A r \in Rooms : BlankExplained(r)

(* However many rooms, tasks and releases there are: once nobody is busy   *)
(* with a room, a timeline without a window is there only after a release  *)
(* came between the two locks of create_window_for_room().                 *)
THEOREM BlankRoomsWereCrossed == Spec => []BlankOnlyWhenCrossed
  <1>1. Init => BlankInvariant
    <2> SUFFICES ASSUME Init PROVE BlankInvariant
      OBVIOUS
    <2>1. DOMAIN task = {}
      BY DEF Init
    <2> QED
      BY <2>1, InitShape DEF Init, BlankInvariant, BlankExplained, LegacyHalf
  <1>2. BlankInvariant /\ [Next]_vars => BlankInvariant'
    BY StepShape, BlankStep DEF BlankInvariant
  <1>3. BlankInvariant => BlankOnlyWhenCrossed
    BY RestMeansNoHalf DEF BlankInvariant, BlankExplained, BlankOnlyWhenCrossed, Half
  <1> QED
    BY <1>1, <1>2, <1>3, PTL DEF Spec

-----------------------------------------------------------------------------
(* The maps come apart only where two tasks were half way at once.         *)

(* Of a room that was never raced for, at most one task is half way, and   *)
(* what it did so far is what the maps show.                               *)
OneAtATime(r) ==
    r \notin raced =>
      /\ \A t, u \in Half(r) : t = u
      /\ \A t \in LegacyHalf(r) : window[r] = t
      /\ \A t \in WindowHalf(r) : timelines[r] = t
      /\ DropHalf(r) # {} => window[r] = None
      /\ Half(r) = {} => window[r] = timelines[r]

LEMMA HalvesDiffer ==
    ASSUME NEW r \in Rooms
    PROVE  /\ LegacyHalf(r) \cap WindowHalf(r) = {} /\ LegacyHalf(r) \cap DropHalf(r) = {}
           /\ WindowHalf(r) \cap DropHalf(r) = {}
  BY DEF LegacyHalf, WindowHalf, DropHalf

LEMMA MapsStep ==
    ASSUME Shape, [Next]_vars, NEW r \in Rooms, OneAtATime(r)
    PROVE  OneAtATime(r)'
  <1> USE DEF OneAtATime, SameRaced, MaybeRaced, Half
  <1>1. CASE Quiet(r)
    BY <1>1 DEF Quiet, SameMaps, SameHalves
  <1>2. ASSUME NEW t \in DOMAIN task, Effect(t, r) PROVE OneAtATime(r)'
    <2>1. t # None
      BY TaskDomain
    <2>2. CASE FirstWindow(t, r)
      BY <2>1, <2>2 DEF FirstWindow
    <2>3. CASE SecondTimeline(t, r)
      BY <2>1, <2>3 DEF SecondTimeline
    <2>4. CASE FirstTimeline(t, r)
      BY <2>1, <2>4 DEF FirstTimeline
    <2>5. CASE SecondWindow(t, r)
      BY <2>1, <2>5, HalvesDiffer DEF SecondWindow
    <2>6. CASE FirstDrop(t, r)
      BY <2>1, <2>6 DEF FirstDrop
    <2>7. CASE SecondDrop(t, r)
      BY <2>1, <2>7, HalvesDiffer DEF SecondDrop
    <2> QED
      BY <1>2, <2>2, <2>3, <2>4, <2>5, <2>6, <2>7 DEF Effect
  <1> QED
    BY <1>1, <1>2, StepEffect

MapsInvariant == Shape /\ \A r \in Rooms : OneAtATime(r)

(* However many rooms, tasks and releases there are: the two maps agree    *)
(* about a room that nobody is busy with, unless two tasks were between    *)
(* their two locks in it at once.  No early return, failed build, lost     *)
(* build or eviction on its own leaves them apart.                         *)
THEOREM MapsAgreeWithoutRaces == Spec => []MapsAgreeUnlessRaced
  <1>1. Init => MapsInvariant
    <2> SUFFICES ASSUME Init PROVE MapsInvariant
      OBVIOUS
    <2>1. DOMAIN task = {}
      BY DEF Init
    <2>2. ASSUME NEW r \in Rooms PROVE Half(r) = {}
      BY <2>1 DEF Half, LegacyHalf, WindowHalf, DropHalf
    <2> QED
      BY <2>1, <2>2, InitShape
      DEF Init, MapsInvariant, OneAtATime, Half
  <1>2. MapsInvariant /\ [Next]_vars => MapsInvariant'
    BY StepShape, MapsStep DEF MapsInvariant
  <1>3. MapsInvariant => MapsAgreeUnlessRaced
    BY RestMeansNoHalf DEF MapsInvariant, OneAtATime, MapsAgreeUnlessRaced
  <1> QED
    BY <1>1, <1>2, <1>3, PTL DEF Spec

-----------------------------------------------------------------------------
(* The build slots.                                                        *)

BuildPcs == {"build", "legacyFirst", "windowSecond", "touch"}
PollPcs  == {"done", "look", "lookLegacy", "check", "claim"} \cup BuildPcs

Builds(t) == task[t].kind = "poll" /\ task[t].pc \in BuildPcs

(* A slot is taken by a poll that builds, by one only, and by no other     *)
(* kind of task; a poll never gets where the other builders go, nor one    *)
(* of those to the slots.                                                  *)
SlotInv ==
    /\ \A t \in DOMAIN task : task[t].kind = "poll" => task[t].pc \in PollPcs
    /\ \A t \in DOMAIN task : task[t].pc = "claim" => task[t].kind = "poll"
    /\ \A t \in DOMAIN task : Builds(t) => task[t].room \in building
    /\ \A r \in building : \E t \in DOMAIN task : Builds(t) /\ task[t].room = r
    /\ \A t, u \in DOMAIN task :
          Builds(t) /\ Builds(u) /\ task[t].room = task[u].room => t = u

(* A step that neither begins nor ends a poll's build ...                  *)
LEMMA SlotsKept ==
    ASSUME Shape, SlotInv, NEW t \in DOMAIN task, NEW pc \in Pcs, Goto(t, pc),
           task[t].kind = "poll" => pc \in PollPcs /\ (pc \in BuildPcs <=> Builds(t)),
           pc = "claim" => task[t].kind = "poll",
           building' = building
    PROVE  SlotInv'
  <1>1. /\ DOMAIN task' = DOMAIN task
        /\ \A u \in DOMAIN task : /\ task'[u].kind = task[u].kind /\ task'[u].room = task[u].room
                                  /\ u # t => task'[u].pc = task[u].pc
        /\ task'[t].pc = pc
    BY GotoFacts
  <1>2. \A u \in DOMAIN task : Builds(u)' <=> Builds(u)
    BY <1>1 DEF Builds
  <1> QED
    BY <1>1, <1>2 DEF SlotInv

(* ... and one that ends it, on any way out.                               *)
LEMMA SlotLeft ==
    ASSUME Shape, SlotInv, NEW t \in DOMAIN task, Builds(t), Goto(t, "done"),
           building' = building \ {task[t].room}
    PROVE  SlotInv'
  <1>1. /\ DOMAIN task' = DOMAIN task
        /\ \A u \in DOMAIN task : /\ task'[u].kind = task[u].kind /\ task'[u].room = task[u].room
                                  /\ u # t => task'[u].pc = task[u].pc
        /\ task'[t].pc = "done"
    BY GotoFacts, PcFacts
  <1>2. \A u \in DOMAIN task : Builds(u)' <=> Builds(u) /\ u # t
    BY <1>1 DEF Builds, BuildPcs
  <1>3. \A u \in DOMAIN task : Builds(u)' => task[u].room # task[t].room
    BY <1>2 DEF SlotInv
  <1>4. \A r \in building' : \E u \in DOMAIN task : Builds(u)' /\ task[u].room = r
    BY <1>2 DEF SlotInv
  <1> QED
    BY <1>1, <1>2, <1>3, <1>4 DEF SlotInv, PollPcs

LEMMA SlotTaken ==
    ASSUME Shape, SlotInv, NEW t \in DOMAIN task, ~Builds(t), Goto(t, "build"),
           task[t].kind = "poll", task[t].room \notin building,
           building' = building \cup {task[t].room}
    PROVE  SlotInv'
  <1>1. /\ DOMAIN task' = DOMAIN task
        /\ \A u \in DOMAIN task : /\ task'[u].kind = task[u].kind /\ task'[u].room = task[u].room
                                  /\ u # t => task'[u].pc = task[u].pc
        /\ task'[t].pc = "build"
    BY GotoFacts, PcFacts
  <1>2. \A u \in DOMAIN task : Builds(u)' <=> Builds(u) \/ u = t
    BY <1>1 DEF Builds, BuildPcs
  <1>3. \A u \in DOMAIN task : Builds(u) => task[u].room # task[t].room
    BY DEF SlotInv
  <1> QED
    BY <1>1, <1>2, <1>3 DEF SlotInv, PollPcs, BuildPcs

LEMMA SlotTaskStep ==
    ASSUME Shape, SlotInv, NEW t \in DOMAIN task, TaskStep(t) PROVE SlotInv'
  <1> USE DEF Builds, BuildPcs, PollPcs
  <1>1. ASSUME NEW pc \in {"done", "lookLegacy", "check"}, Goto(t, pc), ~Builds(t),
               building' = building
        PROVE  SlotInv'
    BY <1>1, SlotsKept, PcFacts
  <1>2. ASSUME NEW pc \in BuildPcs, Goto(t, pc), task[t].kind = "poll" => Builds(t),
               building' = building
        PROVE  SlotInv'
    BY <1>2, SlotsKept, PcFacts
  <1>3. ASSUME NEW pc \in Pcs \ {"claim"}, Goto(t, pc), task[t].kind # "poll",
               building' = building
        PROVE  SlotInv'
    BY <1>3, SlotsKept
  <1>4. task[t].kind = "poll" => task[t].pc \in PollPcs
    BY DEF SlotInv
  <1>5. CASE Look(t)
    BY <1>1, <1>3, <1>5, PcFacts DEF Look, Found
  <1>6. CASE LookLegacy(t)
    BY <1>1, <1>3, <1>6, PcFacts DEF LookLegacy, Found
  <1>7. CASE Mark(t)
    BY <1>3, <1>4, <1>7, PcFacts DEF Mark
  <1>8. CASE Check(t)
    <2>1. task[t].pc = "check" /\ building' = building
      BY <1>8 DEF Check
    <2>2. CASE Goto(t, "claim") /\ task[t].kind = "poll"
      BY <2>1, <2>2, SlotsKept, PcFacts
    <2> QED
      BY <1>1, <1>3, <1>8, <2>1, <2>2, PcFacts DEF Check
  <1>9. CASE Claim(t)
    <2>1. task[t].pc = "claim"
      BY <1>9 DEF Claim
    <2>2. CASE SlotHeld(task[t].room)
      BY <1>1, <1>9, <2>1, <2>2 DEF Claim
    <2>3. CASE ~SlotHeld(task[t].room)
      <3>1. Goto(t, "build") /\ building' = building \cup {task[t].room}
        BY <1>9, <2>3 DEF Claim
      <3> QED
        BY <2>1, <2>3, <3>1, SlotTaken DEF SlotHeld, SlotInv
    <2> QED
      BY <2>2, <2>3
  <1>10. CASE Build(t)
    <2>1. task[t].pc = "build"
      BY <1>10 DEF Build
    <2>2. CASE task[t].kind = "poll"
      BY <1>2, <1>10, <2>1, <2>2, SlotLeft DEF Build, ForRoom, SlotFreed
    <2>3. CASE task[t].kind # "poll"
      BY <1>3, <1>10, <2>3, PcFacts DEF Build, SlotFreed
    <2> QED
      BY <2>2, <2>3
  <1>11. CASE WindowFirst(t)
    BY <1>3, <1>4, <1>11, PcFacts DEF WindowFirst
  <1>12. CASE LegacySecond(t)
    BY <1>3, <1>4, <1>12, PcFacts DEF LegacySecond
  <1>13. CASE LegacyFirst(t)
    <2>1. task[t].pc = "legacyFirst"
      BY <1>13 DEF LegacyFirst
    <2>2. CASE Lost(t)
      BY <1>13, <2>1, <2>2, SlotLeft DEF LegacyFirst, Lost, SlotFreed
    <2>3. CASE ~Lost(t)
      BY <1>2, <1>13, <2>1, <2>3 DEF LegacyFirst
    <2> QED
      BY <2>2, <2>3
  <1>14. CASE WindowSecond(t)
    <2>1. task[t].pc = "windowSecond"
      BY <1>14 DEF WindowSecond
    <2> QED
      BY <1>2, <1>3, <1>14, <2>1, PcFacts DEF WindowSecond
  <1>15. CASE Touch(t)
    <2>1. task[t].pc = "touch"
      BY <1>15 DEF Touch
    <2>2. CASE task[t].kind = "poll"
      BY <1>15, <2>1, <2>2, SlotLeft DEF Touch, ForRoom, SlotFreed
    <2>3. CASE task[t].kind # "poll"
      BY <1>3, <1>15, <2>3, PcFacts DEF Touch, SlotFreed
    <2> QED
      BY <2>2, <2>3
  <1>16. CASE Cap(t)
    <2>1. task[t].kind # "poll" /\ building' = building
      BY <1>4, <1>16 DEF Cap
    <2>2. ASSUME NEW r \in Rooms, Release(t, r) PROVE SlotInv'
      <3>1. /\ DOMAIN task' = DOMAIN task
            /\ task'[t].kind # "poll" /\ task'[t].pc # "claim"
            /\ \A u \in DOMAIN task \ {t} : task'[u] = task[u]
        BY <2>1, <2>2, VictimFacts
      <3>2. \A u \in DOMAIN task : /\ Builds(u)' <=> Builds(u)
                                   /\ Builds(u) => task'[u] = task[u]
        BY <2>1, <3>1
      <3> QED
        BY <2>1, <3>1, <3>2 DEF SlotInv
    <2> QED
      BY <1>3, <1>16, <2>1, <2>2, PcFacts DEF Cap, Evictable
  <1>17. CASE DropWindow(t)
    BY <1>3, <1>4, <1>17, PcFacts DEF DropWindow
  <1>18. CASE DropLegacy(t)
    BY <1>3, <1>4, <1>18, PcFacts DEF DropLegacy
  <1>19. CASE DropRecent(t)
    BY <1>3, <1>4, <1>19, PcFacts DEF DropRecent
  <1>20. CASE Focus(t)
    BY <1>3, <1>4, <1>20, PcFacts DEF Focus
  <1>21. CASE Current(t)
    BY <1>3, <1>4, <1>21, PcFacts DEF Current
  <1>22. CASE Apply(t)
    BY <1>3, <1>4, <1>22, PcFacts DEF Apply
  <1> QED
    BY <1>5, <1>6, <1>7, <1>8, <1>9, <1>10, <1>11, <1>12, <1>13, <1>14, <1>15, <1>16,
       <1>17, <1>18, <1>19, <1>20, <1>21, <1>22 DEF TaskStep

LEMMA SlotStep == Shape /\ SlotInv /\ [Next]_vars => SlotInv'
  <1> SUFFICES ASSUME Shape, SlotInv, [Next]_vars PROVE SlotInv'
    OBVIOUS
  <1>1. ASSUME NEW kind \in Kinds, NEW r \in Rooms, Start(kind, r) PROVE SlotInv'
    <2> PICK n \in TaskIds : n = Len(task')
      BY <1>1, StartFacts
    <2>1. /\ DOMAIN task' = DOMAIN task \cup {n} /\ building' = building
          /\ \A u \in DOMAIN task : task'[u] = task[u]
      BY <1>1, StartFacts DEF Start
    <2>2. /\ task'[n].pc # "claim"
          /\ task'[n].kind = "poll" => task'[n].pc = "look"
      BY <1>1, StartFacts
    <2>3. /\ \A u \in DOMAIN task : Builds(u)' <=> Builds(u)
          /\ ~Builds(n)'
      BY <2>1, <2>2 DEF Builds, BuildPcs
    <2> QED
      BY <2>1, <2>2, <2>3 DEF SlotInv, PollPcs
  <1>2. ASSUME NEW r \in Rooms, ReturnToLive(r) PROVE SlotInv'
    BY <1>2 DEF ReturnToLive, SlotInv, Builds
  <1>3. ASSUME NEW t \in DOMAIN task, TaskStep(t) PROVE SlotInv'
    BY <1>3, SlotTaskStep
  <1>4. CASE UNCHANGED vars
    BY <1>4 DEF vars, SlotInv, Builds
  <1> QED
    BY <1>1, <1>2, <1>3, <1>4 DEF Next

(* The slot of WindowBuildSlot is taken while one poll builds the room's   *)
(* window and at no other time: no two polls build at once, and no way out *)
(* of a build, error and lost race included, leaves the slot behind.       *)
THEOREM SlotsFollowBuilds == Spec => []SlotsMatchBuilds
  <1>1. Init => SlotInv
    <2> SUFFICES ASSUME Init PROVE SlotInv
      OBVIOUS
    <2>1. DOMAIN task = {} /\ building = {}
      BY DEF Init
    <2> QED
      BY <2>1 DEF SlotInv
  <1>2. SlotInv /\ Shape => SlotsMatchBuilds
    <2> SUFFICES ASSUME SlotInv, Shape, NEW r \in Rooms
                 PROVE  Cardinality({t \in DOMAIN task :
                            /\ task[t].room = r /\ task[t].kind = "poll"
                            /\ task[t].pc \in {"build", "legacyFirst", "windowSecond", "touch"}})
                        = IF r \in building THEN 1 ELSE 0
      BY DEF SlotsMatchBuilds
    <2> DEFINE B == {t \in DOMAIN task : /\ task[t].room = r /\ task[t].kind = "poll"
                                         /\ task[t].pc \in {"build", "legacyFirst", "windowSecond", "touch"}}
    <2>1. \A t \in DOMAIN task : t \in B <=> Builds(t) /\ task[t].room = r
      BY DEF Builds, BuildPcs
    <2>2. B \subseteq DOMAIN task
      OBVIOUS
    <2> HIDE DEF B
    <2>3. CASE r \in building
      <3>1. PICK t \in DOMAIN task : Builds(t) /\ task[t].room = r
        BY <2>3 DEF SlotInv
      <3>2. B = {t}
        BY <2>1, <2>2, <3>1 DEF SlotInv
      <3> QED
        BY <2>3, <3>2, FS_Singleton DEF B
    <2>4. CASE r \notin building
      <3>1. B = {}
        BY <2>1, <2>2, <2>4 DEF SlotInv
      <3> QED
        BY <2>4, <3>1, FS_EmptySet DEF B
    <2> QED
      BY <2>3, <2>4
  <1> QED
    BY <1>1, <1>2, SlotStep, InitShape, StepShape, PTL DEF Spec
=============================================================================
