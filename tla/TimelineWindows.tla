-------------------------- MODULE TimelineWindows --------------------------
(***************************************************************************)
(* Which rooms have a resident timeline window.                            *)
(*                                                                         *)
(* Two maps, each behind its own lock, say so: "windows" (live and focused *)
(* views, with their watchers) and the older "timelines".  Four kinds of   *)
(* task fill them and one empties them, each taking one lock at a time:    *)
(*   - poll:  get_timeline_slice() finds nothing and has the window built  *)
(*            by create_window_from_client(), one build per room;          *)
(*   - send:  get_or_create_timeline(), through create_window_for_room();  *)
(*   - jump:  focus_on_event(), through create_window_for_room() too, then *)
(*            the focused view replaces the live one;                      *)
(*   - join:  create_window_after_join();                                  *)
(*   - close: release_room(), which the LRU cap at the end of              *)
(*            create_window_for_room() calls as well.                      *)
(* All of them are spawned on one runtime and wait for each other nowhere. *)
(* A room without a window that has an entry in "timelines" shows nothing: *)
(* a poll takes the entry for a window and builds none.                    *)
(***************************************************************************)
EXTENDS Naturals, Sequences, FiniteSets

CONSTANTS
    Rooms,
    MaxResident,   \* MAX_RESIDENT_WINDOWS
    MaxTasks       \* bound: tasks spawned

ASSUME MaxResidentAssumption == MaxResident \in Nat \ {0}
ASSUME MaxTasksAssumption    == MaxTasks \in Nat

None    == 0
TaskIds == 1..MaxTasks

VARIABLES
    window,      \* room -> the task that built its window, or None
    focused,     \* room -> the jump its window shows, or None when it is live
    timelines,   \* room -> the task that built the timeline there, or None
    recent,      \* recent_rooms, the most recent first
    building,    \* creating_windows: rooms whose build slot is taken
    latestJump,  \* focus_generations: the newest jump asked for in a room
    task,        \* the tasks spawned so far, and what each is doing
    raced,       \* history: rooms two tasks were filling or emptying at once
    crossed      \* history: rooms emptied between two halves of a for_room build

maps    == <<window, focused, timelines>>
history == <<raced, crossed>>
vars == <<window, focused, timelines, recent, building, latestJump, task, raced,
          crossed>>

Kinds == {"poll", "send", "jump", "join", "close"}
Pcs   == {"done", "look", "lookLegacy", "mark", "check", "claim", "build",
          "windowFirst", "legacySecond", "legacyFirst", "windowSecond", "touch", "cap",
          "dropWindow", "dropLegacy", "dropRecent", "focus", "current", "apply"}
TaskStates == [kind : Kinds, room : Rooms, pc : Pcs, victim : Rooms]

-----------------------------------------------------------------------------
Running(t) == task[t].pc # "done"

Goto(t, pc) == task' = [task EXCEPT ![t].pc = pc]

ForRoom(t) == task[t].kind \in {"send", "jump"}

(* Between the first and the second of its two locks.                      *)
Halfway(t) == task[t].pc \in {"legacySecond", "windowSecond", "dropLegacy"}

(* The room a task is filling or emptying at that moment.                  *)
Target(t) == IF task[t].pc \in {"dropWindow", "dropLegacy", "dropRecent"}
             THEN task[t].victim ELSE task[t].room

Race(r) == IF \E t \in DOMAIN task : Halfway(t) /\ Target(t) = r THEN raced \cup {r} ELSE raced

(* Mutant: the slot of a build that failed is kept.                        *)
SlotKept(t) == building

(* WindowBuildSlot::drop(), on every way out of a poll's build.            *)
SlotFreed(t) == IF task[t].kind = "poll" THEN building \ {task[t].room} ELSE building

-----------------------------------------------------------------------------
(* The calls of the user interface.                                        *)

FirstPc(kind) ==
    CASE kind \in {"poll", "send"} -> "look"
      [] kind \in {"jump", "join"} -> "check"
      [] kind = "close"            -> "dropWindow"

(* Each becomes a task; a jump announces itself first.                     *)
Start(kind, r) ==
    /\ Len(task) < MaxTasks
    /\ task' = Append(task, [kind |-> kind, room |-> r, pc |-> FirstPc(kind), victim |-> r])
    /\ latestJump' = IF kind = "jump" THEN [latestJump EXCEPT ![r] = Len(task')] ELSE latestJump
    /\ UNCHANGED <<maps, recent, building, history>>

(* return_to_live(), a task of a single step.                              *)
ReturnToLive(r) ==
    /\ window[r] # None /\ focused[r] # None
    /\ focused' = [focused EXCEPT ![r] = None]
    /\ UNCHANGED <<window, timelines, recent, building, latestJump, task, history>>

-----------------------------------------------------------------------------
(* Finding a timeline.                                                     *)

(* Mutant: the room's older place in the queue stays.                      *)
TouchedTwice(r) == <<r>> \o recent

(* What retain() leaves of the queue: it has a room once at most (TypeOK). *)
Place(r)   == CHOOSE k \in DOMAIN recent : recent[k] = r
Without(r) ==
    IF \A k \in DOMAIN recent : recent[k] # r THEN recent
    ELSE [i \in 1..(Len(recent) - 1) |-> recent[IF i < Place(r) THEN i ELSE i + 1]]

(* touch_recent()                                                          *)
Touched(r) == <<r>> \o Without(r)

(* A send marks the room it found as recent, a poll does not.              *)
Found(t) == IF task[t].kind = "send" THEN "mark" ELSE "done"

(* active_timeline_or_legacy(): the windows, then the older map.           *)
Look(t) ==
    /\ task[t].pc = "look"
    /\ Goto(t, IF window[task[t].room] # None THEN Found(t) ELSE "lookLegacy")
    /\ UNCHANGED <<maps, recent, building, latestJump, history>>

LookLegacy(t) ==
    /\ task[t].pc = "lookLegacy"
    /\ Goto(t, IF timelines[task[t].room] # None THEN Found(t) ELSE "check")
    /\ UNCHANGED <<maps, recent, building, latestJump, history>>

Mark(t) ==
    /\ task[t].pc = "mark"
    /\ recent' = Touched(task[t].room)
    /\ Goto(t, "done")
    /\ UNCHANGED <<maps, building, latestJump, history>>

(* Every builder looks for a window first; a jump found goes on with it.   *)
Check(t) ==
    /\ task[t].pc = "check"
    /\ Goto(t, IF window[task[t].room] = None
               THEN IF task[t].kind = "poll" THEN "claim" ELSE "build"
               ELSE IF task[t].kind = "jump" THEN "focus" ELSE "done")
    /\ UNCHANGED <<maps, recent, building, latestJump, history>>

SlotHeld(r) == r \in building

(* WindowBuildSlot::claim()                                                *)
Claim(t) ==
    LET r == task[t].room IN
    /\ task[t].pc = "claim"
    /\ \/ SlotHeld(r) /\ Goto(t, "done") /\ UNCHANGED building
       \/ ~SlotHeld(r) /\ Goto(t, "build") /\ building' = building \cup {r}
    /\ UNCHANGED <<maps, recent, latestJump, history>>

(* TimelineWindow::new(): seconds of database work, or an error.           *)
Build(t) ==
    /\ task[t].pc = "build"
    /\ \/ Goto(t, IF ForRoom(t) THEN "windowFirst" ELSE "legacyFirst") /\ UNCHANGED building
       \/ Goto(t, "done") /\ building' = SlotFreed(t)
    /\ UNCHANGED <<maps, recent, latestJump, history>>

-----------------------------------------------------------------------------
(* Filling the maps.                                                       *)

(* A new window is live.                                                   *)
InsertWindow(t) ==
    /\ window' = [window EXCEPT ![task[t].room] = t]
    /\ focused' = [focused EXCEPT ![task[t].room] = None]

InsertTimeline(t) == timelines' = [timelines EXCEPT ![task[t].room] = t]

(* create_window_for_room(): the window, then the timeline.  A build that  *)
(* lost is discarded.                                                      *)
WindowFirst(t) ==
    /\ task[t].pc = "windowFirst"
    /\ \/ /\ window[task[t].room] # None
          /\ Goto(t, IF task[t].kind = "jump" THEN "focus" ELSE "done")
          /\ UNCHANGED <<window, focused, raced>>
       \/ /\ window[task[t].room] = None
          /\ InsertWindow(t)
          /\ raced' = Race(task[t].room)
          /\ Goto(t, "legacySecond")
    /\ UNCHANGED <<timelines, recent, building, latestJump, crossed>>

LegacySecond(t) ==
    /\ task[t].pc = "legacySecond"
    /\ InsertTimeline(t)
    /\ Goto(t, "touch")
    /\ UNCHANGED <<window, focused, recent, building, latestJump, history>>

(* create_window_from_client() gives way to a timeline that is there;      *)
(* create_window_after_join() does not look.                               *)
Lost(t) == task[t].kind = "poll" /\ timelines[task[t].room] # None

LegacyFirst(t) ==
    /\ task[t].pc = "legacyFirst"
    /\ \/ /\ Lost(t)
          /\ Goto(t, "done") /\ building' = SlotFreed(t)
          /\ UNCHANGED <<timelines, raced>>
       \/ /\ ~Lost(t)
          /\ InsertTimeline(t)
          /\ raced' = Race(task[t].room)
          /\ Goto(t, "windowSecond") /\ UNCHANGED building
    /\ UNCHANGED <<window, focused, recent, latestJump, crossed>>

(* The window, whatever is there.  A joined room is not marked as recent.  *)
WindowSecond(t) ==
    /\ task[t].pc = "windowSecond"
    /\ InsertWindow(t)
    /\ Goto(t, IF task[t].kind = "join" THEN "done" ELSE "touch")
    /\ UNCHANGED <<timelines, recent, building, latestJump, history>>

(* Only create_window_for_room() enforces the cap.                         *)
Touch(t) ==
    /\ task[t].pc = "touch"
    /\ recent' = Touched(task[t].room)
    /\ building' = SlotFreed(t)
    /\ Goto(t, IF ForRoom(t) THEN "cap" ELSE "done")
    /\ UNCHANGED <<maps, latestJump, history>>

-----------------------------------------------------------------------------
(* The cap, and release_room().                                            *)

Resident == {r \in Rooms : window[r] # None}

(* What the cap may release: live windows of rooms that recent_rooms has.  *)
Evictable == {r \in Rooms : /\ window[r] # None /\ focused[r] = None
                            /\ \E i \in DOMAIN recent : recent[i] = r}

LeastRecent(r) == \E i \in DOMAIN recent :
    recent[i] = r /\ \A j \in DOMAIN recent : j > i => recent[j] \notin Evictable

(* The room to release is taken along when the locks are given up.         *)
Release(t, r) == task' = [task EXCEPT ![t] = [@ EXCEPT !.pc = "dropWindow", !.victim = r]]

(* enforce_window_cap(): the least recent live window goes, and again.     *)
Cap(t) ==
    LET within == Cardinality(Resident) <= MaxResident IN
    /\ task[t].pc = "cap"
    /\ \/ /\ within \/ Evictable = {}
          /\ Goto(t, IF task[t].kind = "jump" THEN "focus" ELSE "done")
       \/ \E r \in Evictable :
             /\ ~within /\ LeastRecent(r)
             /\ Release(t, r)
    /\ UNCHANGED <<maps, recent, building, latestJump, history>>

DropWindow(t) ==
    LET r == task[t].victim IN
    /\ task[t].pc = "dropWindow"
    /\ window' = [window EXCEPT ![r] = None] /\ focused' = [focused EXCEPT ![r] = None]
    /\ raced' = Race(r)
    /\ Goto(t, "dropLegacy")
    /\ UNCHANGED <<timelines, recent, building, latestJump, crossed>>

(* Mutant: the older map is forgotten.                                     *)
LegacyKept(r) == timelines

LegacyDropped(r) == [timelines EXCEPT ![r] = None]

DropLegacy(t) ==
    LET r == task[t].victim IN
    /\ task[t].pc = "dropLegacy"
    /\ timelines' = LegacyDropped(r)
    /\ crossed' = IF \E b \in DOMAIN task : task[b].pc = "legacySecond" /\ task[b].room = r
                  THEN crossed \cup {r} ELSE crossed \ {r}
    /\ Goto(t, "dropRecent")
    /\ UNCHANGED <<window, focused, recent, building, latestJump, raced>>

(* The six caches of the room go in between; the LRU entry goes last.      *)
DropRecent(t) ==
    /\ task[t].pc = "dropRecent"
    /\ recent' = Without(task[t].victim)
    /\ Goto(t, IF task[t].kind = "close" THEN "done" ELSE "cap")
    /\ UNCHANGED <<maps, building, latestJump, history>>

-----------------------------------------------------------------------------
(* focus_on_event(), once a window is believed to be there.                *)

(* The event's context is fetched from the homeserver.                     *)
Focus(t) ==
    /\ task[t].pc = "focus"
    /\ Goto(t, "current") \/ Goto(t, "done")
    /\ UNCHANGED <<maps, recent, building, latestJump, history>>

(* A superseded jump ends here.                                            *)
Current(t) ==
    /\ task[t].pc = "current"
    /\ Goto(t, IF latestJump[task[t].room] = t THEN "apply" ELSE "done")
    /\ UNCHANGED <<maps, recent, building, latestJump, history>>

(* apply_focused_timeline(), or "window missing for focused jump".         *)
Apply(t) ==
    LET r == task[t].room IN
    /\ task[t].pc = "apply"
    /\ focused' = IF window[r] # None THEN [focused EXCEPT ![r] = t] ELSE focused
    /\ Goto(t, "done")
    /\ UNCHANGED <<window, timelines, recent, building, latestJump, history>>

-----------------------------------------------------------------------------
Init ==
    /\ window = [r \in Rooms |-> None] /\ focused = [r \in Rooms |-> None]
    /\ timelines = [r \in Rooms |-> None]
    /\ recent = <<>> /\ building = {}
    /\ latestJump = [r \in Rooms |-> None]
    /\ task = <<>> /\ raced = {} /\ crossed = {}

TaskStep(t) ==
    \/ Look(t) \/ LookLegacy(t) \/ Mark(t)
    \/ Check(t) \/ Claim(t) \/ Build(t)
    \/ WindowFirst(t) \/ LegacySecond(t) \/ LegacyFirst(t) \/ WindowSecond(t)
    \/ Touch(t) \/ Cap(t) \/ DropWindow(t) \/ DropLegacy(t) \/ DropRecent(t)
    \/ Focus(t) \/ Current(t) \/ Apply(t)

Next ==
    \/ \E kind \in Kinds, r \in Rooms : Start(kind, r)
    \/ \E r \in Rooms : ReturnToLive(r)
    \/ \E t \in DOMAIN task : TaskStep(t)

Spec == Init /\ [][Next]_vars

-----------------------------------------------------------------------------
(* Properties.                                                             *)

(* Every variable stays in its range; the LRU queue has no room twice.     *)
TypeOK ==
    /\ window \in [Rooms -> TaskIds \cup {None}] /\ focused \in [Rooms -> TaskIds \cup {None}]
    /\ timelines \in [Rooms -> TaskIds \cup {None}]
    /\ recent \in Seq(Rooms) /\ \A i, j \in DOMAIN recent : recent[i] = recent[j] => i = j
    /\ building \subseteq Rooms
    /\ latestJump \in [Rooms -> TaskIds \cup {None}]
    /\ task \in Seq(TaskStates) /\ Len(task) <= MaxTasks
    /\ raced \subseteq Rooms /\ crossed \subseteq Rooms

(* No task is on its way that will still write a room's entries.           *)
AtRest(r) ==
    \A t \in DOMAIN task : Running(t) => task[t].room # r /\ Target(t) # r

(* The slot of a room is taken exactly while one poll builds its window:   *)
(* never two builds at a time, and no slot left behind by a way out.       *)
SlotsMatchBuilds ==
    LET builds(r) == {t \in DOMAIN task : /\ task[t].room = r /\ task[t].kind = "poll"
                                              /\ task[t].pc \in {"build", "legacyFirst", "windowSecond", "touch"}}
    IN \A r \in Rooms : Cardinality(builds(r)) = IF r \in building THEN 1 ELSE 0

(* The two maps name the same timeline, or neither has the room, once no   *)
(* task is busy with it: every early return, failed build and eviction     *)
(* leaves them so.  The only way out is two tasks between their two locks  *)
(* at once.                                                                *)
MapsAgreeUnlessRaced ==
    \A r \in Rooms \ raced : AtRest(r) => window[r] = timelines[r]

(* A room that is left with a timeline and no window stays blank, since a  *)
(* poll does not build for it.  Of all races only one does that: a release *)
(* that comes between the two halves of create_window_for_room().          *)
BlankOnlyWhenCrossed ==
    \A r \in Rooms \ crossed : AtRest(r) /\ timelines[r] # None => window[r] # None
=============================================================================
