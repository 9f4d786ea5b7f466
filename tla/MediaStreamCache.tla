-------------------------- MODULE MediaStreamCache --------------------------
(***************************************************************************)
(* The progressive on-disk cache behind the loopback video proxy.          *)
(*                                                                         *)
(* One background download per media fills a file under the path of its    *)
(* mxc; player requests read from the file as it grows.  A ".done" marker  *)
(* beside a file says that it is whole and may be reused by a later start. *)
(*                                                                         *)
(* Four kinds of actor work on the same directory and meet only there:     *)
(*   - requests, which find or replace entries under the entries lock;     *)
(*   - download tasks, which see a cancellation only between two chunks;   *)
(*   - blocking sweeps (start-up reclaim, eviction, "clear cache"), which  *)
(*     decide from a listing and unlink later;                             *)
(*   - the process, which may die between any two steps.                   *)
(* Files are inodes under paths, as on POSIX: unlinking a path leaves open *)
(* handles working, and truncating it does not reset their offsets.        *)
(***************************************************************************)
EXTENDS Naturals, FiniteSets, FiniteSetsExt

CONSTANTS
    Mxcs,          \* media
    Readers,       \* player connections
    Size,          \* chunks of a media
    Budget,        \* whole files the directory may hold before an eviction
    MaxEntries,    \* bound: cache entries created
    MaxSweeps,     \* bound: blocking sweeps outstanding at a time
    MaxChores,     \* bound: "clear cache" and budget changes
    MaxCrashes     \* bound: deaths of the process

ASSUME SizeAssumption   == Size \in Nat \ {0}
ASSUME BudgetAssumption == Budget \in Nat
ASSUME BoundsAssumption ==
    /\ MaxEntries \in Nat /\ MaxChores \in Nat /\ MaxCrashes \in Nat
    /\ MaxSweeps \in Nat \ {0}

None     == 0
EntryIds == 1..MaxEntries
Sweepers == 1..MaxSweeps

VARIABLES
    file,       \* mxc -> inode under its path, or None
    done,       \* mxc -> is there a marker beside the path?
    content,    \* inode -> positions that hold the media's bytes; others are holes
    entries,    \* MediaCache.entries: mxc -> entry, or None
    entry,      \* entry -> its progress channel, cancel flag and download task
    reader,     \* connection -> the response body being streamed on it
    sweep,      \* sweeper -> what it is doing
    created, chores, crashes,
    undermined  \* history: media whose path somebody touched who did not own it

bounds == <<chores, crashes>>
vars == <<file, done, content, entries, entry, reader, sweep, created, chores, crashes,
          undermined>>

TaskPcs == {"none", "fetch", "open", "body", "marker", "finish", "end"}
EntryStates ==
    [mxc : Mxcs \cup {None}, pc : TaskPcs, inode : EntryIds \cup {None}, total : 0..Size,
     written : 0..Size, complete : BOOLEAN, error : BOOLEAN, cancel : BOOLEAN]
ReaderStates ==
    [pc : {"idle", "wait", "read", "ended"}, entry : EntryIds \cup {None},
     offset : 0..Size, inode : EntryIds \cup {None}, garbage : BOOLEAN]
SweepStates ==
    [phase : {"idle", "reclaim", "reclaiming", "evict", "evicting", "wipe", "wiping"},
     active : SUBSET Mxcs, todo : SUBSET (Mxcs \X {"data", "marker"})]

NoReader == [pc |-> "idle", entry |-> None, offset |-> 0, inode |-> None, garbage |-> FALSE]
Resting  == [phase |-> "idle", active |-> {}, todo |-> {}]

-----------------------------------------------------------------------------
(* The directory.                                                          *)

Whole == 1..Size

(* Mutant: one past the end.                                               *)
LengthPastEnd(inode) == IF inode = None \/ content[inode] = {} THEN 0 ELSE Max(content[inode]) + 1

(* Bytes written after a hole count: the length is the last position.      *)
LengthOf(inode) == IF inode = None \/ content[inode] = {} THEN 0 ELSE Max(content[inode])

Live == {m \in Mxcs : entries[m] # None}

(* A healthy entry is downloading or complete; a failed one is replaced.   *)
Healthy(m) == entries[m] # None /\ ~entry[entries[m]].error

(* Mutant: the marker alone is believed.                                   *)
MarkerBelieved(m) == done[m]

Reusable(m) == done[m] /\ file[m] # None

NewEntry(m, pc, length, complete) ==
    [mxc |-> m, pc |-> pc, inode |-> None, total |-> length,
     written |-> IF complete THEN length ELSE 0,
     complete |-> complete, error |-> FALSE, cancel |-> FALSE]

(* spawn_blocking(): a sweep that will get to the directory some time.     *)
Spawn(phase, active) ==
    LET idle == {s \in Sweepers : sweep[s].phase = "idle"} IN
    /\ idle # {}
    /\ sweep' = [sweep EXCEPT ![Min(idle)] = [phase |-> phase, active |-> active, todo |-> {}]]

-----------------------------------------------------------------------------
(* Requests: MediaCache::get_or_start() runs under the entries lock and    *)
(* does not await; then the response waits on the entry.                   *)

Attach(r, e) == reader' = [reader EXCEPT ![r] = [NoReader EXCEPT !.pc = "wait", !.entry = e]]

Free(r) == reader[r].pc \in {"idle", "ended"}

RequestCurrent(r, m) ==
    /\ Free(r) /\ Healthy(m)
    /\ Attach(r, entries[m])
    /\ UNCHANGED <<file, done, content, entries, entry, sweep, created, bounds, undermined>>

(* A file with its marker, from any session, is an entry without a task.   *)
RequestReusable(r, m) ==
    /\ Free(r) /\ ~Healthy(m) /\ Reusable(m)
    /\ created < MaxEntries /\ created' = created + 1
    /\ entry' = [entry EXCEPT ![created'] = NewEntry(m, "end", LengthOf(file[m]), TRUE)]
    /\ entries' = [entries EXCEPT ![m] = created']
    /\ Attach(r, created')
    /\ UNCHANGED <<file, done, content, sweep, bounds, undermined>>

(* Mutant: only a failed entry of the same media makes way.                *)
StaleOfSameMedia(m) == {k \in Live \cap {m} : ~entry[entries[k]].complete}

(* Every entry that is not complete makes way for the new download.        *)
Stale(m) == {k \in Live : ~entry[entries[k]].complete}

(* Mutant: nobody parked on the entry is told.                             *)
CancelQuietly(e) == [e EXCEPT !.cancel = TRUE]

(* cancel, then publish_cancelled(): a terminal error on the channel.      *)
Cancelled(e) == [e EXCEPT !.cancel = TRUE, !.error = TRUE]

(* Otherwise a download starts.  The stale ones are cancelled and their    *)
(* files unlinked; the markers are not looked at.  An eviction is spawned  *)
(* with a snapshot of the entries that it must leave alone.                *)
RequestDownload(r, m) ==
    LET stale == Stale(m) IN
    /\ Free(r) /\ ~Healthy(m) /\ ~Reusable(m)
    /\ created < MaxEntries /\ created' = created + 1
    /\ file' = [k \in Mxcs |-> IF k \in stale THEN None ELSE file[k]]
    /\ entries' = [k \in Mxcs |-> IF k = m THEN created'
                                  ELSE IF k \in stale THEN None ELSE entries[k]]
    /\ entry' = [e \in EntryIds |->
                    IF e = created' THEN NewEntry(m, "fetch", Size, FALSE)
                    ELSE IF \E k \in stale : entries[k] = e THEN Cancelled(entry[e])
                    ELSE entry[e]]
    /\ Spawn("evict", (Live \ stale) \cup {m})
    /\ undermined' = IF done[m] THEN undermined \cup {m} ELSE undermined
    /\ Attach(r, created')
    /\ UNCHANGED <<done, content, bounds>>

-----------------------------------------------------------------------------
(* Readers: wait_total(), then EntryReader::read_at() chunk by chunk.      *)

ReaderGoto(r, pc) == reader' = [reader EXCEPT ![r].pc = pc]
ReaderFails(r)    == reader' = [reader EXCEPT ![r] = NoReader]

(* The size is known once the headers arrived, or from the file.           *)
WaitTotal(r) ==
    LET e == entry[reader[r].entry] IN
    /\ reader[r].pc = "wait"
    /\ \/ e.error /\ ReaderFails(r)
       \/ ~e.error /\ e.pc # "fetch" /\ ReaderGoto(r, "read")
    /\ UNCHANGED <<file, done, content, entries, entry, sweep, created, bounds, undermined>>

(* Mutant: the body ends as if the media did.                              *)
EndsCleanly(r) == ReaderGoto(r, "ended")

(* The download died: an error frame aborts the response.                  *)
Aborts(r) == ReaderFails(r)

(* A chunk within what is written is read through the response's handle,   *)
(* opened by path at its first chunk; a missing or short file is an error. *)
ReadChunk(r) ==
    LET e == entry[reader[r].entry]
        offset == reader[r].offset
        inode == IF reader[r].inode # None THEN reader[r].inode ELSE file[e.mxc]
    IN
    /\ reader[r].pc = "read"
    /\ \/ offset >= e.total /\ ReaderGoto(r, "ended")
       \/ offset < e.total /\ e.error /\ Aborts(r)
       \/ /\ offset < e.total /\ ~e.error /\ offset < e.written
          /\ IF offset < LengthOf(inode)
             THEN reader' = [reader EXCEPT ![r].offset = @ + 1, ![r].inode = inode,
                                 ![r].garbage = @ \/ offset + 1 \notin content[inode]]
             ELSE Aborts(r)
       \/ /\ offset < e.total /\ ~e.error /\ offset >= e.written
          /\ e.complete /\ ReaderGoto(r, "ended")
    /\ UNCHANGED <<file, done, content, entries, entry, sweep, created, bounds, undermined>>

(* The player closes the connection.                                       *)
HangUp(r) ==
    /\ reader[r].pc \in {"wait", "read"}
    /\ ReaderFails(r)
    /\ UNCHANGED <<file, done, content, entries, entry, sweep, created, bounds, undermined>>

-----------------------------------------------------------------------------
(* The download task: download_to_file().                                  *)

TaskGoto(e, pc) == entry' = [entry EXCEPT ![e].pc = pc]

(* Any error ends the task and is published, unless one already was.       *)
TaskFails(e) == entry' = [entry EXCEPT ![e].pc = "end", ![e].error = TRUE]

(* fetch_open(): up to three attempts, each bounded by the time-outs.      *)
FetchOpen(e) ==
    /\ entry[e].pc = "fetch"
    /\ TaskGoto(e, "open") \/ TaskFails(e)
    /\ UNCHANGED <<file, done, content, entries, reader, sweep, created, bounds, undermined>>

(* open_cache_file_for_write(): create or truncate, whoever owns the path. *)
OpenFile(e) ==
    LET m == entry[e].mxc
        inode == IF file[m] = None THEN e ELSE file[m]
    IN
    /\ entry[e].pc = "open"
    /\ \/ /\ file' = [file EXCEPT ![m] = inode]
          /\ content' = [content EXCEPT ![inode] = {}]
          /\ entry' = [entry EXCEPT ![e].pc = "body", ![e].inode = inode]
          /\ undermined' = IF entry[e].cancel THEN undermined \cup {m} ELSE undermined
       \/ TaskFails(e) /\ UNCHANGED <<file, content, undermined>>
    /\ UNCHANGED <<done, entries, reader, sweep, created, bounds>>

WrittenAfterChunk(e) == entry[e].written + 1

(* Mutant: a connection that breaks looks like the end of the body.        *)
BrokenLooksWhole(e) == TaskGoto(e, "marker")

BodyBreaks(e) == TaskFails(e)

(* One turn of the chunk loop; the cancel flag is read once per chunk, and *)
(* once more after the last.  A cancelled task publishes the error again.  *)
NextChunk(e) ==
    /\ entry[e].pc = "body"
    /\ \/ BodyBreaks(e) /\ UNCHANGED content
       \/ /\ entry[e].cancel
          /\ entry' = [entry EXCEPT ![e] = [Cancelled(entry[e]) EXCEPT !.pc = "end"]]
          /\ UNCHANGED content
       \/ /\ ~entry[e].cancel /\ entry[e].written < Size
          /\ content' = [content EXCEPT ![entry[e].inode] = @ \cup {entry[e].written + 1}]
          /\ entry' = [entry EXCEPT ![e].written = WrittenAfterChunk(e)]
       \/ /\ ~entry[e].cancel /\ entry[e].written = Size
          /\ TaskGoto(e, "marker") /\ UNCHANGED content
    /\ UNCHANGED <<file, done, entries, reader, sweep, created, bounds, undermined>>

(* The marker is written by path; a failure to write it is ignored.        *)
WriteMarker(e) ==
    LET m == entry[e].mxc IN
    /\ entry[e].pc = "marker"
    /\ done' \in {done, [done EXCEPT ![m] = TRUE]}
    /\ TaskGoto(e, "finish")
    /\ undermined' = IF entry[e].cancel THEN undermined \cup {m} ELSE undermined
    /\ UNCHANGED <<file, content, entries, reader, sweep, created, bounds>>

Complete(e) ==
    /\ entry[e].pc = "finish"
    /\ entry' = [entry EXCEPT ![e].pc = "end", ![e].complete = TRUE]
    /\ UNCHANGED <<file, done, content, entries, reader, sweep, created, bounds, undermined>>

-----------------------------------------------------------------------------
(* Sweeps.                                                                 *)

SweepGoto(s, phase, todo) ==
    sweep' = [sweep EXCEPT ![s] = [phase |-> IF todo = {} THEN "idle" ELSE phase,
                                   active |-> {}, todo |-> todo]]

Listed == {m \in Mxcs : file[m] # None}

(* reclaim_incomplete(): files without a marker, markers without a file.   *)
Leftovers ==
    {<<m, "data">> : m \in {k \in Listed : ~done[k]}}
        \cup {<<m, "marker">> : m \in {k \in Mxcs \ Listed : done[k]}}

ReclaimScan(s) ==
    /\ sweep[s].phase = "reclaim"
    /\ sweep' = [sweep EXCEPT ![s] =
           [phase |-> IF Leftovers = {} THEN "evict" ELSE "reclaiming",
            active |-> {}, todo |-> Leftovers]]
    /\ UNCHANGED <<file, done, content, entries, entry, reader, created, bounds, undermined>>

(* evict_to_budget(): past the budget, marked files that are not active    *)
(* go, down to half of it, in the order of their mtimes (left open here).  *)
Victims(active) ==
    LET counted == {m \in Listed : done[m]}
        evictable == counted \ active
        excess == Cardinality(counted) - Budget \div 2
    IN IF Cardinality(counted) <= Budget THEN {{}}
       ELSE IF Cardinality(evictable) <= excess THEN {evictable}
       ELSE kSubset(excess, evictable)

EvictScan(s) ==
    /\ sweep[s].phase = "evict"
    /\ \E victims \in Victims(sweep[s].active) :
           SweepGoto(s, "evicting", victims \X {"data", "marker"})
    /\ UNCHANGED <<file, done, content, entries, entry, reader, created, bounds, undermined>>

(* clear_stream_cache() after the entries are gone: the whole directory.   *)
WipeScan(s) ==
    /\ sweep[s].phase = "wipe"
    /\ SweepGoto(s, "wiping", {<<m, "data">> : m \in Listed}
                                  \cup {<<m, "marker">> : m \in {k \in Mxcs : done[k]}})
    /\ UNCHANGED <<file, done, content, entries, entry, reader, created, bounds, undermined>>

(* One unlink, by path.  An eviction unlinks a file before its marker.     *)
Unlink(s) ==
    /\ sweep[s].phase \in {"reclaiming", "evicting", "wiping"}
    /\ \E m \in Mxcs, kind \in {"data", "marker"} :
         LET rest == sweep[s].todo \ {<<m, kind>>} IN
         /\ <<m, kind>> \in sweep[s].todo
         /\ sweep[s].phase = "evicting" /\ kind = "marker" => <<m, "data">> \notin sweep[s].todo
         /\ file' = IF kind = "data" THEN [file EXCEPT ![m] = None] ELSE file
         /\ done' = IF kind = "marker" THEN [done EXCEPT ![m] = FALSE] ELSE done
         /\ undermined' = IF kind = "data" /\ m \in Live THEN undermined \cup {m} ELSE undermined
         /\ IF sweep[s].phase = "reclaiming" /\ rest = {}
            THEN sweep' = [sweep EXCEPT ![s].phase = "evict", ![s].todo = {}]
            ELSE SweepGoto(s, sweep[s].phase, rest)
    /\ UNCHANGED <<content, entries, entry, reader, created, bounds>>

(* enforce_budget(), when the size setting changes.                        *)
EnforceBudget ==
    /\ chores < MaxChores /\ chores' = chores + 1
    /\ Spawn("evict", Live)
    /\ UNCHANGED <<file, done, content, entries, entry, reader, created, crashes, undermined>>

(* clear_all_caches(), and stop() at a logout: cancel_all() first.         *)
ClearCaches ==
    /\ chores < MaxChores /\ chores' = chores + 1
    /\ entries' = [m \in Mxcs |-> None]
    /\ entry' = [e \in EntryIds |->
                    IF \E m \in Live : entries[m] = e THEN Cancelled(entry[e]) ELSE entry[e]]
    /\ Spawn("wipe", {})
    /\ UNCHANGED <<file, done, content, reader, created, crashes, undermined>>

-----------------------------------------------------------------------------
NoEntry == [mxc |-> None, pc |-> "none", inode |-> None, total |-> 0,
            written |-> 0, complete |-> FALSE, error |-> FALSE, cancel |-> FALSE]

(* MediaStreamServer::start() on a MediaCache::new(): no entry yet, and    *)
(* the start-up sweep on its way while the first requests are accepted.    *)
NewServer ==
    /\ entries' = [m \in Mxcs |-> None]
    /\ entry' = [e \in EntryIds |-> NoEntry]
    /\ reader' = [r \in Readers |-> NoReader]
    /\ sweep' = [s \in Sweepers |->
                    IF s = 1 THEN [Resting EXCEPT !.phase = "reclaim"] ELSE Resting]

(* The process dies and is started again: files and markers stay.          *)
Restart ==
    /\ crashes < MaxCrashes /\ crashes' = crashes + 1
    /\ NewServer
    /\ UNCHANGED <<file, done, content, created, chores, undermined>>

Init ==
    /\ file = [m \in Mxcs |-> None] /\ done = [m \in Mxcs |-> FALSE]
    /\ content = [i \in EntryIds |-> {}]
    /\ entries = [m \in Mxcs |-> None]
    /\ entry = [e \in EntryIds |-> NoEntry]
    /\ reader = [r \in Readers |-> NoReader]
    /\ sweep = [s \in Sweepers |->
                   IF s = 1 THEN [Resting EXCEPT !.phase = "reclaim"] ELSE Resting]
    /\ created = 0 /\ chores = 0 /\ crashes = 0 /\ undermined = {}

Request(r) ==
    \E m \in Mxcs : RequestCurrent(r, m) \/ RequestReusable(r, m) \/ RequestDownload(r, m)

ReaderStep(r) == WaitTotal(r) \/ ReadChunk(r)

TaskStep(e) ==
    FetchOpen(e) \/ OpenFile(e) \/ NextChunk(e) \/ WriteMarker(e) \/ Complete(e)

SweepStep(s) == ReclaimScan(s) \/ EvictScan(s) \/ WipeScan(s) \/ Unlink(s)

Next ==
    \/ \E r \in Readers : Request(r) \/ ReaderStep(r) \/ HangUp(r)
    \/ \E e \in EntryIds : TaskStep(e)
    \/ \E s \in Sweepers : SweepStep(s)
    \/ EnforceBudget \/ ClearCaches \/ Restart

(* The runtime polls tasks and connections; every upstream wait is bounded *)
(* by a time-out.  Sweeps may wait for a blocking thread for ever.         *)
Fairness ==
    /\ \A r \in Readers : WF_vars(ReaderStep(r))
    /\ \A e \in EntryIds : WF_vars(TaskStep(e))

Spec     == Init /\ [][Next]_vars
FairSpec == Spec /\ Fairness

-----------------------------------------------------------------------------
(* Properties.                                                             *)

(* Every variable stays in its range.                                      *)
TypeOK ==
    /\ file \in [Mxcs -> EntryIds \cup {None}] /\ done \in [Mxcs -> BOOLEAN]
    /\ content \in [EntryIds -> SUBSET Whole]
    /\ entries \in [Mxcs -> EntryIds \cup {None}]
    /\ \A e \in EntryIds : entry[e] \in EntryStates
    /\ \A r \in Readers : reader[r] \in ReaderStates
    /\ \A s \in Sweepers : sweep[s] \in SweepStates
    /\ created \in 0..MaxEntries /\ chores \in 0..MaxChores /\ crashes \in 0..MaxCrashes
    /\ undermined \subseteq Mxcs

(* A finished file gets a sibling marker, so a later session reuses it: a  *)
(* marked file is the whole media.  (cache.rs, module documentation)       *)
MarkedWhole(m) == done[m] /\ file[m] # None => content[file[m]] = Whole
MarkedFilesAreWhole == \A m \in Mxcs : MarkedWhole(m)

(* The file behind a complete entry is on disk while the entry is handed   *)
(* out: "files backing active in-memory entries are never evicted".        *)
Backed(m) == Healthy(m) /\ entry[entries[m]].complete => file[m] # None
CompleteEntriesAreBacked == \A m \in Mxcs : Backed(m)

(* A response that ends without an error delivered the media from the      *)
(* first byte to the last: never a hole, never short of the length that    *)
(* its headers announced.                                                  *)
Delivered(r) == reader[r].pc = "ended" => reader[r].offset = Size /\ ~reader[r].garbage

(* Both, and the clean end of a response, can only fail for media whose    *)
(* path was touched by somebody else: a cancelled download opening or      *)
(* marking it late, a download begun beside a leftover marker, a sweep     *)
(* unlinking it under a live entry.  No other interleaving of requests,    *)
(* cancellations, failures, evictions, wipes and crashes does harm.        *)
OnlyStraysCorrupt ==
    \A m \in Mxcs \ undermined : MarkedWhole(m)
OnlySweepsUnback ==
    \A m \in Mxcs \ undermined : Backed(m)
CleanEndIsWhole ==
    \A r \in Readers :
        reader[r].entry # None /\ entry[reader[r].entry].mxc \notin undermined => Delivered(r)

(* A new download has the bandwidth to itself: every other one has been    *)
(* told to stop.                                                           *)
OneLiveDownload ==
    \A d, e \in EntryIds :
        /\ entry[d].pc \in TaskPcs \ {"none", "end"} /\ ~entry[d].cancel
        /\ entry[e].pc \in TaskPcs \ {"none", "end"} /\ ~entry[e].cancel
        => d = e

(* A response is never left hanging: it gets its bytes, its end or an      *)
(* error, also when another video cancels its download.                    *)
ResponsesSettle ==
    \A r \in Readers : reader[r].pc \in {"wait", "read"} ~> reader[r].pc \notin {"wait", "read"}
=============================================================================
