------------------------- MODULE MediaStreamProofs -------------------------
(***************************************************************************)
(* TLAPS proofs of the safety properties of MediaStreamCache, for any      *)
(* media, connections, entries, sweeps, chores and crashes.                *)
(***************************************************************************)
EXTENDS MediaStreamCache, NaturalsInduction, WellFoundedInduction, TLAPS

(***************************************************************************)
(* The inductive invariant, in layers.                                     *)
(***************************************************************************)

(* The shapes: TypeOK, with functions for the three tables.                *)
Shape ==
    /\ file \in [Mxcs -> EntryIds \cup {None}] /\ done \in [Mxcs -> BOOLEAN]
    /\ content \in [EntryIds -> SUBSET Whole]
    /\ entries \in [Mxcs -> EntryIds \cup {None}]
    /\ entry \in [EntryIds -> EntryStates]
    /\ reader \in [Readers -> ReaderStates]
    /\ sweep \in [Sweepers -> SweepStates]
    /\ created \in 0..MaxEntries /\ chores \in 0..MaxChores /\ crashes \in 0..MaxCrashes
    /\ undermined \subseteq Mxcs

Used(e)    == entry[e].pc # "none"
Opening(e) == entry[e].pc \in {"fetch", "open"}
Filling(e) == entry[e].pc \in {"body", "marker", "finish"}
Running(e) == Opening(e) \/ Filling(e)

(* An entry that nobody gave an error to: it is the current one of its     *)
(* media.                                                                  *)
Sound(e) == Used(e) /\ ~entry[e].error

(* What one entry's flags say of each other, and of the table of entries.  *)
Flags(e) ==
    /\ e > created => entry[e] = NoEntry
    /\ Used(e) => entry[e].mxc \in Mxcs
    /\ entry[e].cancel => entry[e].error
    /\ entry[e].error => entry[e].cancel \/ ~Running(e)
    /\ Sound(e) => entries[entry[e].mxc] = e
    /\ entry[e].complete => entry[e].pc = "end" /\ entry[e].written = entry[e].total
    /\ entry[e].pc = "end" /\ ~entry[e].error => entry[e].complete
    /\ Running(e) => entry[e].total = Size
    /\ Opening(e) => entry[e].written = 0
    /\ entry[e].pc \in {"marker", "finish"} => entry[e].written = Size

Listing(m) ==
    entries[m] # None => Used(entries[m]) /\ entry[entries[m]].mxc = m

Alone ==
    \A d, e \in EntryIds : Sound(d) /\ Running(d) /\ Sound(e) /\ Running(e) => d = e

Ledger ==
    /\ \A e \in EntryIds : Flags(e)
    /\ \A m \in Mxcs : Listing(m)
    /\ Alone

(* Which file is whose: an inode is under one path at most, an entry's     *)
(* inode is under no other path than its media's, and an entry that has    *)
(* still to open its file finds no inode made for it.                      *)
Unmade(i) ==
    (\A m \in Mxcs : file[m] # i) /\ (\A d \in EntryIds : entry[d].inode # i)

Paths ==
    /\ \A m, n \in Mxcs : file[m] # None /\ file[m] = file[n] => m = n
    /\ \A e \in EntryIds, m \in Mxcs :
           entry[e].inode # None /\ file[m] = entry[e].inode => entry[e].mxc = m
    /\ \A e \in EntryIds : e > created \/ Opening(e) => Unmade(e)

(* As far as the path of its media was left alone: what a sound entry has  *)
(* written is what the file holds, and no marker stands beside a file that *)
(* is not whole.                                                           *)
Filed(e) ==
    LET m == entry[e].mxc IN
    /\ Opening(e) \/ entry[e].pc \in {"body", "marker"} => ~done[m]
    /\ Filling(e) => file[m] = entry[e].inode
    /\ ~Opening(e) => file[m] # None /\ content[file[m]] = 1..entry[e].written
    /\ entry[e].pc = "end" => entry[e].written = Size

FilesRight ==
    /\ \A m \in Mxcs \ undermined : MarkedWhole(m)
    /\ \A e \in EntryIds : Used(e) /\ entry[e].mxc \notin undermined => entry[e].total = Size
    /\ \A e \in EntryIds : Sound(e) /\ entry[e].mxc \notin undermined => Filed(e)

(* What a response may rely on.                                            *)
Served(r) ==
    LET e == reader[r].entry
        m == entry[e].mxc
    IN
    /\ Used(e)
    /\ m \notin undermined =>
         /\ ~reader[r].garbage
         /\ reader[r].pc = "ended" => reader[r].offset = Size
         /\ Sound(e) /\ reader[r].inode # None => ~Opening(e) /\ reader[r].inode = file[m]

Replies ==
    /\ \A r \in Readers : reader[r].entry # None => Served(r)
    /\ \A r \in Readers : reader[r].entry = None => reader[r].pc = "idle"

Inv == Shape /\ Ledger /\ Paths /\ FilesRight /\ Replies

-----------------------------------------------------------------------------
(* Extremes of finite sets of numbers.                                     *)

LEMMA Least ==
  ASSUME NEW n \in Nat, NEW S \in SUBSET (1..n), S # {}
  PROVE  \E m \in S : \A k \in S : m <= k
<1>1. S \subseteq Nat
  OBVIOUS
<1>2. IsWellFoundedOn(OpToRel(<, Nat), Nat)
  BY NatLessThanWellFounded, Zenon
<1>3. PICK m \in S : \A k \in S : ~(<<k, m>> \in OpToRel(<, Nat))
  BY <1>1, <1>2, WFMin, Zenon
<1>4. \A k \in S : ~(k < m)
  BY <1>1, <1>3, Zenon DEF OpToRel
<1> QED BY <1>1, <1>4

LEMMA MaxMember ==
  ASSUME NEW n \in Nat, NEW S \in SUBSET (1..n), S # {}
  PROVE  Max(S) \in S /\ \A k \in S : Max(S) >= k
<1> DEFINE T == {x \in 1..n : n + 1 - x \in S}
<1>1. T \in SUBSET (1..n)
  OBVIOUS
<1>2. T # {}
  <2>1. PICK s \in S : TRUE
    OBVIOUS
  <2>2. n + 1 - s \in 1..n /\ n + 1 - (n + 1 - s) = s
    OBVIOUS
  <2> QED BY <2>1, <2>2
<1>3. PICK t \in T : \A k \in T : t <= k
  BY <1>1, <1>2, Least
<1>4. n + 1 - t \in S
  BY <1>3
<1>5. ASSUME NEW k \in S PROVE n + 1 - t >= k
  <2>1. n + 1 - k \in 1..n /\ n + 1 - (n + 1 - k) = k
    OBVIOUS
  <2>2. n + 1 - k \in T
    BY <2>1
  <2>3. t <= n + 1 - k /\ k \in 1..n /\ t \in 1..n
    BY <1>3, <2>2
  <2> QED BY <2>3
<1>6. \E x \in S : \A y \in S : x >= y
  BY <1>4, <1>5
<1> QED BY <1>6 DEF Max

(* The length of a file is a position in the media, and Size if the file   *)
(* is whole.                                                               *)
LEMMA LengthTyped ==
  ASSUME content \in [EntryIds -> SUBSET Whole], NEW i \in EntryIds \cup {None}
  PROVE  /\ LengthOf(i) \in 0..Size
         /\ i # None /\ content[i] = Whole => LengthOf(i) = Size
<1>1. Size \in Nat \ {0} /\ Whole = 1..Size
  BY SizeAssumption DEF Whole
<1>2. CASE i = None \/ content[i] = {}
  <2>1. LengthOf(i) = 0
    BY <1>2 DEF LengthOf
  <2>2. 1 \in 1..Size
    BY <1>1
  <2> QED BY <1>1, <1>2, <2>1, <2>2
<1>3. CASE i # None /\ content[i] # {}
  <2>1. content[i] \in SUBSET (1..Size)
    BY <1>1, <1>3
  <2>2. Max(content[i]) \in content[i] /\ \A k \in content[i] : Max(content[i]) >= k
    BY <1>1, <1>3, <2>1, MaxMember
  <2>3. LengthOf(i) = Max(content[i])
    BY <1>3 DEF LengthOf
  <2>4. Size \in 1..Size
    BY <1>1
  <2> QED BY <1>1, <2>1, <2>2, <2>3, <2>4
<1> QED BY <1>2, <1>3

-----------------------------------------------------------------------------
(* Types.                                                                  *)

LEMMA ShapeTyped == Shape => TypeOK
BY DEF Shape, TypeOK

LEMMA ResourcesTyped ==
  /\ NoReader \in ReaderStates
  /\ Resting \in SweepStates
  /\ [Resting EXCEPT !.phase = "reclaim"] \in SweepStates
  /\ NoEntry \in EntryStates
  /\ Size \in 0..Size /\ 0 \in 0..Size
BY SizeAssumption DEF NoReader, ReaderStates, Resting, SweepStates, NoEntry, EntryStates, TaskPcs

LEMMA SpawnTyped ==
  ASSUME Shape, NEW phase \in {"evict", "wipe"}, NEW active \in SUBSET Mxcs,
         Spawn(phase, active)
  PROVE  sweep' \in [Sweepers -> SweepStates]
<1> DEFINE idle == {s \in Sweepers : sweep[s].phase = "idle"}
           new == [phase |-> phase, active |-> active, todo |-> {}]
<1>1. new \in SweepStates
  BY DEF SweepStates
<1>2. idle # {} /\ sweep' = [sweep EXCEPT ![Min(idle)] = new]
  BY DEF Spawn
<1> QED BY <1>1, <1>2 DEF Shape

LEMMA AttachTyped ==
  ASSUME Shape, NEW r \in Readers, NEW e \in EntryIds, Attach(r, e)
  PROVE  reader' \in [Readers -> ReaderStates]
<1>1. [NoReader EXCEPT !.pc = "wait", !.entry = e] \in ReaderStates
  BY ResourcesTyped DEF NoReader, ReaderStates
<1> QED BY <1>1 DEF Attach, Shape

(* The next number is free.                                                *)
LEMMA NextEntry ==
  ASSUME Shape, created < MaxEntries, created' = created + 1
  PROVE  created' \in EntryIds /\ created' \in 0..MaxEntries /\ created' > created
         /\ \A e \in EntryIds : e > created' => e > created
BY BoundsAssumption DEF Shape, EntryIds

LEMMA RequestTyped ==
  ASSUME Shape, NEW r \in Readers, Request(r)
  PROVE  Shape'
<1>1. PICK m \in Mxcs : RequestCurrent(r, m) \/ RequestReusable(r, m) \/ RequestDownload(r, m)
  BY DEF Request
<1>2. CASE RequestCurrent(r, m)
  <2>1. entries[m] \in EntryIds
    BY <1>2 DEF RequestCurrent, Healthy, Shape
  <2>2. reader' \in [Readers -> ReaderStates]
    BY <1>2, <2>1, AttachTyped DEF RequestCurrent
  <2> QED BY <1>2, <2>2 DEF RequestCurrent, Shape, bounds
<1>3. CASE RequestReusable(r, m)
  <2>1. created' \in EntryIds /\ created' \in 0..MaxEntries
    BY <1>3, NextEntry DEF RequestReusable
  <2>2. LengthOf(file[m]) \in 0..Size
    BY LengthTyped DEF Shape
  <2>3. NewEntry(m, "end", LengthOf(file[m]), TRUE) \in EntryStates
    BY <2>2 DEF NewEntry, EntryStates, TaskPcs
  <2>4. reader' \in [Readers -> ReaderStates]
    BY <1>3, <2>1, AttachTyped DEF RequestReusable
  <2>5. entry' \in [EntryIds -> EntryStates] /\ entries' \in [Mxcs -> EntryIds \cup {None}]
    BY <1>3, <2>1, <2>3 DEF RequestReusable, Shape
  <2> QED BY <1>3, <2>1, <2>4, <2>5 DEF RequestReusable, Shape, bounds
<1>4. CASE RequestDownload(r, m)
  <2>1. created' \in EntryIds /\ created' \in 0..MaxEntries
    BY <1>4, NextEntry DEF RequestDownload
  <2>2. NewEntry(m, "fetch", Size, FALSE) \in EntryStates
    BY ResourcesTyped DEF NewEntry, EntryStates, TaskPcs
  <2>3. \A e \in EntryIds : Cancelled(entry[e]) \in EntryStates
    BY DEF Cancelled, EntryStates, Shape
  <2>4. reader' \in [Readers -> ReaderStates]
    BY <1>4, <2>1, AttachTyped DEF RequestDownload
  <2>5. entry' \in [EntryIds -> EntryStates]
    BY <1>4, <2>2, <2>3 DEF RequestDownload, Shape
  <2>6. entries' \in [Mxcs -> EntryIds \cup {None}] /\ file' \in [Mxcs -> EntryIds \cup {None}]
    BY <1>4, <2>1 DEF RequestDownload, Shape
  <2>7. sweep' \in [Sweepers -> SweepStates]
    BY <1>4, SpawnTyped DEF RequestDownload, Live
  <2>8. undermined' \subseteq Mxcs
    BY <1>4 DEF RequestDownload, Shape
  <2> QED BY <1>4, <2>1, <2>4, <2>5, <2>6, <2>7, <2>8 DEF RequestDownload, Shape, bounds
<1> QED BY <1>1, <1>2, <1>3, <1>4

LEMMA ReaderGotoTyped ==
  ASSUME Shape, NEW r \in Readers, NEW pc \in {"read", "ended"},
         ReaderGoto(r, pc) \/ ReaderFails(r)
  PROVE  reader' \in [Readers -> ReaderStates]
<1>1. [reader[r] EXCEPT !.pc = pc] \in ReaderStates
  BY DEF Shape, ReaderStates
<1> QED BY <1>1, ResourcesTyped DEF ReaderGoto, ReaderFails, Shape

(* A response under way has an entry of a media.                           *)
LEMMA ReaderEntry ==
  ASSUME Inv, NEW r \in Readers, reader[r].pc # "idle"
  PROVE  /\ reader[r].entry \in EntryIds
         /\ Served(r)
         /\ entry[reader[r].entry].mxc \in Mxcs
<1>1. reader[r] \in ReaderStates
  BY DEF Inv, Shape
<1>2. reader[r].entry \in EntryIds
  BY <1>1 DEF Inv, Replies, ReaderStates
<1>3. reader[r].entry # None
  BY DEF Inv, Replies
<1>4. Served(r)
  BY <1>3 DEF Inv, Replies
<1>5. Flags(reader[r].entry)
  BY <1>2 DEF Inv, Ledger
<1> QED BY <1>2, <1>4, <1>5 DEF Served, Flags

(* The chunk that a response reads next: where it is.                      *)
Handle(r) ==
    IF reader[r].inode # None THEN reader[r].inode ELSE file[entry[reader[r].entry].mxc]

Reads(r) ==
    LET e == entry[reader[r].entry] IN
    /\ reader[r].pc = "read"
    /\ reader[r].offset < e.total /\ ~e.error /\ reader[r].offset < e.written
    /\ reader[r].offset < LengthOf(Handle(r))
    /\ reader' = [reader EXCEPT ![r].offset = @ + 1, ![r].inode = Handle(r),
                      ![r].garbage = @ \/ reader[r].offset + 1 \notin content[Handle(r)]]

LEMMA ReadChunkCases ==
  ASSUME NEW r \in Readers, ReadChunk(r)
  PROVE  \/ Reads(r)
         \/ ReaderFails(r)
         \/ /\ ReaderGoto(r, "ended")
            /\ \/ reader[r].offset >= entry[reader[r].entry].total
               \/ /\ ~entry[reader[r].entry].error /\ entry[reader[r].entry].complete
                  /\ reader[r].offset >= entry[reader[r].entry].written
BY DEF ReadChunk, Reads, Handle, Aborts

LEMMA ReadsTyped ==
  ASSUME Inv, NEW r \in Readers, Reads(r)
  PROVE  /\ Handle(r) \in EntryIds
         /\ reader'[r] = [reader[r] EXCEPT !.offset = @ + 1, !.inode = Handle(r),
                 !.garbage = @ \/ reader[r].offset + 1 \notin content[Handle(r)]]
         /\ reader'[r] \in ReaderStates
<1>1. reader[r] \in ReaderStates /\ reader \in [Readers -> ReaderStates]
  BY DEF Inv, Shape
<1>2. reader[r].entry \in EntryIds /\ entry[reader[r].entry].mxc \in Mxcs
  BY ReaderEntry DEF Reads
<1>3. Handle(r) \in EntryIds \cup {None}
  BY <1>1, <1>2 DEF Handle, Inv, Shape, ReaderStates
<1>4. Handle(r) \in EntryIds
  <2>1. LengthOf(None) = 0
    BY DEF LengthOf
  <2>2. ~(reader[r].offset < 0)
    BY <1>1, SizeAssumption DEF ReaderStates
  <2> QED BY <1>3, <2>1, <2>2 DEF Reads
<1>5. reader[r].offset + 1 \in 0..Size
  <2>1. entry[reader[r].entry].total \in 0..Size
    BY <1>2 DEF Inv, Shape, EntryStates
  <2> QED BY <1>1, <2>1, SizeAssumption DEF Reads, ReaderStates
<1>6. reader'[r] = [reader[r] EXCEPT !.offset = @ + 1, !.inode = Handle(r),
                 !.garbage = @ \/ reader[r].offset + 1 \notin content[Handle(r)]]
  BY <1>1 DEF Reads
<1>7. (reader[r].garbage \/ reader[r].offset + 1 \notin content[Handle(r)]) \in BOOLEAN
  OBVIOUS
<1>8. reader'[r] \in ReaderStates
  BY <1>1, <1>4, <1>5, <1>6, <1>7 DEF ReaderStates
<1> QED BY <1>4, <1>6, <1>8

LEMMA ReaderTyped ==
  ASSUME Inv, NEW r \in Readers, ReaderStep(r) \/ HangUp(r)
  PROVE  Shape'
<1>1. reader' \in [Readers -> ReaderStates]
  <2>1. CASE WaitTotal(r) \/ HangUp(r)
    BY <2>1, ReaderGotoTyped DEF WaitTotal, HangUp, Inv
  <2>2. CASE ReadChunk(r)
    <3>1. CASE Reads(r)
      <4>1. reader' = [reader EXCEPT ![r] = reader'[r]]
        BY <3>1 DEF Reads, Inv, Shape
      <4> QED BY <3>1, <4>1, ReadsTyped DEF Inv, Shape
    <3>2. CASE ReaderFails(r) \/ ReaderGoto(r, "ended")
      BY <3>2, ReaderGotoTyped DEF Inv
    <3> QED BY <2>2, <3>1, <3>2, ReadChunkCases
  <2> QED BY <2>1, <2>2 DEF ReaderStep
<1> QED BY <1>1 DEF ReaderStep, WaitTotal, ReadChunk, HangUp, Inv, Shape, bounds

LEMMA TaskTyped ==
  ASSUME Inv, NEW e \in EntryIds, TaskStep(e)
  PROVE  /\ Shape'
         /\ Running(e) /\ entry[e].mxc \in Mxcs
<1>1. Running(e) /\ Used(e)
  BY DEF TaskStep, FetchOpen, OpenFile, NextChunk, WriteMarker, Complete, Running, Opening,
         Filling, Used
<1>2. entry[e].mxc \in Mxcs /\ entry[e] \in EntryStates /\ Shape
  BY <1>1 DEF Inv, Ledger, Flags, Shape
<1> SUFFICES Shape'
  BY <1>1, <1>2
<1> USE <1>2
<1>3. \A pc \in TaskPcs : TaskGoto(e, pc) => entry' \in [EntryIds -> EntryStates]
  BY DEF TaskGoto, EntryStates, Shape
<1>4. TaskFails(e) => entry' \in [EntryIds -> EntryStates]
  <2>1. [entry[e] EXCEPT !.pc = "end", !.error = TRUE] \in EntryStates
    BY DEF EntryStates, TaskPcs
  <2> QED BY <2>1 DEF TaskFails, Shape
<1>5. CASE FetchOpen(e)
  BY <1>3, <1>4, <1>5 DEF FetchOpen, Shape, bounds, TaskPcs
<1>6. CASE OpenFile(e)
  <2> DEFINE inode == IF file[entry[e].mxc] = None THEN e ELSE file[entry[e].mxc]
  <2>1. inode \in EntryIds
    BY DEF Shape
  <2>2. [entry[e] EXCEPT !.pc = "body", !.inode = inode] \in EntryStates
    BY <2>1 DEF EntryStates, TaskPcs
  <2>3. entry' = [entry EXCEPT ![e].pc = "body", ![e].inode = inode]
         => entry' \in [EntryIds -> EntryStates]
    BY <2>2 DEF Shape
  <2>4. entry' \in [EntryIds -> EntryStates]
    BY <1>4, <1>6, <2>3 DEF OpenFile
  <2> QED BY <1>6, <2>1, <2>4 DEF OpenFile, Shape, bounds
<1>7. CASE NextChunk(e)
  <2>1. entry[e].written < Size => entry[e].written + 1 \in 0..Size /\ entry[e].written + 1 \in Whole
    BY SizeAssumption DEF EntryStates, Whole
  <2>2. entry[e].written < Size => [entry[e] EXCEPT !.written = entry[e].written + 1] \in EntryStates
    BY <2>1 DEF EntryStates
  <2>3. [Cancelled(entry[e]) EXCEPT !.pc = "end"] \in EntryStates
    BY DEF Cancelled, EntryStates, TaskPcs
  <2>4. entry' \in [EntryIds -> EntryStates]
    <3>1. CASE entry' = [entry EXCEPT ![e].written = WrittenAfterChunk(e)] /\ entry[e].written < Size
      BY <3>1, <2>2 DEF Shape, WrittenAfterChunk
    <3>2. CASE entry' = [entry EXCEPT ![e] = [Cancelled(entry[e]) EXCEPT !.pc = "end"]]
      BY <3>2, <2>3 DEF Shape
    <3> QED BY <1>3, <1>4, <1>7, <3>1, <3>2 DEF NextChunk, BodyBreaks, TaskPcs
  <2>5. content' \in [EntryIds -> SUBSET Whole]
    BY <1>7, <2>1 DEF NextChunk, Shape
  <2> QED BY <1>7, <2>4, <2>5 DEF NextChunk, Shape, bounds
<1>8. CASE WriteMarker(e)
  BY <1>3, <1>8 DEF WriteMarker, Shape, bounds, TaskPcs
<1>9. CASE Complete(e)
  <2>1. [entry[e] EXCEPT !.pc = "end", !.complete = TRUE] \in EntryStates
    BY DEF EntryStates, TaskPcs
  <2> QED BY <1>9, <2>1 DEF Complete, Shape, bounds
<1> QED BY <1>1, <1>5, <1>6, <1>7, <1>8, <1>9 DEF TaskStep

LEMMA SweepTyped ==
  ASSUME Shape, NEW s \in Sweepers, SweepStep(s)
  PROVE  Shape'
<1> DEFINE Todo == SUBSET (Mxcs \X {"data", "marker"})
<1>1. \A phase \in {"evicting", "wiping", "reclaiming"}, todo \in Todo :
         SweepGoto(s, phase, todo) => sweep' \in [Sweepers -> SweepStates]
  BY DEF SweepGoto, SweepStates, Shape
<1>2. CASE ReclaimScan(s)
  <2>1. Leftovers \in Todo
    BY DEF Leftovers, Listed
  <2>2. [phase |-> IF Leftovers = {} THEN "evict" ELSE "reclaiming",
         active |-> {}, todo |-> Leftovers] \in SweepStates
    BY <2>1 DEF SweepStates
  <2> QED BY <1>2, <2>2 DEF ReclaimScan, Shape, bounds
<1>3. CASE EvictScan(s)
  <2>1. PICK victims \in Victims(sweep[s].active) :
          SweepGoto(s, "evicting", victims \X {"data", "marker"})
    BY <1>3 DEF EvictScan
  <2>2. victims \subseteq Mxcs
    BY DEF Victims, Listed, kSubset
  <2>3. victims \X {"data", "marker"} \in Todo
    BY <2>2
  <2> QED BY <1>1, <1>3, <2>1, <2>3 DEF EvictScan, Shape, bounds
<1>4. CASE WipeScan(s)
  <2>1. {<<m, "data">> : m \in Listed} \cup {<<m, "marker">> : m \in {k \in Mxcs : done[k]}} \in Todo
    BY DEF Listed
  <2> QED BY <1>1, <1>4, <2>1 DEF WipeScan, Shape, bounds
<1>5. CASE Unlink(s)
  <2>1. PICK m \in Mxcs, kind \in {"data", "marker"} :
         LET rest == sweep[s].todo \ {<<m, kind>>} IN
         /\ file' = IF kind = "data" THEN [file EXCEPT ![m] = None] ELSE file
         /\ done' = IF kind = "marker" THEN [done EXCEPT ![m] = FALSE] ELSE done
         /\ undermined' = IF kind = "data" /\ m \in Live THEN undermined \cup {m} ELSE undermined
         /\ IF sweep[s].phase = "reclaiming" /\ rest = {}
            THEN sweep' = [sweep EXCEPT ![s].phase = "evict", ![s].todo = {}]
            ELSE SweepGoto(s, sweep[s].phase, rest)
    BY <1>5 DEF Unlink
  <2>2. sweep[s] \in SweepStates /\ sweep[s].todo \ {<<m, kind>>} \in Todo
    BY DEF Shape, SweepStates
  <2>3. [sweep[s] EXCEPT !.phase = "evict", !.todo = {}] \in SweepStates
    BY <2>2 DEF SweepStates
  <2>4. sweep' \in [Sweepers -> SweepStates]
    <3>1. CASE sweep' = [sweep EXCEPT ![s].phase = "evict", ![s].todo = {}]
      BY <2>3, <3>1 DEF Shape
    <3> QED BY <1>1, <1>5, <2>1, <2>2, <3>1 DEF Unlink
  <2>5. file' \in [Mxcs -> EntryIds \cup {None}] /\ done' \in [Mxcs -> BOOLEAN]
        /\ undermined' \subseteq Mxcs
    BY <2>1 DEF Shape
  <2> QED BY <1>5, <2>4, <2>5 DEF Unlink, Shape, bounds
<1> QED BY <1>2, <1>3, <1>4, <1>5 DEF SweepStep

LEMMA ServerTyped ==
  ASSUME Shape, EnforceBudget \/ ClearCaches \/ Restart
  PROVE  Shape'
<1>1. CASE EnforceBudget
  <2>1. chores' \in 0..MaxChores
    BY <1>1, BoundsAssumption DEF EnforceBudget, Shape
  <2> QED BY <1>1, <2>1, SpawnTyped DEF EnforceBudget, Shape, Live
<1>2. CASE ClearCaches
  <2>1. chores' \in 0..MaxChores
    BY <1>2, BoundsAssumption DEF ClearCaches, Shape
  <2>2. \A e \in EntryIds : Cancelled(entry[e]) \in EntryStates
    BY DEF Cancelled, EntryStates, Shape
  <2>3. entry' \in [EntryIds -> EntryStates] /\ entries' \in [Mxcs -> EntryIds \cup {None}]
    BY <1>2, <2>2 DEF ClearCaches, Shape
  <2> QED BY <1>2, <2>1, <2>3, SpawnTyped DEF ClearCaches, Shape
<1>3. CASE Restart
  <2>1. crashes' \in 0..MaxCrashes
    BY <1>3, BoundsAssumption DEF Restart, Shape
  <2> QED BY <1>3, <2>1, ResourcesTyped DEF Restart, NewServer, Shape
<1> QED BY <1>1, <1>2, <1>3

-----------------------------------------------------------------------------
(* Ledger.                                                                 *)

(* A step of a task is a change of its entry, which stays under its media  *)
(* and keeps an error.                                                     *)
TaskChange(e) ==
    /\ entry' = [entry EXCEPT ![e] = entry'[e]]
    /\ UNCHANGED <<entries, reader, sweep, created>>
    /\ Running(e) /\ Used(e)'
    /\ entry'[e].mxc = entry[e].mxc /\ entry'[e].cancel = entry[e].cancel
    /\ entry[e].error => entry'[e].error
    /\ Opening(e)' => Opening(e)
    /\ entry'[e].total = entry[e].total

LEMMA TaskChanges ==
  ASSUME Inv, NEW e \in EntryIds, TaskStep(e)
  PROVE  TaskChange(e) /\ Flags(e)'
<1>1. /\ entry \in [EntryIds -> EntryStates] /\ entry[e] \in EntryStates /\ Flags(e)
      /\ entries' = entries /\ created' = created
  BY DEF Inv, Shape, Ledger, TaskStep, FetchOpen, OpenFile, NextChunk, WriteMarker, Complete
<1> USE <1>1
<1> USE DEF TaskChange, Flags, Running, Opening, Filling, Used, Sound
<1>2. ~(e > created)
  BY DEF TaskStep, FetchOpen, OpenFile, NextChunk, WriteMarker, Complete, NoEntry
<1>3. CASE TaskFails(e) /\ UNCHANGED <<entries, reader, sweep, created>> /\ Running(e)
  <2>1. entry' = [entry EXCEPT ![e] = entry'[e]]
        /\ entry'[e] = [entry[e] EXCEPT !.pc = "end", !.error = TRUE]
    BY <1>3 DEF TaskFails
  <2> QED BY <1>2, <1>3, <2>1 DEF EntryStates
<1>4. CASE FetchOpen(e) /\ TaskGoto(e, "open")
  <2>1. entry' = [entry EXCEPT ![e] = entry'[e]]
        /\ entry'[e] = [entry[e] EXCEPT !.pc = "open"]
    BY <1>4 DEF TaskGoto
  <2> QED BY <1>2, <1>4, <2>1 DEF EntryStates, FetchOpen
<1>5. CASE OpenFile(e) /\ ~TaskFails(e)
  <2>1. PICK i : entry' = [entry EXCEPT ![e].pc = "body", ![e].inode = i]
    BY <1>5 DEF OpenFile
  <2>2. entry' = [entry EXCEPT ![e] = entry'[e]]
        /\ entry'[e] = [entry[e] EXCEPT !.pc = "body", !.inode = i]
    BY <2>1
  <2> QED BY <1>2, <1>5, <2>2 DEF EntryStates, OpenFile
<1>6. CASE NextChunk(e) /\ ~TaskFails(e)
  <2>1. CASE entry' = [entry EXCEPT ![e] = [Cancelled(entry[e]) EXCEPT !.pc = "end"]] /\ entry[e].cancel
    <3>1. entry' = [entry EXCEPT ![e] = entry'[e]]
          /\ entry'[e] = [entry[e] EXCEPT !.cancel = TRUE, !.error = TRUE, !.pc = "end"]
      BY <2>1 DEF Cancelled, EntryStates
    <3>2. entry'[e].cancel = entry[e].cancel
      BY <2>1, <3>1 DEF EntryStates
    <3> QED BY <1>2, <1>6, <2>1, <3>1, <3>2 DEF EntryStates, NextChunk
  <2>2. CASE entry' = [entry EXCEPT ![e].written = WrittenAfterChunk(e)]
    <3>1. entry' = [entry EXCEPT ![e] = entry'[e]]
          /\ entry'[e] = [entry[e] EXCEPT !.written = entry[e].written + 1]
      BY <2>2 DEF WrittenAfterChunk
    <3> QED BY <1>2, <1>6, <3>1 DEF EntryStates, NextChunk
  <2>3. CASE TaskGoto(e, "marker") /\ entry[e].written = Size
    <3>1. entry' = [entry EXCEPT ![e] = entry'[e]]
          /\ entry'[e] = [entry[e] EXCEPT !.pc = "marker"]
      BY <2>3 DEF TaskGoto
    <3> QED BY <1>2, <1>6, <2>3, <3>1 DEF EntryStates, NextChunk
  <2> QED BY <1>6, <2>1, <2>2, <2>3 DEF NextChunk, BodyBreaks
<1>7. CASE WriteMarker(e)
  <2>1. entry' = [entry EXCEPT ![e] = entry'[e]]
        /\ entry'[e] = [entry[e] EXCEPT !.pc = "finish"]
    BY <1>7 DEF WriteMarker, TaskGoto
  <2> QED BY <1>2, <1>7, <2>1 DEF EntryStates, WriteMarker
<1>8. CASE Complete(e)
  <2>1. entry' = [entry EXCEPT ![e] = entry'[e]]
        /\ entry'[e] = [entry[e] EXCEPT !.pc = "end", !.complete = TRUE]
    BY <1>8 DEF Complete
  <2> QED BY <1>2, <1>8, <2>1 DEF EntryStates, Complete
<1>9. TaskStep(e) /\ TaskFails(e) => UNCHANGED <<entries, reader, sweep, created>> /\ Running(e)
  BY DEF TaskStep, FetchOpen, OpenFile, NextChunk, WriteMarker, Complete
<1> QED BY <1>3, <1>4, <1>5, <1>6, <1>7, <1>8, <1>9 DEF TaskStep, FetchOpen

LEMMA TaskLedger ==
  ASSUME Inv, NEW e \in EntryIds, TaskStep(e)
  PROVE  Ledger'
<1>1. TaskChange(e) /\ Flags(e)'
  BY TaskChanges
<1>2. \A d \in EntryIds \ {e} : entry'[d] = entry[d]
  BY <1>1 DEF TaskChange, Inv, Shape
<1>3. \A d \in EntryIds : Flags(d)'
  BY <1>1, <1>2 DEF Inv, Ledger, Flags, TaskChange, Sound, Used, Running, Opening, Filling
<1>4. \A d \in EntryIds : Sound(d)' /\ Running(d)' => Sound(d) /\ Running(d)
  BY <1>1, <1>2 DEF TaskChange, Sound, Used, Running, Opening, Filling
<1>5. Alone'
  BY <1>4 DEF Inv, Ledger, Alone
<1>6. \A m \in Mxcs : Listing(m)'
  <2>1. \A m \in Mxcs : entries[m] \in EntryIds \cup {None}
    BY DEF Inv, Shape
  <2> QED BY <1>1, <1>2, <2>1 DEF Inv, Ledger, Listing, TaskChange, Used
<1> QED BY <1>3, <1>5, <1>6 DEF Ledger

LEMMA CancelledFields ==
  ASSUME Shape, NEW e \in EntryIds
  PROVE  LET c == Cancelled(entry[e]) IN
         /\ c.mxc = entry[e].mxc /\ c.pc = entry[e].pc /\ c.inode = entry[e].inode
         /\ c.total = entry[e].total /\ c.written = entry[e].written
         /\ c.complete = entry[e].complete /\ c.error = TRUE /\ c.cancel = TRUE
<1>1. entry[e] \in EntryStates
  BY DEF Shape
<1> QED BY <1>1 DEF Cancelled, EntryStates

(* An entry past the last one is unused; a listed one is not.              *)
LEMMA Numbered ==
  ASSUME Inv
  PROVE  /\ \A e \in EntryIds : e > created => ~Used(e)
         /\ \A m \in Mxcs : entries[m] \in EntryIds => ~(entries[m] > created)
BY DEF Inv, Ledger, Flags, Listing, Used, NoEntry, EntryIds, None

LEMMA ReusableLedger ==
  ASSUME Inv, NEW r \in Readers, NEW m \in Mxcs, RequestReusable(r, m)
  PROVE  Ledger'
<1> PICK c \in EntryIds : c = created' /\ c > created /\ ~(c > c) /\ \A e \in EntryIds : e > c => e > created
  BY NextEntry DEF RequestReusable, Inv, EntryIds
<1>2. /\ entry' = [entry EXCEPT ![c] = NewEntry(m, "end", LengthOf(file[m]), TRUE)]
      /\ entries' = [entries EXCEPT ![m] = c]
  BY DEF RequestReusable
<1>3. /\ entry'[c].mxc = m /\ entry'[c].pc = "end" /\ ~entry'[c].error /\ ~entry'[c].cancel
      /\ entry'[c].complete /\ entry'[c].written = entry'[c].total
      /\ \A d \in EntryIds \ {c} : entry'[d] = entry[d]
      /\ entries'[m] = c /\ \A n \in Mxcs \ {m} : entries'[n] = entries[n]
  BY <1>2 DEF Inv, Shape, NewEntry
<1>4. Flags(c)'
  BY <1>3 DEF Flags, Used, Sound, Running, Opening, Filling, Inv, Shape
<1>5. ASSUME NEW d \in EntryIds \ {c} PROVE Flags(d)'
  <2>1. Flags(d) /\ entry'[d] = entry[d]
    BY <1>3 DEF Inv, Ledger
  <2>2. Sound(d) => entry[d].mxc # m
    <3>1. ~Healthy(m)
      BY DEF RequestReusable
    <3> QED BY <2>1, <3>1 DEF Flags, Sound, Healthy, EntryIds, None
  <2>3. Sound(d) => entries'[entry[d].mxc] = d
    BY <1>3, <2>1, <2>2 DEF Flags, Sound
  <2> QED BY <2>1, <2>3 DEF Flags, Used, Sound, Running, Opening, Filling
<1>6. \A n \in Mxcs : Listing(n)'
  <2>1. Listing(m)'
    BY <1>3 DEF Listing, Used
  <2>2. ASSUME NEW n \in Mxcs \ {m} PROVE Listing(n)'
    <3>1. entries[n] \in EntryIds => entry'[entries[n]] = entry[entries[n]]
      BY <1>3, Numbered
    <3> QED BY <1>3, <3>1 DEF Listing, Used, Inv, Ledger, Shape
  <2> QED BY <2>1, <2>2
<1>7. \A d \in EntryIds : Sound(d)' /\ Running(d)' => Sound(d) /\ Running(d)
  BY <1>3 DEF Sound, Used, Running, Opening, Filling
<1>8. Alone'
  BY <1>7 DEF Inv, Ledger, Alone
<1> QED BY <1>4, <1>5, <1>6, <1>8 DEF Ledger

(* What RequestDownload does to the tables.                                *)
LEMMA DownloadTables ==
  ASSUME Inv, NEW r \in Readers, NEW m \in Mxcs, RequestDownload(r, m)
  PROVE  LET c == created' IN
         /\ c \in EntryIds /\ c > created /\ \A e \in EntryIds : e > c => e > created
         /\ entry'[c] = NewEntry(m, "fetch", Size, FALSE)
         /\ entries'[m] = c
         /\ \A n \in Mxcs \ {m} : entries'[n] = IF n \in Stale(m) THEN None ELSE entries[n]
         /\ \A n \in Mxcs : file'[n] = IF n \in Stale(m) THEN None ELSE file[n]
         /\ \A d \in EntryIds \ {c} :
              /\ (\E n \in Stale(m) : entries[n] = d) => entry'[d] = Cancelled(entry[d])
              /\ ~(\E n \in Stale(m) : entries[n] = d) => entry'[d] = entry[d]
<1>1. created' \in EntryIds /\ created' > created /\ \A e \in EntryIds : e > created' => e > created
  BY NextEntry DEF RequestDownload, Inv
<1> QED BY <1>1 DEF RequestDownload

(* A sound entry that is left sound was complete, and of another media.    *)
LEMMA DownloadSound ==
  ASSUME Inv, NEW r \in Readers, NEW m \in Mxcs, RequestDownload(r, m),
         NEW d \in EntryIds, d # created', Sound(d)'
  PROVE  /\ entry'[d] = entry[d] /\ Sound(d) /\ entry[d].complete
         /\ entry[d].mxc \in Mxcs \ {m}
         /\ entry[d].mxc \notin Stale(m)
<1>1. ~(\E n \in Stale(m) : entries[n] = d) /\ entry'[d] = entry[d]
  BY DownloadTables, CancelledFields DEF Sound, Inv
<1>2. Sound(d) /\ Flags(d)
  BY <1>1 DEF Sound, Used, Inv, Ledger
<1>3. entry[d].mxc \in Mxcs /\ entries[entry[d].mxc] = d
  BY <1>2 DEF Flags, Sound
<1>4. entry[d].mxc \notin Stale(m) /\ entry[d].mxc \in Live
  BY <1>1, <1>3 DEF Live, EntryIds, None
<1>5. entry[d].complete
  BY <1>3, <1>4 DEF Stale
<1>6. entry[d].mxc # m
  BY <1>2, <1>3, <1>4 DEF RequestDownload, Healthy, Live, Sound
<1> QED BY <1>1, <1>2, <1>3, <1>4, <1>5, <1>6

LEMMA DownloadLedger ==
  ASSUME Inv, NEW r \in Readers, NEW m \in Mxcs, RequestDownload(r, m)
  PROVE  Ledger'
<1> PICK c \in EntryIds : c = created' /\ c > created /\ ~(c > c) /\ \A e \in EntryIds : e > c => e > created
  BY NextEntry DEF RequestDownload, Inv, EntryIds
<1>1. /\ entry'[c].mxc = m /\ entry'[c].pc = "fetch" /\ ~entry'[c].error /\ ~entry'[c].cancel
      /\ ~entry'[c].complete /\ entry'[c].written = 0 /\ entry'[c].total = Size
      /\ entries'[m] = c
      /\ \A n \in Mxcs \ {m} : entries'[n] = IF n \in Stale(m) THEN None ELSE entries[n]
      /\ \A d \in EntryIds \ {c} :
           /\ (\E n \in Stale(m) : entries[n] = d) => entry'[d] = Cancelled(entry[d])
           /\ ~(\E n \in Stale(m) : entries[n] = d) => entry'[d] = entry[d]
  <2>1. LET n == NewEntry(m, "fetch", Size, FALSE)
        IN  /\ n.mxc = m /\ n.pc = "fetch" /\ ~n.error /\ ~n.cancel
            /\ ~n.complete /\ n.written = 0 /\ n.total = Size
    BY DEF NewEntry
  <2> QED BY <2>1, DownloadTables
<1>2. Flags(c)'
  BY <1>1 DEF Flags, Used, Sound, Running, Opening, Filling, Inv, Shape
<1>3. ASSUME NEW d \in EntryIds \ {c} PROVE Flags(d)'
  <2>1. Flags(d)
    BY DEF Inv, Ledger
  <2>2. Sound(d)' => entries'[entry'[d].mxc] = d
    <3>1. ASSUME Sound(d)' PROVE entries'[entry'[d].mxc] = d
      BY <1>1, <2>1, <3>1, DownloadSound DEF Flags, Sound
    <3> QED BY <3>1
  <2>3. CASE \E n \in Stale(m) : entries[n] = d
    <3>1. PICK n \in Stale(m) : entries[n] = d
      BY <2>3
    <3>2. Used(d) /\ ~(d > created) /\ ~(d > c)
      <4>1. n \in Mxcs
        BY DEF Stale, Live
      <4> QED BY <1>1, <3>1, <4>1, Numbered DEF Inv, Ledger, Listing, EntryIds, None
    <3>3. entry'[d] = Cancelled(entry[d])
      BY <1>1, <2>3
    <3>4. /\ entry'[d].mxc = entry[d].mxc /\ entry'[d].pc = entry[d].pc
          /\ entry'[d].total = entry[d].total /\ entry'[d].written = entry[d].written
          /\ entry'[d].complete = entry[d].complete
          /\ entry'[d].error = TRUE /\ entry'[d].cancel = TRUE
      BY <3>3, CancelledFields, Zenon DEF Inv
    <3> QED BY <2>1, <2>2, <3>2, <3>4 DEF Flags, Used, Sound, Running, Opening, Filling
  <2>4. CASE ~\E n \in Stale(m) : entries[n] = d
    BY <1>1, <2>1, <2>2, <2>4 DEF Flags, Used, Sound, Running, Opening, Filling
  <2> QED BY <2>3, <2>4
<1>4. ASSUME NEW n \in Mxcs PROVE Listing(n)'
  <2>1. CASE n = m
    BY <1>1, <2>1 DEF Listing, Used
  <2>2. CASE n # m /\ entries'[n] # None
    <3>1. entries'[n] = entries[n] /\ entries[n] \in EntryIds
      BY <1>1, <2>2 DEF Inv, Shape
    <3>2. entries[n] # c
      BY <1>1, <3>1, Numbered
    <3>3. entry'[entries[n]] \in {entry[entries[n]], Cancelled(entry[entries[n]])}
      BY <1>1, <3>1, <3>2
    <3>4. /\ entry'[entries[n]].mxc = entry[entries[n]].mxc
          /\ entry'[entries[n]].pc = entry[entries[n]].pc
      <4>1. ASSUME NEW k \in EntryIds, entry'[k] \in {entry[k], Cancelled(entry[k])}
            PROVE  entry'[k].mxc = entry[k].mxc /\ entry'[k].pc = entry[k].pc
        <5>1. /\ Cancelled(entry[k]).mxc = entry[k].mxc
              /\ Cancelled(entry[k]).pc = entry[k].pc
          BY CancelledFields, Zenon DEF Inv
        <5> QED BY <4>1, <5>1
      <4> QED BY <3>1, <3>3, <4>1
    <3> QED BY <2>2, <3>1, <3>4 DEF Listing, Used, Inv, Ledger
  <2> QED BY <2>1, <2>2 DEF Listing
<1>5. \A d \in EntryIds : Sound(d)' /\ Running(d)' => d = c
  <2>1. ASSUME NEW d \in EntryIds, Sound(d)', Running(d)', d # c PROVE FALSE
    <3>1. entry'[d] = entry[d] /\ entry[d].complete
      BY <2>1, DownloadSound
    <3>2. entry[d].pc = "end"
      BY <3>1 DEF Inv, Ledger, Flags
    <3> QED BY <2>1, <3>1, <3>2 DEF Running, Opening, Filling
  <2> QED BY <2>1
<1>6. Alone'
  BY <1>5 DEF Alone
<1> QED BY <1>2, <1>3, <1>4, <1>6 DEF Ledger

LEMMA ClearLedger ==
  ASSUME Inv, ClearCaches
  PROVE  /\ Ledger'
         /\ \A e \in EntryIds : ~Sound(e)' /\ entry'[e] \in {entry[e], Cancelled(entry[e])}
<1>1. /\ \A m \in Mxcs : entries'[m] = None
      /\ \A e \in EntryIds :
           /\ (\E m \in Live : entries[m] = e) => entry'[e] = Cancelled(entry[e])
           /\ ~(\E m \in Live : entries[m] = e) => entry'[e] = entry[e]
      /\ created' = created
  BY DEF ClearCaches
<1>2. ASSUME NEW e \in EntryIds PROVE ~Sound(e)'
  <2>1. CASE \E m \in Live : entries[m] = e
    BY <1>1, <2>1, CancelledFields DEF Sound, Inv
  <2>2. CASE ~\E m \in Live : entries[m] = e
    <3>1. ~Sound(e)
      BY <2>2 DEF Inv, Ledger, Flags, Sound, Live, EntryIds, None
    <3> QED BY <1>1, <2>2, <3>1 DEF Sound, Used
  <2> QED BY <2>1, <2>2
<1>3. ASSUME NEW e \in EntryIds PROVE Flags(e)'
  <2>1. Flags(e)
    BY DEF Inv, Ledger
  <2>2. CASE \E m \in Live : entries[m] = e
    <3>1. Used(e) /\ ~(e > created)
      BY <2>2, Numbered DEF Live, Inv, Ledger, Listing
    <3>2. entry'[e] = Cancelled(entry[e])
      BY <1>1, <2>2
    <3> QED BY <1>1, <1>2, <2>1, <3>1, <3>2, CancelledFields
            DEF Flags, Used, Sound, Running, Opening, Filling, Inv
  <2>3. CASE ~\E m \in Live : entries[m] = e
    BY <1>1, <1>2, <2>1, <2>3 DEF Flags, Used, Sound, Running, Opening, Filling
  <2> QED BY <2>2, <2>3
<1> QED BY <1>1, <1>2, <1>3 DEF Ledger, Listing, Alone

LEMMA RestartLedger ==
  ASSUME Inv, Restart
  PROVE  Ledger' /\ \A e \in EntryIds : entry'[e] = NoEntry /\ ~Used(e)'
<1>1. /\ \A m \in Mxcs : entries'[m] = None
      /\ \A e \in EntryIds : entry'[e] = NoEntry
  BY DEF Restart, NewServer
<1>2. /\ NoEntry.pc = "none" /\ NoEntry.error = FALSE /\ NoEntry.cancel = FALSE
      /\ NoEntry.complete = FALSE
      /\ NoEntry.inode = None /\ NoEntry.written = 0
  BY DEF NoEntry
<1> QED BY <1>1, <1>2 DEF Ledger, Flags, Listing, Alone, Used, Sound, Running, Opening, Filling

-----------------------------------------------------------------------------
(* What a step does to the other entries and media.                        *)

(* An entry that the step does not work on: cancelled at most, and if it   *)
(* is left sound, so is its file.                                          *)
Spared(d) ==
    /\ Used(d)' => /\ Used(d) /\ entry'[d].mxc = entry[d].mxc
                   /\ entry'[d].total = entry[d].total
    /\ Sound(d)' => entry'[d] = entry[d]
    /\ Sound(d)' /\ entry[d].mxc \notin undermined' =>
         LET m == entry[d].mxc IN
         /\ file'[m] = file[m]
         /\ done'[m] => done[m]
         /\ file[m] # None => content'[file[m]] = content[file[m]]

(* A media whose file stays or goes.                                       *)
SparedMedia(m) ==
    /\ file'[m] \in {None, file[m]}
    /\ done'[m] => done[m]
    /\ file[m] # None => content'[file[m]] = content[file[m]]

LEMMA SparedFiled ==
  ASSUME Inv, NEW d \in EntryIds, Spared(d), undermined \subseteq undermined'
  PROVE  /\ Used(d)' /\ entry'[d].mxc \notin undermined' => entry'[d].total = Size
         /\ Sound(d)' /\ entry'[d].mxc \notin undermined' => Filed(d)'
<1>1. Used(d)' /\ entry'[d].mxc \notin undermined' => entry'[d].total = Size
  BY DEF Inv, FilesRight, Spared
<1>2. ASSUME Sound(d)', entry'[d].mxc \notin undermined' PROVE Filed(d)'
  <2>1. entry'[d] = entry[d] /\ Sound(d) /\ entry[d].mxc \notin undermined
    BY <1>2 DEF Spared, Sound, Used
  <2>2. Filed(d)
    BY <2>1 DEF Inv, FilesRight
  <2>3. /\ file'[entry[d].mxc] = file[entry[d].mxc]
        /\ done'[entry[d].mxc] => done[entry[d].mxc]
        /\ file[entry[d].mxc] # None => content'[file[entry[d].mxc]] = content[file[entry[d].mxc]]
    BY <1>2, <2>1 DEF Spared
  <2> QED BY <2>1, <2>2, <2>3 DEF Filed, Opening, Filling
<1> QED BY <1>1, <1>2

LEMMA SparedWhole ==
  ASSUME Inv, NEW m \in Mxcs, SparedMedia(m), m \notin undermined
  PROVE  MarkedWhole(m)'
BY DEF Inv, FilesRight, MarkedWhole, SparedMedia

(* Files are made by OpenFile only.                                        *)
LEMMA QuietPaths ==
  ASSUME Inv,
         \A m \in Mxcs : file'[m] \in {file[m], None},
         \A d \in EntryIds : \/ entry'[d].inode = None
                             \/ /\ entry'[d].inode = entry[d].inode
                                /\ entry'[d].mxc = entry[d].mxc,
         \A d \in EntryIds : d > created' \/ Opening(d)' => d > created \/ Opening(d)
  PROVE  Paths'
<1>1. \A m, n \in Mxcs : file'[m] # None /\ file'[m] = file'[n] => m = n
  BY DEF Inv, Paths
<1>2. \A e \in EntryIds, m \in Mxcs :
         entry'[e].inode # None /\ file'[m] = entry'[e].inode => entry'[e].mxc = m
  BY DEF Inv, Paths
<1>3. ASSUME NEW e \in EntryIds, e > created' \/ Opening(e)' PROVE Unmade(e)'
  <2>1. Unmade(e) /\ e # None
    BY <1>3 DEF Inv, Paths, EntryIds, None
  <2> QED BY <2>1 DEF Unmade
<1> QED BY <1>1, <1>2, <1>3 DEF Paths

(* A response on another entry, or on one that goes on as before.          *)
LEMMA ServedStays ==
  ASSUME Inv, NEW r \in Readers, reader[r].entry # None, reader'[r] = reader[r],
         undermined \subseteq undermined',
         Used(reader[r].entry)',
         entry'[reader[r].entry].mxc = entry[reader[r].entry].mxc,
         Sound(reader[r].entry)' => Sound(reader[r].entry),
         ~Opening(reader[r].entry) => ~Opening(reader[r].entry)',
         Sound(reader[r].entry)' /\ ~Opening(reader[r].entry)
           /\ entry[reader[r].entry].mxc \notin undermined' =>
             file'[entry[reader[r].entry].mxc] = file[entry[reader[r].entry].mxc]
  PROVE  Served(r)'
<1> PICK e : e = reader[r].entry
  OBVIOUS
<1>1. Served(r) /\ reader'[r].entry = e
  BY DEF Inv, Replies
<1>2. /\ Used(e)' /\ entry'[e].mxc = entry[e].mxc
      /\ Sound(e)' => Sound(e)
      /\ ~Opening(e) => ~Opening(e)'
      /\ Sound(e)' /\ ~Opening(e) /\ entry[e].mxc \notin undermined' =>
           file'[entry[e].mxc] = file[entry[e].mxc]
  OBVIOUS
<1>3. ASSUME entry[e].mxc \notin undermined'
      PROVE  /\ ~reader'[r].garbage
             /\ reader'[r].pc = "ended" => reader'[r].offset = Size
             /\ Sound(e)' /\ reader'[r].inode # None =>
                  ~Opening(e)' /\ reader'[r].inode = file'[entry[e].mxc]
  <2>1. /\ ~reader[r].garbage
        /\ reader[r].pc = "ended" => reader[r].offset = Size
        /\ Sound(e) /\ reader[r].inode # None => ~Opening(e) /\ reader[r].inode = file[entry[e].mxc]
    BY <1>1, <1>3 DEF Served
  <2> QED BY <1>2, <1>3, <2>1
<1> QED BY <1>1, <1>2, <1>3 DEF Served

LEMMA RepliesStay ==
  ASSUME Inv, reader' = reader, undermined \subseteq undermined',
         \A e \in EntryIds : Used(e) =>
            /\ Used(e)' /\ entry'[e].mxc = entry[e].mxc
            /\ Sound(e)' => Sound(e)
            /\ ~Opening(e) => ~Opening(e)'
            /\ Sound(e)' /\ ~Opening(e) /\ entry[e].mxc \notin undermined' =>
                 file'[entry[e].mxc] = file[entry[e].mxc]
  PROVE  Replies'
<1>1. ASSUME NEW r \in Readers, reader[r].entry # None PROVE Served(r)'
  <2>1. reader[r].entry \in EntryIds
    BY <1>1 DEF Inv, Shape, ReaderStates
  <2>2. Used(reader[r].entry)
    BY <1>1 DEF Inv, Replies, Served
  <2> QED BY <1>1, <2>1, <2>2, ServedStays
<1> QED BY <1>1 DEF Inv, Replies

-----------------------------------------------------------------------------
(* Download tasks.                                                         *)

(* A task writes under no path but its media's.                            *)
LEMMA TaskElsewhere ==
  ASSUME Inv, NEW e \in EntryIds, TaskStep(e), NEW m \in Mxcs, m # entry[e].mxc
  PROVE  /\ file'[m] = file[m] /\ done'[m] = done[m]
         /\ file[m] # None => content'[file[m]] = content[file[m]]
<1>1. entry[e].mxc \in Mxcs /\ Shape
  BY TaskTyped DEF Inv
<1>2. CASE OpenFile(e)
  <2> DEFINE i == IF file[entry[e].mxc] = None THEN e ELSE file[entry[e].mxc]
  <2>1. file[m] # e
    BY <1>2 DEF OpenFile, Inv, Paths, Opening, Unmade
  <2>2. file[m] # None => file[m] # i
    BY <1>1, <2>1 DEF Inv, Paths
  <2>3. \/ file' = [file EXCEPT ![entry[e].mxc] = i] /\ content' = [content EXCEPT ![i] = {}]
        \/ UNCHANGED <<file, content>>
    BY <1>2 DEF OpenFile
  <2> HIDE DEF i
  <2>4. done' = done
    BY <1>2 DEF OpenFile
  <2>5. file[m] # None => file[m] \in EntryIds
    BY <1>1 DEF Shape
  <2> QED BY <1>1, <2>2, <2>3, <2>4, <2>5 DEF Shape
<1>3. CASE NextChunk(e)
  <2>1. file[m] # None => file[m] # entry[e].inode
    BY DEF Inv, Paths
  <2>2. content' = [content EXCEPT ![entry[e].inode] = @ \cup {entry[e].written + 1}]
        \/ content' = content
    BY <1>3 DEF NextChunk
  <2>3. file' = file /\ done' = done
    BY <1>3 DEF NextChunk
  <2> QED BY <1>1, <2>1, <2>2, <2>3 DEF Shape
<1>4. CASE FetchOpen(e) \/ Complete(e)
  BY <1>4 DEF FetchOpen, Complete
<1>5. CASE WriteMarker(e)
  BY <1>1, <1>5 DEF WriteMarker, Shape
<1> QED BY <1>2, <1>3, <1>4, <1>5 DEF TaskStep

(* A task that was cancelled only writes where that is recorded.           *)
LEMMA CancelledTask ==
  ASSUME Inv, NEW e \in EntryIds, TaskStep(e), entry[e].error, entry[e].mxc \notin undermined'
  PROVE  UNCHANGED <<file, done, content>>
<1>1. entry[e].cancel
  BY TaskTyped DEF Inv, Ledger, Flags
<1>2. CASE FetchOpen(e) \/ Complete(e)
  BY <1>2 DEF FetchOpen, Complete
<1>3. CASE OpenFile(e)
  BY <1>1, <1>3 DEF OpenFile
<1>4. CASE NextChunk(e)
  BY <1>1, <1>4 DEF NextChunk
<1>5. CASE WriteMarker(e)
  BY <1>1, <1>5 DEF WriteMarker
<1> QED BY <1>2, <1>3, <1>4, <1>5 DEF TaskStep

LEMMA TaskUndermines ==
  ASSUME NEW e \in EntryIds, TaskStep(e)
  PROVE  undermined \subseteq undermined'
BY DEF TaskStep, FetchOpen, OpenFile, NextChunk, WriteMarker, Complete

(* Any other sound entry of the same media would be the current one.       *)
LEMMA TaskSpares ==
  ASSUME Inv, NEW e \in EntryIds, TaskStep(e), NEW d \in EntryIds \ {e}
  PROVE  Spared(d)
<1>1. entry'[d] = entry[d]
  BY TaskChanges DEF TaskChange, Inv, Shape
<1>2. ASSUME Sound(d)', entry[d].mxc \notin undermined'
      PROVE  LET m == entry[d].mxc IN
             /\ file'[m] = file[m]
             /\ done'[m] => done[m]
             /\ file[m] # None => content'[file[m]] = content[file[m]]
  <2>1. Sound(d) /\ Flags(d) /\ Flags(e) /\ entry[d].mxc \in Mxcs
    BY <1>1, <1>2 DEF Sound, Used, Inv, Ledger, Flags
  <2>2. CASE entry[e].mxc # entry[d].mxc
    BY <2>1, <2>2, TaskElsewhere
  <2>3. CASE entry[e].mxc = entry[d].mxc
    <3>1. ~Sound(e)
      BY <2>1, <2>3 DEF Flags
    <3>2. entry[e].error
      BY <3>1, TaskTyped DEF Sound, Used, Running, Opening, Filling
    <3> QED BY <1>2, <2>3, <3>2, CancelledTask
  <2> QED BY <2>2, <2>3
<1> QED BY <1>1, <1>2 DEF Spared, Used

(* The one download that was not told to stop, in its own file.            *)
LEMMA OwnTask ==
  ASSUME Inv, NEW e \in EntryIds, TaskStep(e), ~entry[e].error,
         NEW m \in Mxcs \ undermined', m = entry[e].mxc
  PROVE  MarkedWhole(m)' /\ (Sound(e)' => Filed(e)')
<1>1. /\ Running(e) /\ m \in Mxcs /\ Shape /\ Flags(e) /\ ~entry[e].cancel
      /\ m \notin undermined /\ MarkedWhole(m)
  BY TaskTyped, TaskUndermines DEF Inv, Ledger, Flags, FilesRight
<1>2. Sound(e) /\ Filed(e)
  BY <1>1 DEF Inv, FilesRight, Sound, Used, Running, Opening, Filling
<1>3. TaskChange(e) /\ entry'[e].mxc = m
  BY TaskChanges DEF TaskChange
<1>4. CASE FetchOpen(e)
  <2>1. UNCHANGED <<file, done, content>> /\ Opening(e)
    BY <1>4 DEF FetchOpen, Opening
  <2>2. Sound(e)' => entry'[e].pc = "open"
    <3>1. TaskFails(e) => ~Sound(e)'
      BY DEF TaskFails, Sound, Inv, Shape, EntryStates
    <3>2. TaskGoto(e, "open") => entry'[e].pc = "open"
      BY <1>1 DEF TaskGoto, Shape, EntryStates
    <3> QED BY <1>4, <3>1, <3>2 DEF FetchOpen
  <2> QED BY <1>1, <1>2, <1>3, <2>1, <2>2 DEF Filed, MarkedWhole, Opening, Filling
<1>5. CASE OpenFile(e)
  <2>1. ~done[m] /\ done' = done /\ entry[e].written = 0 /\ entry[e] \in EntryStates
    BY <1>1, <1>2, <1>5 DEF OpenFile, Filed, Opening, Flags, Shape
  <2>2. ASSUME Sound(e)' PROVE Filed(e)'
    <3>1. ~TaskFails(e)
      BY <1>1, <2>1, <2>2 DEF TaskFails, Sound, Shape, EntryStates
    <3>2. PICK i : /\ i = IF file[m] = None THEN e ELSE file[m]
                   /\ file' = [file EXCEPT ![m] = i]
                   /\ content' = [content EXCEPT ![i] = {}]
                   /\ entry' = [entry EXCEPT ![e].pc = "body", ![e].inode = i]
      BY <1>5, <3>1 DEF OpenFile
    <3>3. i \in EntryIds /\ i # None
      BY <1>1, <3>2 DEF Shape, EntryIds, None
    <3>4. file'[m] = i /\ content'[i] = {}
      BY <1>1, <3>2, <3>3 DEF Shape
    <3>5. entry'[e].pc = "body" /\ entry'[e].inode = i /\ entry'[e].written = 0
      BY <1>1, <2>1, <3>2 DEF Shape, EntryStates
    <3>6. 1..0 = {}
      OBVIOUS
    <3> QED BY <1>3, <2>1, <3>3, <3>4, <3>5, <3>6 DEF Filed, Opening, Filling
  <2> QED BY <2>1, <2>2 DEF MarkedWhole
<1>6. CASE NextChunk(e)
  <2>1. /\ ~done[m] /\ done' = done /\ file' = file /\ entry[e] \in EntryStates
        /\ file[m] = entry[e].inode /\ file[m] \in EntryIds
        /\ content[file[m]] = 1..entry[e].written /\ entry[e].pc = "body"
    BY <1>1, <1>2, <1>6 DEF NextChunk, Filed, Opening, Filling, Shape
  <2>2. ASSUME Sound(e)' PROVE Filed(e)'
    <3>1. ~TaskFails(e)
      BY <1>1, <2>1, <2>2 DEF TaskFails, Sound, Shape, EntryStates
    <3>2. CASE /\ content' = [content EXCEPT ![entry[e].inode] = @ \cup {entry[e].written + 1}]
               /\ entry' = [entry EXCEPT ![e].written = WrittenAfterChunk(e)]
      <4>1. /\ entry'[e].written = entry[e].written + 1 /\ entry'[e].pc = "body"
            /\ entry'[e].inode = entry[e].inode
        BY <1>1, <2>1, <3>2 DEF Shape, EntryStates, WrittenAfterChunk
      <4>2. content'[file[m]] = 1..entry[e].written \cup {entry[e].written + 1}
        BY <1>1, <2>1, <3>2 DEF Shape
      <4>3. 1..entry[e].written \cup {entry[e].written + 1} = 1..entry[e].written + 1
        BY <2>1, SizeAssumption DEF EntryStates
      <4> QED BY <1>3, <2>1, <4>1, <4>2, <4>3 DEF Filed, Opening, Filling, EntryIds, None
    <3>3. CASE TaskGoto(e, "marker") /\ content' = content
      <4>1. /\ entry'[e].written = entry[e].written /\ entry'[e].pc = "marker"
            /\ entry'[e].inode = entry[e].inode
        BY <1>1, <2>1, <3>3 DEF Shape, EntryStates, TaskGoto
      <4> QED BY <1>3, <2>1, <3>3, <4>1 DEF Filed, Opening, Filling, EntryIds, None
    <3> QED BY <1>1, <1>6, <3>1, <3>2, <3>3 DEF NextChunk, BodyBreaks
  <2> QED BY <2>1, <2>2 DEF MarkedWhole
<1>7. CASE WriteMarker(e)
  <2>1. /\ file' = file /\ content' = content /\ entry[e] \in EntryStates
        /\ file[m] = entry[e].inode /\ file[m] # None
        /\ content[file[m]] = 1..entry[e].written /\ entry[e].written = Size
    BY <1>1, <1>2, <1>7 DEF WriteMarker, Filed, Opening, Filling, Shape, Flags
  <2>2. /\ entry'[e].written = entry[e].written /\ entry'[e].pc = "finish"
        /\ entry'[e].inode = entry[e].inode
    BY <1>1, <1>7, <2>1 DEF Shape, EntryStates, WriteMarker, TaskGoto
  <2> QED BY <1>3, <2>1, <2>2 DEF Filed, Opening, Filling, MarkedWhole, Whole
<1>8. CASE Complete(e)
  <2>1. /\ UNCHANGED <<file, done, content>> /\ entry[e] \in EntryStates
        /\ file[m] # None
        /\ content[file[m]] = 1..entry[e].written /\ entry[e].written = Size
    BY <1>1, <1>2, <1>8 DEF Complete, Filed, Opening, Filling, Shape, Flags
  <2>2. entry'[e].written = entry[e].written /\ entry'[e].pc = "end"
    BY <1>1, <1>8, <2>1 DEF Shape, EntryStates, Complete
  <2> QED BY <1>1, <1>3, <2>1, <2>2 DEF Filed, Opening, Filling, MarkedWhole
<1> QED BY <1>4, <1>5, <1>6, <1>7, <1>8 DEF TaskStep

LEMMA TaskFiles ==
  ASSUME Inv, NEW e \in EntryIds, TaskStep(e)
  PROVE  FilesRight'
<1>1. undermined \subseteq undermined' /\ TaskChange(e) /\ entry[e].mxc \in Mxcs /\ Running(e)
  BY TaskUndermines, TaskChanges, TaskTyped
<1>2. ASSUME NEW m \in Mxcs \ undermined' PROVE MarkedWhole(m)'
  <2>1. CASE m # entry[e].mxc
    BY <1>1, <1>2, <2>1, TaskElsewhere, SparedWhole DEF SparedMedia
  <2>2. CASE m = entry[e].mxc /\ entry[e].error
    <3>1. UNCHANGED <<file, done, content>>
      BY <2>2, CancelledTask
    <3> QED BY <1>1, <1>2, <3>1, SparedWhole DEF SparedMedia
  <2>3. CASE m = entry[e].mxc /\ ~entry[e].error
    BY <2>3, OwnTask
  <2> QED BY <2>1, <2>2, <2>3
<1>3. ASSUME NEW d \in EntryIds
      PROVE  /\ Used(d)' /\ entry'[d].mxc \notin undermined' => entry'[d].total = Size
             /\ Sound(d)' /\ entry'[d].mxc \notin undermined' => Filed(d)'
  <2>1. CASE d # e
    BY <1>1, <2>1, TaskSpares, SparedFiled
  <2>2. CASE d = e
    <3>1. entry'[d].total = Size
      BY <1>1, <2>2 DEF TaskChange, Inv, Ledger, Flags
    <3>2. Sound(d)' => ~entry[e].error
      BY <1>1, <2>2 DEF TaskChange, Sound
    <3> QED BY <1>1, <2>2, <3>1, <3>2, OwnTask DEF TaskChange
  <2> QED BY <2>1, <2>2
<1> QED BY <1>2, <1>3 DEF FilesRight

LEMMA TaskReplies ==
  ASSUME Inv, NEW e \in EntryIds, TaskStep(e)
  PROVE  Replies'
<1>1. undermined \subseteq undermined' /\ TaskChange(e) /\ reader' = reader
  BY TaskUndermines, TaskChanges DEF TaskChange
<1>2. ASSUME NEW d \in EntryIds, Used(d)
      PROVE  /\ Used(d)' /\ entry'[d].mxc = entry[d].mxc
             /\ Sound(d)' => Sound(d)
             /\ ~Opening(d) => ~Opening(d)'
             /\ Sound(d)' /\ ~Opening(d) /\ entry[d].mxc \notin undermined' =>
                  file'[entry[d].mxc] = file[entry[d].mxc]
  <2>1. CASE d # e
    <3>1. entry'[d] = entry[d]
      BY <1>1, <2>1 DEF TaskChange, Inv, Shape
    <3>2. Spared(d)
      BY <2>1, TaskSpares
    <3> QED BY <1>2, <3>1, <3>2 DEF Spared, Used, Sound, Opening
  <2>2. CASE d = e
    <3>1. ~Opening(e) => file' = file
      BY DEF TaskStep, FetchOpen, OpenFile, NextChunk, WriteMarker, Complete, Opening
    <3> QED BY <1>1, <1>2, <2>2, <3>1 DEF TaskChange, Sound
  <2> QED BY <2>1, <2>2
<1> QED BY <1>1, <1>2, RepliesStay

LEMMA TaskPaths ==
  ASSUME Inv, NEW e \in EntryIds, TaskStep(e)
  PROVE  Paths'
<1>1. /\ TaskChange(e) /\ entry[e].mxc \in Mxcs /\ Shape /\ Paths
      /\ \A d \in EntryIds \ {e} : entry'[d] = entry[d]
  BY TaskChanges, TaskTyped DEF TaskChange, Inv, Shape
<1>2. ASSUME file' = file, entry'[e].inode = entry[e].inode
      PROVE  Paths'
  <2>1. \A d \in EntryIds : entry'[d].inode = entry[d].inode /\ entry'[d].mxc = entry[d].mxc
    BY <1>1, <1>2 DEF TaskChange
  <2>2. \A d \in EntryIds : d > created' \/ Opening(d)' => d > created \/ Opening(d)
    BY <1>1 DEF TaskChange, Opening
  <2> QED BY <1>2, <2>1, <2>2, QuietPaths
<1>3. TaskFails(e) => entry'[e].inode = entry[e].inode
  BY <1>1 DEF TaskFails, Shape, EntryStates
<1>4. \A pc : TaskGoto(e, pc) => entry'[e].inode = entry[e].inode
  BY <1>1 DEF TaskGoto, Shape, EntryStates
<1>5. CASE FetchOpen(e) \/ WriteMarker(e)
  BY <1>2, <1>3, <1>4, <1>5 DEF FetchOpen, WriteMarker
<1>6. CASE Complete(e)
  <2>1. entry'[e].inode = entry[e].inode
    BY <1>1, <1>6 DEF Complete, Shape, EntryStates
  <2> QED BY <1>2, <1>6, <2>1 DEF Complete
<1>7. CASE NextChunk(e)
  <2>1. entry' = [entry EXCEPT ![e].written = WrittenAfterChunk(e)]
         => entry'[e].inode = entry[e].inode
    BY <1>1 DEF Shape, EntryStates
  <2>2. entry' = [entry EXCEPT ![e] = [Cancelled(entry[e]) EXCEPT !.pc = "end"]]
         => entry'[e].inode = entry[e].inode
    BY <1>1 DEF Shape, EntryStates, Cancelled
  <2> QED BY <1>2, <1>3, <1>4, <1>7, <2>1, <2>2 DEF NextChunk, BodyBreaks
<1>8. CASE OpenFile(e) /\ ~TaskFails(e)
  <2> PICK m : m = entry[e].mxc
    OBVIOUS
  <2>1. PICK i : /\ i = IF file[m] = None THEN e ELSE file[m]
                 /\ file' = [file EXCEPT ![m] = i]
                 /\ entry' = [entry EXCEPT ![e].pc = "body", ![e].inode = i]
    BY <1>8 DEF OpenFile
  <2>2. m \in Mxcs /\ Unmade(e) /\ i \in EntryIds /\ i # None
        /\ entry'[e].inode = i /\ entry'[e].mxc = m /\ entry'[e].pc = "body"
    BY <1>1, <1>8, <2>1 DEF OpenFile, Opening, Paths, Shape, EntryIds, None, EntryStates
  <2>3. file'[m] = i /\ \A n \in Mxcs \ {m} : file'[n] = file[n] /\ file[n] # i
    BY <1>1, <2>1, <2>2 DEF Shape, Unmade, Paths
  <2>4. \A a, b \in Mxcs : file'[a] # None /\ file'[a] = file'[b] => a = b
    BY <1>1, <2>3 DEF Paths
  <2>5. ASSUME NEW d \in EntryIds, NEW n \in Mxcs, entry'[d].inode # None, file'[n] = entry'[d].inode
        PROVE  entry'[d].mxc = n
    <3>1. CASE d = e
      BY <2>2, <2>3, <2>5, <3>1
    <3>2. CASE d # e /\ n # m
      BY <1>1, <2>3, <2>5, <3>2 DEF Paths
    <3>3. CASE d # e /\ n = m
      <4>1. entry[d].inode = i /\ i # e
        BY <1>1, <2>2, <2>3, <2>5, <3>3 DEF Unmade
      <4> QED BY <1>1, <2>1, <2>2, <3>3, <4>1 DEF Paths
    <3> QED BY <3>1, <3>2, <3>3
  <2>6. ASSUME NEW d \in EntryIds, d > created' \/ Opening(d)' PROVE Unmade(d)'
    <3>1. d # e
      BY <1>1, <2>2, <2>6, TaskChanges DEF TaskChange, Opening, Flags, Used, NoEntry
    <3>2. Unmade(d)
      BY <1>1, <2>6, <3>1 DEF Paths, TaskChange, Opening
    <3>3. i # d
      BY <2>1, <2>2, <3>1, <3>2 DEF Unmade
    <3> QED BY <1>1, <2>2, <2>3, <3>2, <3>3 DEF Unmade
  <2> QED BY <2>4, <2>5, <2>6 DEF Paths
<1>9. OpenFile(e) /\ TaskFails(e) => file' = file
  BY <1>1 DEF OpenFile, TaskFails, Shape, EntryStates
<1> QED BY <1>2, <1>3, <1>5, <1>6, <1>7, <1>8, <1>9 DEF TaskStep

-----------------------------------------------------------------------------
(* Requests, sweeps and chores.                                            *)

(* Readers and sweeps before their unlinks leave files and entries alone.  *)
LEMMA Idle ==
  ASSUME Inv, UNCHANGED <<file, done, content, entries, entry, created, undermined>>
  PROVE  Ledger' /\ Paths' /\ FilesRight'
<1>1. Ledger'
  BY DEF Inv, Ledger, Flags, Listing, Alone, Used, Sound, Running, Opening, Filling
<1>2. Paths'
  BY DEF Inv, Paths, Unmade, Opening
<1>3. FilesRight'
  BY DEF Inv, FilesRight, MarkedWhole, Filed, Used, Sound, Opening, Filling
<1> QED BY <1>1, <1>2, <1>3

(* A new response begins at the first byte.                                *)
LEMMA AttachServed ==
  ASSUME Inv, NEW r \in Readers, NEW e \in EntryIds, Attach(r, e), Used(e)'
  PROVE  /\ Served(r)' /\ reader'[r].entry # None
         /\ \A q \in Readers \ {r} : reader'[q] = reader[q]
<1>1. reader'[r] = [NoReader EXCEPT !.pc = "wait", !.entry = e]
      /\ \A q \in Readers \ {r} : reader'[q] = reader[q]
  BY DEF Attach, Inv, Shape
<1>2. /\ reader'[r].pc = "wait" /\ reader'[r].entry = e /\ reader'[r].inode = None
      /\ reader'[r].garbage = FALSE
  BY <1>1 DEF NoReader
<1> QED BY <1>1, <1>2 DEF Served, EntryIds, None

(* The other responses, when a request changes the tables.                 *)
LEMMA AttachReplies ==
  ASSUME Inv, NEW r \in Readers, NEW e \in EntryIds, Attach(r, e), Used(e)',
         undermined \subseteq undermined',
         \A d \in EntryIds : Used(d) =>
            /\ Used(d)' /\ entry'[d].mxc = entry[d].mxc
            /\ Sound(d)' => Sound(d)
            /\ ~Opening(d) => ~Opening(d)'
            /\ Sound(d)' /\ ~Opening(d) /\ entry[d].mxc \notin undermined' =>
                 file'[entry[d].mxc] = file[entry[d].mxc]
  PROVE  Replies'
<1>1. /\ Served(r)' /\ reader'[r].entry # None
      /\ \A q \in Readers \ {r} : reader'[q] = reader[q]
  BY AttachServed
<1>2. ASSUME NEW q \in Readers \ {r}, reader[q].entry # None PROVE Served(q)'
  <2>1. reader[q].entry \in EntryIds
    BY <1>2 DEF Inv, Shape, ReaderStates
  <2>2. Used(reader[q].entry)
    BY <1>2 DEF Inv, Replies, Served
  <2> QED BY <1>1, <1>2, <2>1, <2>2, ServedStays
<1> QED BY <1>1, <1>2 DEF Inv, Replies

LEMMA CurrentPreserves ==
  ASSUME Inv, NEW r \in Readers, NEW m \in Mxcs, RequestCurrent(r, m)
  PROVE  Ledger' /\ Paths' /\ FilesRight' /\ Replies'
<1>1. UNCHANGED <<file, done, content, entries, entry, created, undermined>>
  BY DEF RequestCurrent
<1>2. entries[m] \in EntryIds /\ Used(entries[m])
  BY DEF RequestCurrent, Healthy, Inv, Shape, Ledger, Listing
<1>3. Attach(r, entries[m])
  BY DEF RequestCurrent
<1>4. Replies'
  BY <1>1, <1>2, <1>3, AttachReplies DEF Used, Sound, Opening
<1> QED BY <1>1, <1>4, Idle

LEMMA ReusablePreserves ==
  ASSUME Inv, NEW r \in Readers, NEW m \in Mxcs, RequestReusable(r, m)
  PROVE  Paths' /\ FilesRight' /\ Replies'
<1> PICK c \in EntryIds : c = created' /\ c > created /\ \A e \in EntryIds : e > c => e > created
  BY NextEntry DEF RequestReusable, Inv
<1>1. UNCHANGED <<file, done, content, undermined>> /\ Attach(r, c) /\ done[m] /\ file[m] # None
  BY DEF RequestReusable, Reusable
<1>2. entry' = [entry EXCEPT ![c] = NewEntry(m, "end", LengthOf(file[m]), TRUE)]
  BY DEF RequestReusable
<1>3. /\ entry'[c].mxc = m /\ entry'[c].pc = "end" /\ entry'[c].inode = None
      /\ entry'[c].total = LengthOf(file[m]) /\ entry'[c].written = LengthOf(file[m])
      /\ \A d \in EntryIds \ {c} : entry'[d] = entry[d]
  BY <1>2 DEF Inv, Shape, NewEntry
<1>4. ~Used(c)
  BY Numbered
<1>5. Paths'
  <2>1. \A d \in EntryIds : \/ entry'[d].inode = None
                            \/ /\ entry'[d].inode = entry[d].inode
                               /\ entry'[d].mxc = entry[d].mxc
    BY <1>3
  <2>2. \A d \in EntryIds : d > created' \/ Opening(d)' => d > created \/ Opening(d)
    BY <1>3 DEF Opening
  <2> QED BY <1>1, <2>1, <2>2, QuietPaths
<1>6. \A n \in Mxcs \ undermined' : MarkedWhole(n)'
  BY <1>1, SparedWhole DEF SparedMedia
<1>7. ASSUME NEW d \in EntryIds
      PROVE  /\ Used(d)' /\ entry'[d].mxc \notin undermined' => entry'[d].total = Size
             /\ Sound(d)' /\ entry'[d].mxc \notin undermined' => Filed(d)'
  <2>1. CASE d # c
    <3>1. Spared(d)
      BY <1>1, <1>3, <2>1 DEF Spared, Used
    <3> QED BY <1>1, <3>1, SparedFiled
  <2>2. CASE d = c /\ m \notin undermined
    <3>1. content[file[m]] = Whole /\ file[m] \in EntryIds
      BY <1>1, <2>2 DEF Inv, FilesRight, MarkedWhole, Shape
    <3>2. LengthOf(file[m]) = Size
      BY <1>1, <3>1, LengthTyped DEF Inv, Shape
    <3> QED BY <1>1, <1>3, <2>2, <3>1, <3>2 DEF Filed, Opening, Filling, Whole
  <2> QED BY <1>1, <1>3, <2>1, <2>2
<1>8. FilesRight'
  BY <1>6, <1>7 DEF FilesRight
<1>9. Replies'
  <2>1. Used(c)'
    BY <1>3 DEF Used
  <2>2. \A d \in EntryIds : Used(d) => entry'[d] = entry[d]
    BY <1>3, <1>4
  <2> QED BY <1>1, <2>1, <2>2, AttachReplies DEF Used, Sound, Opening
<1> QED BY <1>5, <1>8, <1>9

LEMMA DownloadPreserves ==
  ASSUME Inv, NEW r \in Readers, NEW m \in Mxcs, RequestDownload(r, m)
  PROVE  Paths' /\ FilesRight' /\ Replies'
<1> PICK c \in EntryIds : c = created' /\ c > created /\ \A e \in EntryIds : e > c => e > created
  BY NextEntry DEF RequestDownload, Inv
<1>1. /\ entry'[c] = NewEntry(m, "fetch", Size, FALSE)
      /\ \A n \in Mxcs : file'[n] = IF n \in Stale(m) THEN None ELSE file[n]
      /\ \A d \in EntryIds \ {c} : entry'[d] \in {entry[d], Cancelled(entry[d])}
  BY DownloadTables
<1>2. /\ done' = done /\ content' = content /\ Attach(r, c)
      /\ undermined \subseteq undermined' /\ (done[m] => m \in undermined')
  BY DEF RequestDownload
<1>3. /\ entry'[c].mxc = m /\ entry'[c].pc = "fetch" /\ entry'[c].inode = None
      /\ entry'[c].total = Size
  BY <1>1 DEF NewEntry
<1>4. ASSUME NEW d \in EntryIds \ {c}
      PROVE  /\ entry'[d].mxc = entry[d].mxc /\ entry'[d].pc = entry[d].pc
             /\ entry'[d].inode = entry[d].inode /\ entry'[d].total = entry[d].total
  <2>1. /\ Cancelled(entry[d]).mxc = entry[d].mxc /\ Cancelled(entry[d]).pc = entry[d].pc
        /\ Cancelled(entry[d]).inode = entry[d].inode
        /\ Cancelled(entry[d]).total = entry[d].total
    BY CancelledFields, Zenon DEF Inv
  <2> QED BY <1>1, <2>1
<1>5. ~Used(c)
  BY Numbered
<1>6. Paths'
  <2>1. \A d \in EntryIds : \/ entry'[d].inode = None
                            \/ /\ entry'[d].inode = entry[d].inode
                               /\ entry'[d].mxc = entry[d].mxc
    BY <1>3, <1>4
  <2>2. \A d \in EntryIds : d > created' \/ Opening(d)' => d > created \/ Opening(d)
    BY <1>4 DEF Opening
  <2>3. \A n \in Mxcs : file'[n] \in {file[n], None}
    BY <1>1
  <2> QED BY <2>1, <2>2, <2>3, QuietPaths
<1>7. ASSUME NEW d \in EntryIds \ {c} PROVE Spared(d)
  <2>1. ASSUME Sound(d)'
        PROVE  entry'[d] = entry[d] /\ Sound(d) /\ file'[entry[d].mxc] = file[entry[d].mxc]
    BY <1>1, <2>1, DownloadSound
  <2> QED BY <1>2, <1>4, <2>1 DEF Spared, Used
<1>8. \A n \in Mxcs \ undermined' : MarkedWhole(n)'
  <2>1. \A n \in Mxcs : SparedMedia(n)
    BY <1>1, <1>2 DEF SparedMedia
  <2> QED BY <1>2, <2>1, SparedWhole
<1>9. ASSUME NEW d \in EntryIds
      PROVE  /\ Used(d)' /\ entry'[d].mxc \notin undermined' => entry'[d].total = Size
             /\ Sound(d)' /\ entry'[d].mxc \notin undermined' => Filed(d)'
  <2>1. CASE d # c
    BY <1>2, <1>7, <2>1, SparedFiled
  <2>2. CASE d = c
    BY <1>2, <1>3, <2>2 DEF Filed, Opening, Filling
  <2> QED BY <2>1, <2>2
<1>10. FilesRight'
  BY <1>8, <1>9 DEF FilesRight
<1>11. Replies'
  <2>1. Used(c)'
    BY <1>3 DEF Used
  <2>2. ASSUME NEW d \in EntryIds, Used(d)
        PROVE  /\ Used(d)' /\ entry'[d].mxc = entry[d].mxc
               /\ Sound(d)' => Sound(d)
               /\ ~Opening(d) => ~Opening(d)'
               /\ Sound(d)' /\ ~Opening(d) /\ entry[d].mxc \notin undermined' =>
                    file'[entry[d].mxc] = file[entry[d].mxc]
    <3>1. d \in EntryIds \ {c}
      BY <1>5, <2>2
    <3>2. Spared(d)
      BY <1>7, <3>1
    <3> QED BY <1>4, <2>2, <3>1, <3>2 DEF Spared, Used, Sound, Opening
  <2> QED BY <1>2, <2>1, <2>2, AttachReplies
<1> QED BY <1>6, <1>10, <1>11

(* A file that is unlinked under a live entry is recorded; others are the  *)
(* files of no sound entry.                                                *)
LEMMA UnlinkPreserves ==
  ASSUME Inv, NEW s \in Sweepers, Unlink(s)
  PROVE  Ledger' /\ Paths' /\ FilesRight' /\ Replies'
<1>1. UNCHANGED <<content, entries, entry, reader, created>>
  BY DEF Unlink
<1>2. PICK m \in Mxcs, kind \in {"data", "marker"} :
        /\ file' = IF kind = "data" THEN [file EXCEPT ![m] = None] ELSE file
        /\ done' = IF kind = "marker" THEN [done EXCEPT ![m] = FALSE] ELSE done
        /\ undermined' = IF kind = "data" /\ m \in Live THEN undermined \cup {m} ELSE undermined
  BY DEF Unlink
<1>3. \A n \in Mxcs : /\ file'[n] \in {None, file[n]} /\ (done'[n] => done[n])
                      /\ n # m => file'[n] = file[n]
  BY <1>2 DEF Inv, Shape
<1>4. undermined \subseteq undermined'
  BY <1>2
<1>5. Ledger'
  BY <1>1 DEF Inv, Ledger, Flags, Listing, Alone, Used, Sound, Running, Opening, Filling
<1>6. Paths'
  BY <1>1, <1>3, QuietPaths DEF Opening
<1>7. ASSUME NEW d \in EntryIds PROVE Spared(d)
  <2>1. ASSUME Sound(d), entry[d].mxc \notin undermined'
        PROVE  file'[entry[d].mxc] = file[entry[d].mxc] /\ entry[d].mxc \in Mxcs
    <3>1. entry[d].mxc \in Live /\ entry[d].mxc \in Mxcs
      BY <2>1 DEF Inv, Ledger, Flags, Sound, Live, EntryIds, None
    <3> QED BY <1>2, <1>3, <2>1, <3>1
  <2> QED BY <1>1, <1>3, <2>1 DEF Spared, Used, Sound
<1>8. \A n \in Mxcs \ undermined' : MarkedWhole(n)'
  <2>1. \A n \in Mxcs : SparedMedia(n)
    BY <1>1, <1>3 DEF SparedMedia
  <2> QED BY <1>4, <2>1, SparedWhole
<1>9. FilesRight'
  BY <1>4, <1>7, <1>8, SparedFiled DEF FilesRight
<1>10. Replies'
  BY <1>1, <1>4, <1>7, RepliesStay DEF Spared, Used, Sound, Opening
<1> QED BY <1>5, <1>6, <1>9, <1>10

LEMMA ClearPreserves ==
  ASSUME Inv, ClearCaches
  PROVE  Ledger' /\ Paths' /\ FilesRight' /\ Replies'
<1>1. UNCHANGED <<file, done, content, reader, created, undermined>>
  BY DEF ClearCaches
<1>2. Ledger' /\ \A e \in EntryIds : ~Sound(e)' /\ entry'[e] \in {entry[e], Cancelled(entry[e])}
  BY ClearLedger
<1>3. ASSUME NEW d \in EntryIds
      PROVE  /\ entry'[d].mxc = entry[d].mxc /\ entry'[d].pc = entry[d].pc
             /\ entry'[d].inode = entry[d].inode /\ entry'[d].total = entry[d].total
  <2>1. /\ Cancelled(entry[d]).mxc = entry[d].mxc /\ Cancelled(entry[d]).pc = entry[d].pc
        /\ Cancelled(entry[d]).inode = entry[d].inode
        /\ Cancelled(entry[d]).total = entry[d].total
    BY CancelledFields, Zenon DEF Inv
  <2> QED BY <1>2, <2>1
<1>4. Paths'
  BY <1>1, <1>3, QuietPaths DEF Opening
<1>5. \A d \in EntryIds : Spared(d)
  BY <1>1, <1>2, <1>3 DEF Spared, Used
<1>6. \A n \in Mxcs \ undermined' : MarkedWhole(n)'
  BY <1>1, SparedWhole DEF SparedMedia
<1>7. FilesRight'
  BY <1>1, <1>5, <1>6, SparedFiled DEF FilesRight
<1>8. Replies'
  BY <1>1, <1>2, <1>3, RepliesStay DEF Used, Opening
<1> QED BY <1>2, <1>4, <1>7, <1>8

LEMMA RestartPreserves ==
  ASSUME Inv, Restart
  PROVE  Ledger' /\ Paths' /\ FilesRight' /\ Replies'
<1>1. /\ UNCHANGED <<file, done, content, created, undermined>>
      /\ \A r \in Readers : reader'[r] = NoReader
  BY DEF Restart, NewServer
<1>2. Ledger' /\ \A e \in EntryIds : entry'[e] = NoEntry /\ ~Used(e)'
  BY RestartLedger
<1>3. \A e \in EntryIds : entry'[e].inode = None /\ ~Opening(e)' /\ ~Sound(e)'
  BY <1>2 DEF NoEntry, Opening, Sound
<1>4. Paths'
  BY <1>1, <1>3, QuietPaths
<1>5. FilesRight'
  <2>1. \A n \in Mxcs \ undermined' : MarkedWhole(n)'
    BY <1>1, SparedWhole DEF SparedMedia
  <2> QED BY <1>2, <1>3, <2>1 DEF FilesRight
<1>6. Replies'
  <2>1. NoReader.entry = None /\ NoReader.pc = "idle"
    BY DEF NoReader
  <2> QED BY <1>1, <2>1 DEF Replies
<1> QED BY <1>2, <1>4, <1>5, <1>6

-----------------------------------------------------------------------------
(* Responses.                                                              *)

LEMMA ReaderFrame ==
  ASSUME Inv, NEW r \in Readers, ReaderStep(r) \/ HangUp(r)
  PROVE  /\ UNCHANGED <<file, done, content, entries, entry, created, undermined>>
         /\ \A q \in Readers \ {r} : reader'[q] = reader[q]
<1>1. UNCHANGED <<file, done, content, entries, entry, created, undermined>>
  BY DEF ReaderStep, WaitTotal, ReadChunk, HangUp
<1>2. \A q \in Readers \ {r} : reader'[q] = reader[q]
  BY ReadChunkCases
     DEF ReaderStep, WaitTotal, HangUp, Reads, ReaderFails, ReaderGoto, Inv, Shape
<1> QED BY <1>1, <1>2

(* Who reads, reads what the entry has written.                            *)
LEMMA ReadsWhatIsThere ==
  ASSUME Inv, NEW r \in Readers, Reads(r), entry[reader[r].entry].mxc \notin undermined
  PROVE  /\ ~Opening(reader[r].entry)
         /\ Handle(r) = file[entry[reader[r].entry].mxc]
         /\ reader[r].offset + 1 \in content[Handle(r)]
<1> PICK e : e = reader[r].entry
  OBVIOUS
<1>1. e \in EntryIds /\ Served(r) /\ reader[r] \in ReaderStates /\ entry[e] \in EntryStates
      /\ entry[e].mxc \in Mxcs /\ Flags(e)
  BY ReaderEntry DEF Reads, Inv, Shape, Ledger
<1>2. Sound(e) /\ reader[r].offset < entry[e].written /\ reader[r].offset \in Nat
      /\ entry[e].written \in Nat
  BY <1>1, SizeAssumption DEF Served, Sound, Reads, ReaderStates, EntryStates
<1>3. ~Opening(e)
  BY <1>1, <1>2 DEF Flags
<1>4. Filed(e)
  BY <1>1, <1>2 DEF Inv, FilesRight
<1>5. content[file[entry[e].mxc]] = 1..entry[e].written
  BY <1>3, <1>4 DEF Filed
<1>6. Handle(r) = file[entry[e].mxc]
  BY <1>1, <1>2 DEF Handle, Served
<1>7. reader[r].offset + 1 \in 1..entry[e].written
  BY <1>2
<1> QED BY <1>3, <1>5, <1>6, <1>7

LEMMA ReaderReplies ==
  ASSUME Inv, NEW r \in Readers, ReaderStep(r) \/ HangUp(r)
  PROVE  Replies'
<1>1. /\ UNCHANGED <<file, done, content, entries, entry, created, undermined>>
      /\ \A q \in Readers \ {r} : reader'[q] = reader[q]
  BY ReaderFrame
<1>2. ASSUME NEW q \in Readers, reader'[q] = reader[q]
      PROVE  /\ reader'[q].entry # None => Served(q)'
             /\ reader'[q].entry = None => reader'[q].pc = "idle"
  BY <1>1, <1>2 DEF Inv, Replies, Served, Used, Sound, Opening
<1>3. ReaderFails(r) => reader'[r].entry = None /\ reader'[r].pc = "idle"
  BY DEF ReaderFails, NoReader, Inv, Shape
<1>4. reader[r] \in ReaderStates /\ reader[r].pc # "idle"
  BY DEF ReaderStep, WaitTotal, ReadChunk, HangUp, Inv, Shape
<1>5. reader[r].entry \in EntryIds /\ Served(r) /\ reader[r].entry # None
  BY <1>4, ReaderEntry DEF Inv, Replies
<1>6. CASE ReaderGoto(r, "read")
  <2>1. /\ reader'[r].entry = reader[r].entry /\ reader'[r].inode = reader[r].inode
        /\ reader'[r].garbage = reader[r].garbage /\ reader'[r].pc = "read"
    BY <1>4, <1>6 DEF ReaderGoto, Inv, Shape, ReaderStates
  <2>2. Served(r)'
    BY <1>1, <1>5, <2>1 DEF Served, Used, Sound, Opening
  <2> QED BY <1>1, <1>2, <1>5, <2>1, <2>2 DEF Replies
<1>7. CASE ReadChunk(r) /\ ~ReaderFails(r) /\ ~Reads(r)
  <2>1. /\ ReaderGoto(r, "ended")
        /\ \/ reader[r].offset >= entry[reader[r].entry].total
           \/ /\ ~entry[reader[r].entry].error /\ entry[reader[r].entry].complete
              /\ reader[r].offset >= entry[reader[r].entry].written
    BY <1>7, ReadChunkCases
  <2>2. /\ reader'[r].entry = reader[r].entry /\ reader'[r].inode = reader[r].inode
        /\ reader'[r].garbage = reader[r].garbage /\ reader'[r].offset = reader[r].offset
    BY <1>4, <2>1 DEF ReaderGoto, Inv, Shape, ReaderStates
  <2>3. entry[reader[r].entry].mxc \notin undermined => reader[r].offset = Size
    <3>1. reader[r].offset >= entry[reader[r].entry].total
      BY <1>5, <2>1 DEF Inv, Ledger, Flags
    <3>2. entry[reader[r].entry].mxc \notin undermined => entry[reader[r].entry].total = Size
      BY <1>5 DEF Served, Inv, FilesRight
    <3> QED BY <1>4, <3>1, <3>2, SizeAssumption DEF ReaderStates
  <2>4. Served(r)'
    BY <1>1, <1>5, <2>2, <2>3 DEF Served, Used, Sound, Opening
  <2> QED BY <1>1, <1>2, <1>5, <2>2, <2>4 DEF Replies
<1>8. CASE Reads(r)
  <2>1. /\ reader'[r].entry = reader[r].entry /\ reader'[r].inode = Handle(r)
        /\ reader'[r].garbage = (reader[r].garbage \/ reader[r].offset + 1 \notin content[Handle(r)])
        /\ reader'[r].pc = "read"
    <3>1. reader'[r] = [reader[r] EXCEPT !.offset = @ + 1, !.inode = Handle(r),
                 !.garbage = @ \/ reader[r].offset + 1 \notin content[Handle(r)]]
      BY <1>8, ReadsTyped
    <3>2. reader[r].pc = "read"
      BY <1>8 DEF Reads
    <3> QED BY <1>4, <3>1, <3>2 DEF ReaderStates
  <2>2. Served(r)'
    BY <1>1, <1>5, <1>8, <2>1, ReadsWhatIsThere DEF Served, Used, Sound, Opening
  <2> QED BY <1>1, <1>2, <1>5, <2>1, <2>2 DEF Replies
<1>9. CASE ReaderFails(r)
  BY <1>1, <1>2, <1>3, <1>9 DEF Replies
<1> QED BY <1>6, <1>7, <1>8, <1>9 DEF ReaderStep, WaitTotal, HangUp

-----------------------------------------------------------------------------
(* The invariant, and what it says.                                        *)

LEMMA InitInv == Init => Inv
<1> SUFFICES ASSUME Init PROVE Inv
  OBVIOUS
<1>1. /\ NoEntry.pc = "none" /\ NoEntry.error = FALSE /\ NoEntry.cancel = FALSE
      /\ NoEntry.complete = FALSE /\ NoEntry.inode = None /\ NoEntry.written = 0
      /\ NoReader.entry = None /\ NoReader.pc = "idle"
  BY DEF NoEntry, NoReader
<1>2. Shape
  BY ResourcesTyped, BoundsAssumption DEF Init, Shape
<1>3. \A e \in EntryIds : entry[e] = NoEntry /\ e # None
  BY DEF Init, EntryIds, None
<1>4. Ledger
  BY <1>1, <1>3 DEF Init, Ledger, Flags, Listing, Alone, Used, Sound, Running, Opening, Filling
<1>5. Paths
  BY <1>1, <1>3 DEF Init, Paths, Unmade
<1>6. FilesRight
  BY <1>1, <1>3 DEF Init, FilesRight, MarkedWhole, Used, Sound
<1>7. Replies
  BY <1>1 DEF Init, Replies
<1> QED BY <1>2, <1>4, <1>5, <1>6, <1>7 DEF Inv

LEMMA NextInv == Inv /\ [Next]_vars => Inv'
<1> SUFFICES ASSUME Inv, [Next]_vars PROVE Inv'
  OBVIOUS
<1>1. ASSUME NEW r \in Readers, Request(r) PROVE Inv'
  <2>1. Shape'
    BY <1>1, RequestTyped DEF Inv
  <2>2. PICK m \in Mxcs : RequestCurrent(r, m) \/ RequestReusable(r, m) \/ RequestDownload(r, m)
    BY <1>1 DEF Request
  <2> QED BY <2>1, <2>2, CurrentPreserves, ReusableLedger, ReusablePreserves,
             DownloadLedger, DownloadPreserves DEF Inv
<1>2. ASSUME NEW r \in Readers, ReaderStep(r) \/ HangUp(r) PROVE Inv'
  BY <1>2, ReaderTyped, ReaderFrame, Idle, ReaderReplies DEF Inv
<1>3. ASSUME NEW e \in EntryIds, TaskStep(e) PROVE Inv'
  BY <1>3, TaskTyped, TaskLedger, TaskPaths, TaskFiles, TaskReplies DEF Inv
<1>4. ASSUME UNCHANGED <<file, done, content, entries, entry, reader, created, undermined>>
      PROVE  Ledger' /\ Paths' /\ FilesRight' /\ Replies'
  BY <1>4, Idle, RepliesStay DEF Used, Sound, Opening
<1>5. ASSUME NEW s \in Sweepers, SweepStep(s) PROVE Inv'
  <2>1. Shape'
    BY <1>5, SweepTyped DEF Inv
  <2>2. CASE Unlink(s)
    BY <2>1, <2>2, UnlinkPreserves DEF Inv
  <2>3. CASE ~Unlink(s)
    BY <1>4, <1>5, <2>1, <2>3 DEF SweepStep, ReclaimScan, EvictScan, WipeScan, Inv
  <2> QED BY <2>2, <2>3
<1>6. CASE EnforceBudget
  BY <1>4, <1>6, ServerTyped DEF EnforceBudget, Inv
<1>7. CASE ClearCaches
  BY <1>7, ServerTyped, ClearPreserves DEF Inv
<1>8. CASE Restart
  BY <1>8, ServerTyped, RestartPreserves DEF Inv
<1>9. CASE UNCHANGED vars
  <2>1. Shape'
    BY <1>9 DEF vars, Inv, Shape
  <2> QED BY <1>4, <1>9, <2>1 DEF vars, Inv
<1> QED BY <1>1, <1>2, <1>3, <1>5, <1>6, <1>7, <1>8, <1>9 DEF Next

LEMMA Invariance == Spec => []Inv
BY InitInv, NextInv, PTL DEF Spec

(* Sizes, offsets and progress stay within the media, and every handle and *)
(* table entry names a file or an entry there is, for any number of media, *)
(* connections, entries, sweeps, chores and crashes.                       *)
THEOREM TypeCorrect == Spec => []TypeOK
<1>1. Inv => TypeOK
  BY ShapeTyped DEF Inv
<1> QED BY <1>1, Invariance, PTL

(* get_or_start() cancels every other download, in whatever order requests *)
(* for any number of media arrive, fail and are repeated: no two downloads *)
(* that were not told to stop run at a time.                               *)
THEOREM DownloadsAlternate == Spec => []OneLiveDownload
<1>1. Inv => OneLiveDownload
  <2> SUFFICES ASSUME Inv, NEW d \in EntryIds, NEW e \in EntryIds,
                      entry[d].pc \in TaskPcs \ {"none", "end"}, ~entry[d].cancel,
                      entry[e].pc \in TaskPcs \ {"none", "end"}, ~entry[e].cancel
               PROVE  d = e
    BY DEF OneLiveDownload
  <2>1. Running(d) /\ Used(d) /\ Running(e) /\ Used(e)
    BY DEF Running, Opening, Filling, Used, TaskPcs
  <2>2. ~entry[d].error /\ ~entry[e].error
    BY <2>1 DEF Inv, Ledger, Flags
  <2> QED BY <2>1, <2>2 DEF Inv, Ledger, Alone, Sound
<1> QED BY <1>1, Invariance, PTL

(* The ".done" marker of finish_file() stands beside whole files only, and *)
(* so a later start reuses nothing less, unless a cancelled download or a  *)
(* leftover marker got at the path.                                        *)
THEOREM MarkedFilesAreComplete == Spec => []OnlyStraysCorrupt
<1>1. Inv => OnlyStraysCorrupt
  BY DEF Inv, FilesRight, OnlyStraysCorrupt
<1> QED BY <1>1, Invariance, PTL

(* The file behind a complete entry is on disk while the entry is handed   *)
(* out, unless a sweep unlinked it under the entry or a stray got at it.   *)
THEOREM CompleteEntriesKeepFiles == Spec => []OnlySweepsUnback
<1>1. Inv => OnlySweepsUnback
  <2> SUFFICES ASSUME Inv, NEW m \in Mxcs \ undermined, Healthy(m), entry[entries[m]].complete
               PROVE  file[m] # None
    BY DEF OnlySweepsUnback, Backed
  <2>1. entries[m] \in EntryIds /\ Sound(entries[m]) /\ entry[entries[m]].mxc = m
        /\ entry[entries[m]].pc = "end"
    BY DEF Inv, Shape, Ledger, Listing, Flags, Healthy, Sound
  <2>2. Filed(entries[m])
    BY <2>1 DEF Inv, FilesRight
  <2> QED BY <2>1, <2>2 DEF Filed, Opening
<1> QED BY <1>1, Invariance, PTL

(* A response that ends without an error has sent the media from the first *)
(* byte to the last, whatever was cancelled, evicted, cleared or restarted *)
(* while EntryReader read it, as far as nobody undermined the path.        *)
THEOREM CleanEndsDeliver == Spec => []CleanEndIsWhole
<1>1. Inv => CleanEndIsWhole
  BY DEF Inv, Replies, Served, CleanEndIsWhole, Delivered
<1> QED BY <1>1, Invariance, PTL

=============================================================================
