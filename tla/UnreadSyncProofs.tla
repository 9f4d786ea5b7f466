-------------------------- MODULE UnreadSyncProofs --------------------------
(***************************************************************************)
(* TLAPS proofs of the safety properties of UnreadSync, for any number of  *)
(* messages and requests.                                                  *)
(***************************************************************************)
EXTENDS UnreadSync, TLAPS

(***************************************************************************)
(* The inductive invariant.                                                *)
(***************************************************************************)

\* The Rust side runs behind the server, and its room list behind itself.
Behind ==
  /\ server.upto <= server.last
  /\ rust.upto <= rust.last /\ rust.last <= server.last /\ rust.upto <= server.upto
  /\ cache.ts <= rust.last /\ \A r \in feeds.list \union {bridge} : r.ts <= rust.last

\* Whatever the device takes for a message, the Rust side has seen.
Seen ==
  /\ \A e \in {widget.shown, widget.emitted, widget.pending, widget.requested,
               widget.confirmed, store.till} : e <= rust.last
  /\ \A c \in calls : c.event <= rust.last

\* A pending read ends no later than the time that unmasks it.
Masked == store.till <= store.frontier

\* A slice in flight is that of the last sync: a newer one replaces it, and it is
\* dropped when the room closes.
SliceIsNew == \A v \in feeds.slice : v = rust /\ IsOpen

\* A list that is due, asked for or on its way.
Owed == feeds.due \/ feeds.asked \/ feeds.list # None

\* When no refresh is due, the list on its way is that of the Rust side.  When none is on
\* its way either, the bridge has that list, and the count came from it or from the SDK,
\* unless a late snapshot was the last.
Settled ==
  /\ ~feeds.due /\ ~feeds.asked => \A r \in feeds.list : r = cache
  /\ ~Owed => /\ bridge = cache
              /\ ~feeds.late => store.count \in {cache.count, Unread(rust)}

Inv == TypeOK /\ Behind /\ Seen /\ Masked /\ SliceIsNew /\ Settled

-----------------------------------------------------------------------------
(* The operators on the room.                                              *)

LEMMA MaxOfTwo ==
  ASSUME NEW a \in Int, NEW b \in Int
  PROVE  Max({a, b}) \in {a, b} /\ Max({a, b}) >= a /\ Max({a, b}) >= b
<1>1. \E x \in {a, b} : \A y \in {a, b} : x >= y
  <2>1. CASE a >= b
    BY <2>1
  <2>2. CASE ~(a >= b)
    BY <2>2
  <2> QED BY <2>1, <2>2
<1> QED BY <1>1 DEF Max

LEMMA MinOfTwo ==
  ASSUME NEW a \in Int, NEW b \in Int
  PROVE  Min({a, b}) \in {a, b} /\ Min({a, b}) <= a /\ Min({a, b}) <= b
<1>1. \E x \in {a, b} : \A y \in {a, b} : x =< y
  <2>1. CASE a <= b
    BY <2>1
  <2>2. CASE ~(a <= b)
    BY <2>2
  <2> QED BY <2>1, <2>2
<1> QED BY <1>1 DEF Min

LEMMA TimesAre ==
  /\ Times \subseteq Nat /\ Times \subseteq Int /\ 0 \in Times /\ MaxMsgs \in Nat
  /\ Requests \subseteq Nat /\ 0 \in Requests /\ MaxCalls \in Nat
  /\ \A i \in Int : 0 <= i /\ i <= MaxMsgs => i \in Times
  /\ \A t \in Times : 0 <= t /\ t <= MaxMsgs
  BY BoundsAssumption DEF Times, Requests

LEMMA MaxTimes ==
  ASSUME NEW a \in Times, NEW b \in Times
  PROVE  Max({a, b}) \in {a, b} /\ Max({a, b}) \in Times /\ Max({a, b}) >= a /\ Max({a, b}) >= b
  BY MaxOfTwo, TimesAre

\* What is shown is no more than the count, and nothing when the pending read ends at zero.
LEMMA EffectiveIs ==
  ASSUME NEW s \in Rooms
  PROVE  /\ Effective(s) \in Times /\ Effective(s) <= s.count
         /\ s.optim = 0 => Effective(s) = 0
<1>1. s.count \in Times /\ s.optim \in Times \union {-1}
  BY DEF Rooms
<1>2. ASSUME s.optim >= 0
      PROVE  /\ Min({s.optim, s.count}) \in Times /\ Min({s.optim, s.count}) <= s.count
             /\ s.optim = 0 => Min({s.optim, s.count}) = 0
  <2>1. s.optim # -1
    BY <1>2
  <2>2. s.optim \in Int /\ s.count \in Int /\ s.count >= 0 /\ s.optim \in Times
    BY <1>1, <2>1, TimesAre
  <2>3. Min({s.optim, s.count}) \in {s.optim, s.count} /\ Min({s.optim, s.count}) <= s.optim
        /\ Min({s.optim, s.count}) <= s.count
    BY <2>2, MinOfTwo
  <2> QED BY <1>1, <2>2, <2>3
<1>3. 0 \in Times /\ 0 <= s.count /\ s.count \in Int
  BY <1>1, TimesAre
<1> QED BY <1>1, <1>2, <1>3 DEF Effective

\* Forgetting and snapshots keep the frontier, and a read that they do not forget.
Milder(t, s) ==
  /\ t \in Rooms /\ t.frontier = s.frontier
  /\ \/ t.till = s.till /\ t.optim = s.optim
     \/ t.till = 0 /\ t.optim = -1

LEMMA Forgotten ==
  ASSUME NEW s \in Rooms
  PROVE  /\ Milder(ForgetMark(s), s) /\ ForgetMark(s).count = s.count
         /\ ForgetMark(s).till = s.till /\ ForgetMark(s).optim = s.optim
         /\ Milder(ForgetRead(s), s) /\ ForgetRead(s).count = s.count
         /\ ForgetRead(s).markRead = s.markRead
         /\ ForgetRead(ForgetMark(s)) = [s EXCEPT !.markRead = FALSE, !.explicit = 0, !.till = 0,
                                                  !.optim = -1, !.receipt = 0]
  BY TimesAre DEF Milder, ForgetMark, ForgetRead, Rooms

LEMMA ListSnapshotIs ==
  ASSUME NEW s \in Rooms, NEW r \in Summaries
  PROVE  /\ Milder(ListSnapshot(s, r), s) /\ ListSnapshot(s, r).count = r.count
         /\ r.count = 0 \/ r.ts > s.frontier => Effective(ListSnapshot(s, r)) = r.count
         /\ ~(r.count = 0 \/ r.ts > s.frontier) =>
              ListSnapshot(s, r).till = s.till /\ ListSnapshot(s, r).optim = s.optim
<1> DEFINE t == [s EXCEPT !.count = r.count, !.ts = r.ts]
           u == [t EXCEPT !.markRead = FALSE, !.explicit = 0, !.till = 0, !.optim = -1, !.receipt = 0]
<1>1. t \in Rooms /\ t.count = r.count /\ t.frontier = s.frontier /\ t.till = s.till /\ t.optim = s.optim
  BY DEF Rooms, Summaries
<1>2. u \in Rooms /\ u.count = r.count /\ u.frontier = s.frontier /\ u.till = 0 /\ u.optim = -1
      /\ u.markRead = FALSE
  BY <1>1, TimesAre DEF Rooms
<1>3. ForgetRead(ForgetMark(t)) = u
  BY <1>1, Forgotten
<1>4. ListSnapshot(s, r) = IF r.count = 0 \/ r.ts > s.frontier THEN u ELSE t
  BY <1>3 DEF ListSnapshot
<1>5. Effective(u) = r.count
  BY <1>2 DEF Effective
<1> QED BY <1>1, <1>2, <1>4, <1>5 DEF Milder

LEMMA UnreadSnapshotIs ==
  ASSUME NEW s \in Rooms, NEW n \in Times
  PROVE  /\ Milder(UnreadSnapshot(s, n), s) /\ UnreadSnapshot(s, n).count = n
         /\ n # 0 => UnreadSnapshot(s, n).till = s.till /\ UnreadSnapshot(s, n).optim = s.optim
<1> DEFINE t == [s EXCEPT !.count = n]
           u == [t EXCEPT !.markRead = FALSE, !.explicit = 0, !.till = 0, !.optim = -1, !.receipt = 0]
<1>1. t \in Rooms /\ t.count = n /\ t.frontier = s.frontier /\ t.till = s.till /\ t.optim = s.optim
  BY DEF Rooms
<1>2. u \in Rooms /\ u.count = n /\ u.frontier = s.frontier /\ u.till = 0 /\ u.optim = -1
  BY <1>1, TimesAre DEF Rooms
<1>3. ForgetRead(ForgetMark(t)) = u
  BY <1>1, Forgotten
<1>4. UnreadSnapshot(s, n) = IF t.markRead /\ n = 0 THEN u ELSE t
  BY <1>3 DEF UnreadSnapshot
<1> QED BY <1>1, <1>2, <1>4 DEF Milder

LEMMA TimelineSnapshotIs ==
  ASSUME NEW s \in Rooms, NEW n \in Times
  PROVE  /\ Milder(TimelineSnapshot(s, n), s) /\ TimelineSnapshot(s, n).count = n
         /\ s.optim = 0 /\ n # 0 =>
              TimelineSnapshot(s, n).till = s.till /\ TimelineSnapshot(s, n).optim = 0
<1> DEFINE t == UnreadSnapshot(s, n)
<1>1. /\ Milder(t, s) /\ t.count = n /\ t \in Rooms
      /\ n # 0 => t.till = s.till /\ t.optim = s.optim
  BY UnreadSnapshotIs DEF Milder
<1>2. Milder(ForgetRead(t), t) /\ ForgetRead(t).count = n
  BY <1>1, Forgotten
<1>3. TimelineSnapshot(s, n) = IF n <= t.optim THEN ForgetRead(t) ELSE t
  BY DEF TimelineSnapshot
<1>4. n # 0 => ~(n <= 0)
  BY TimesAre
<1> HIDE DEF t
<1>5. Milder(TimelineSnapshot(s, n), s)
  BY <1>1, <1>2, <1>3 DEF Milder
<1> QED BY <1>1, <1>2, <1>3, <1>4, <1>5

LEMMA ReadProgressIs ==
  ASSUME NEW s \in Rooms, NEW e \in Times, NEW n \in Times
  PROVE  /\ ReadProgress(s, e, n) \in Rooms /\ ReadProgress(s, e, n).count = s.count
         /\ ReadProgress(s, e, n).till = e /\ ReadProgress(s, e, n).optim = n
         /\ e <= ReadProgress(s, e, n).frontier
<1>1. Max({s.frontier, e}) \in Times /\ Max({s.frontier, e}) >= e
  BY MaxTimes DEF Rooms
<1>2. ReadProgress(s, e, n) = [s EXCEPT !.till = e, !.optim = n, !.receipt = 0,
                                        !.frontier = Max({s.frontier, e})]
  BY DEF ReadProgress
<1>3. e \in Int /\ Max({s.frontier, e}) \in Int
  BY <1>1, TimesAre
<1> QED BY <1>1, <1>2, <1>3, TimesAre DEF Rooms

\* Requests and their answers.
LEMMA RequestsKeep ==
  ASSUME NEW s \in Rooms, NEW id \in Requests, NEW e \in Times, NEW ok \in BOOLEAN
  PROVE  /\ BoundReceipt(s, e, id) \in Rooms /\ BoundReceipt(s, e, id).count = s.count
         /\ BoundReceipt(s, e, id).till = s.till /\ BoundReceipt(s, e, id).frontier = s.frontier
         /\ BoundReceipt(s, e, id).optim = s.optim
         /\ Milder(MarkAcked(s, id), s) /\ MarkAcked(s, id).count = s.count
         /\ MarkAcked(s, id).optim = s.optim
         /\ Milder(ReceiptAcked(s, e, id, ok), s) /\ ReceiptAcked(s, e, id, ok).count = s.count
         /\ ok => ReceiptAcked(s, e, id, ok).optim = s.optim
         /\ MarkedRead(s, id) \in Rooms /\ MarkedRead(s, id).till = 0
         /\ MarkedRead(s, id).markRead = TRUE /\ MarkedRead(s, id).count = s.count
         /\ MarkedRead(s, id).frontier \in Times
<1>1. /\ BoundReceipt(s, e, id) \in Rooms /\ BoundReceipt(s, e, id).count = s.count
      /\ BoundReceipt(s, e, id).till = s.till /\ BoundReceipt(s, e, id).frontier = s.frontier
      /\ BoundReceipt(s, e, id).optim = s.optim
  BY DEF BoundReceipt, Rooms
<1>2. /\ Milder(MarkAcked(s, id), s) /\ MarkAcked(s, id).count = s.count
      /\ MarkAcked(s, id).optim = s.optim
  BY Forgotten DEF MarkAcked, Milder
<1>3. /\ Milder(ReceiptAcked(s, e, id, ok), s) /\ ReceiptAcked(s, e, id, ok).count = s.count
      /\ ok => ReceiptAcked(s, e, id, ok).optim = s.optim
  <2>1. /\ [s EXCEPT !.receipt = 0] \in Rooms /\ Milder([s EXCEPT !.receipt = 0], s)
        /\ [s EXCEPT !.receipt = 0].count = s.count /\ [s EXCEPT !.receipt = 0].optim = s.optim
        /\ Milder(s, s)
    BY TimesAre DEF Rooms, Milder
  <2> QED BY <2>1, Forgotten DEF ReceiptAcked
<1>4. /\ MarkedRead(s, id) \in Rooms /\ MarkedRead(s, id).till = 0
      /\ MarkedRead(s, id).markRead = TRUE /\ MarkedRead(s, id).count = s.count
      /\ MarkedRead(s, id).frontier \in Times
  BY TimesAre DEF MarkedRead, ForgetRead, Rooms
<1> QED BY <1>1, <1>2, <1>3, <1>4

-----------------------------------------------------------------------------
(* The steps.                                                              *)

Widgets == [at : {"away", "up", "bottom"}, shown : Times, upto : Times,
            emitted : Times, pending : Times, requested : Times, confirmed : Times]
Feeds == [due : BOOLEAN, asked : BOOLEAN, list : InFlight(Summaries),
          unread : InFlight(Times), slice : InFlight(Views), late : BOOLEAN]

\* The step does not move the list, though it may ask for a refresh.
SameList == feeds'.asked = feeds.asked /\ feeds'.list = feeds.list /\ (feeds.due => feeds'.due)

\* A room and a screen that know of no message past the last one of v.
RoomBefore(s, v) == s \in Rooms /\ s.till <= v.last /\ s.till <= s.frontier
ScreenBefore(w, v) ==
  /\ w \in Widgets
  /\ \A e \in {w.shown, w.emitted, w.pending, w.requested, w.confirmed} : e <= v.last

LEMMA Typed ==
  /\ None \in InFlight(Times) /\ None \in InFlight(Views) /\ None = {}
  /\ \A t \in Times : {t} \in InFlight(Times)
  /\ \A v \in Views : {v} \in InFlight(Views) /\ v.last \in Times /\ v.upto \in Times
  /\ \A v \in Views : v.upto <= v.last => Unread(v) \in Times /\ Summary(v) \in Summaries
  /\ \A v \in Views : Summary(v).count = Unread(v) /\ Summary(v).ts = v.last
<1>1. /\ None \in InFlight(Times) /\ None \in InFlight(Views) /\ None = {}
      /\ \A t \in Times : {t} \in InFlight(Times)
      /\ \A v \in Views : {v} \in InFlight(Views) /\ v.last \in Times /\ v.upto \in Times
  BY DEF None, InFlight, Views
<1>2. ASSUME NEW v \in Views, v.upto <= v.last PROVE Unread(v) \in Times
  <2>1. v.last \in Times /\ v.upto \in Times
    BY <1>1
  <2>2. v.last \in Int /\ v.upto \in Int /\ 0 <= v.upto /\ v.last <= MaxMsgs /\ MaxMsgs \in Int
    BY <2>1, BoundsAssumption DEF Times
  <2>3. v.last - v.upto \in Int /\ 0 <= v.last - v.upto /\ v.last - v.upto <= MaxMsgs
    BY <1>2, <2>2
  <2> QED BY <2>3, TimesAre DEF Unread
<1>3. \A v \in Views : v.upto <= v.last => Summary(v) \in Summaries
  BY <1>1, <1>2 DEF Summary, Summaries
<1> QED BY <1>1, <1>2, <1>3 DEF Summary

LEMMA Facts ==
  ASSUME Inv
  PROVE  /\ server \in Views /\ rust \in Views /\ cache \in Summaries /\ bridge \in Summaries
         /\ RoomBefore(store, rust) /\ ScreenBefore(widget, rust) /\ feeds \in Feeds
         /\ made \in Requests /\ calls \subseteq Calls
         /\ \A c \in calls : c.id \in Requests /\ c.event \in Times /\ c.event <= rust.last
         /\ rust.last \in Times /\ rust.upto \in Times /\ server.last \in Times /\ server.upto \in Times
         /\ Unread(rust) \in Times /\ Unread(server) \in Times
         /\ \A v \in feeds.slice : v = rust /\ IsOpen
         /\ feeds.unread \subseteq Times /\ feeds.list \subseteq Summaries
<1>1. /\ server \in Views /\ rust \in Views /\ cache \in Summaries /\ bridge \in Summaries
      /\ store \in Rooms /\ widget \in Widgets /\ feeds \in Feeds
      /\ made \in Requests /\ calls \subseteq Calls
  BY DEF Inv, TypeOK, Widgets, Feeds
<1>2. RoomBefore(store, rust) /\ ScreenBefore(widget, rust)
  BY <1>1 DEF Inv, Seen, Masked, RoomBefore, ScreenBefore
<1>3. \A c \in calls : c.id \in Requests /\ c.event \in Times /\ c.event <= rust.last
  BY <1>1 DEF Calls, Inv, Seen
<1>4. /\ rust.last \in Times /\ rust.upto \in Times /\ server.last \in Times /\ server.upto \in Times
      /\ Unread(rust) \in Times /\ Unread(server) \in Times
  BY <1>1, Typed DEF Inv, Behind
<1>5. feeds.unread \subseteq Times /\ feeds.list \subseteq Summaries
  BY <1>1 DEF Feeds, InFlight, None
<1> QED BY <1>1, <1>2, <1>3, <1>4, <1>5 DEF Inv, SliceIsNew

\* What is left to show when the rest of the system is where it was, or further.
LEMMA Together ==
  ASSUME Inv, server' \in Views, rust' \in Views, cache' \in Summaries, bridge' \in Summaries,
         Behind', RoomBefore(store', rust'), ScreenBefore(widget', rust'), feeds' \in Feeds,
         made' \in Requests, calls' \subseteq Calls, \A c \in calls' : c.event <= rust'.last,
         SliceIsNew', Settled'
  PROVE  Inv'
<1>1. TypeOK'
  BY DEF TypeOK, RoomBefore, ScreenBefore, Widgets, Feeds
<1>2. Seen' /\ Masked'
  BY DEF RoomBefore, ScreenBefore, Seen, Masked
<1> QED BY <1>1, <1>2 DEF Inv

\* Where neither the server nor the Rust side nor the list moves.
LEMMA Locally ==
  ASSUME Inv, UNCHANGED <<server, rust, cache, bridge>>,
         RoomBefore(store', rust), ScreenBefore(widget', rust), feeds' \in Feeds,
         made' \in Requests, calls' \subseteq Calls, \A c \in calls' : c.event <= rust.last,
         \A v \in feeds'.slice : v = rust /\ widget'.at # "away",
         SameList, ~Owed' /\ ~feeds'.late => store'.count \in {cache.count, Unread(rust)}
  PROVE  Inv'
<1>1. server' \in Views /\ rust' \in Views /\ cache' \in Summaries /\ bridge' \in Summaries
  BY Facts
<1>2. Behind'
  BY DEF Inv, Behind, SameList
<1>3. SliceIsNew'
  BY DEF SliceIsNew, IsOpen
<1>4. Settled'
  BY DEF Inv, Settled, Unread, SameList, Owed
<1> QED BY <1>1, <1>2, <1>3, <1>4, Together

LEMMA MilderIsBefore ==
  ASSUME NEW v \in Views, NEW s, RoomBefore(s, v), NEW t, Milder(t, s)
  PROVE  RoomBefore(t, v)
<1>1. v.last \in Nat /\ s.frontier \in Nat
  BY TimesAre DEF Views, RoomBefore, Rooms
<1> QED BY <1>1 DEF RoomBefore, Milder

LEMMA ToldIs ==
  ASSUME NEW v \in Views, NEW w, ScreenBefore(w, v), NEW s, NEW t
  PROVE  /\ ScreenBefore(Told(w, s, t), v)
         /\ Told(w, s, t).at = w.at /\ Told(w, s, t).shown = w.shown
<1>1. [w EXCEPT !.pending = 0] \in Widgets /\ 0 <= v.last
  BY TimesAre DEF ScreenBefore, Widgets, Views
<1>2. ScreenBefore([w EXCEPT !.pending = 0], v)
  BY <1>1 DEF ScreenBefore, Widgets
<1> QED BY <1>1, <1>2 DEF Told, ScreenBefore, Widgets

\* A store update that is told to the open room.
LEMMA PutKeeps ==
  ASSUME Inv, UNCHANGED <<server, rust, cache, bridge>>, NEW s, Put(s), RoomBefore(s, rust),
         feeds' \in Feeds, made' \in Requests, calls' \subseteq Calls,
         \A c \in calls' : c.event <= rust.last, feeds'.slice \subseteq feeds.slice,
         SameList, ~Owed' /\ ~feeds'.late => s.count \in {cache.count, Unread(rust)}
  PROVE  Inv'
<1>1. store' = s /\ widget' = Told(widget, store, s)
  BY DEF Put
<1>2. ScreenBefore(widget', rust) /\ widget'.at = widget.at
  BY <1>1, Facts, ToldIs
<1>3. \A v \in feeds'.slice : v = rust /\ widget'.at # "away"
  BY <1>2, Facts DEF IsOpen
<1> QED BY <1>1, <1>2, <1>3, Locally

LEMMA Numbers ==
  ASSUME Inv
  PROVE  /\ server.last \in Nat /\ server.upto \in Nat /\ rust.last \in Nat /\ rust.upto \in Nat
         /\ cache.ts \in Nat /\ bridge.ts \in Nat /\ \A r \in feeds.list : r.ts \in Nat
         /\ server.upto <= server.last /\ rust.upto <= rust.last /\ rust.last <= server.last
         /\ rust.upto <= server.upto /\ cache.ts <= rust.last /\ bridge.ts <= rust.last
         /\ \A r \in feeds.list : r.ts <= rust.last
<1>1. cache.ts \in Times /\ bridge.ts \in Times /\ \A r \in feeds.list : r.ts \in Times
  BY Facts DEF Summaries
<1> QED BY <1>1, Facts, TimesAre DEF Inv, Behind

LEMMA ServerKeeps ==
  ASSUME Inv, Arrive \/ OtherReads
  PROVE  Inv'
<1>1. UNCHANGED <<rust, cache, bridge, store, widget, calls, made, feeds>>
  BY DEF Arrive, OtherReads
<1>2. /\ server' \in Views /\ server'.upto <= server'.last
      /\ server.last <= server'.last /\ server.upto <= server'.upto
  <2>1. CASE Arrive
    <3>1. server' = [server EXCEPT !.last = server.last + 1] /\ server.last < MaxMsgs
      BY <2>1 DEF Arrive
    <3>2. server.last \in Nat /\ server.upto \in Nat /\ server.upto <= server.last
          /\ server.last + 1 \in Times
      BY <3>1, Facts, BoundsAssumption DEF Times, Inv, Behind
    <3> QED BY <3>1, <3>2, Facts DEF Views
  <2>2. CASE OtherReads
    <3>1. PICK e \in (server.upto + 1)..server.last : server' = [server EXCEPT !.upto = e]
      BY <2>2 DEF OtherReads
    <3>2. server.last \in Nat /\ server.upto \in Nat /\ e \in Nat /\ e \in Times
          /\ server.upto <= e /\ e <= server.last
      BY <3>1, Facts, BoundsAssumption DEF Times
    <3> QED BY <3>1, <3>2, Facts DEF Views
  <2> QED BY <2>1, <2>2
<1>3. /\ server.last \in Nat /\ server.upto \in Nat /\ server'.last \in Nat /\ server'.upto \in Nat
      /\ rust.last \in Nat /\ rust.upto \in Nat
  BY <1>2, Facts, TimesAre DEF Views
<1>4. Behind'
  BY <1>1, <1>2, <1>3 DEF Inv, Behind
<1>5. SliceIsNew' /\ Settled'
  BY <1>1 DEF Inv, SliceIsNew, Settled, IsOpen, Unread, Owed
<1> QED BY <1>1, <1>2, <1>4, <1>5, Facts, Together

\* The feeds after a change that the Rust side announces.
LEMMA NotifiedIs ==
  ASSUME Inv, NEW v \in Views, v.upto <= v.last
  PROVE  /\ Notified(feeds, v) \in Feeds /\ Notified(feeds, v).due = TRUE
         /\ IsOpen => Notified(feeds, v).slice = {v}
         /\ ~IsOpen => Notified(feeds, v).slice = {}
         /\ Notified(feeds, v).unread \in {feeds.unread, {Unread(v)}}
         /\ Notified(feeds, v).asked = feeds.asked /\ Notified(feeds, v).list = feeds.list
<1>1. /\ feeds \in Feeds /\ {Unread(v)} \in InFlight(Times) /\ {v} \in InFlight(Views)
  BY Facts, Typed
<1>2. ~IsOpen => feeds.slice = {}
  BY Facts
<1> QED BY <1>1, <1>2 DEF Notified, Feeds

LEMMA SyncKeeps ==
  ASSUME Inv, Sync
  PROVE  Inv'
<1>1. /\ rust' = server /\ cache' = Summary(server) /\ feeds' = Notified(feeds, server)
      /\ UNCHANGED <<server, bridge, store, widget, calls, made>>
  BY DEF Sync
<1>2. /\ server \in Views /\ server.upto <= server.last
      /\ \A t \in Times : t <= rust.last => t <= server.last
  <2>1. \A t \in Nat : t <= rust.last => t <= server.last
    BY Numbers
  <2> QED BY <2>1, Facts, Numbers, TimesAre
<1>3. /\ cache' \in Summaries /\ cache'.ts = server.last
      /\ feeds' \in Feeds /\ feeds'.due /\ (IsOpen => feeds'.slice = {server})
      /\ (~IsOpen => feeds'.slice = {}) /\ feeds'.list = feeds.list
  BY <1>1, <1>2, Typed, NotifiedIs
<1>4. Behind'
  BY <1>1, <1>3, Numbers DEF Behind
<1>5. RoomBefore(store, server) /\ ScreenBefore(widget, server)
  BY <1>2, Facts DEF RoomBefore, ScreenBefore, Rooms, Widgets
<1>6. SliceIsNew' /\ Settled'
  BY <1>1, <1>3 DEF SliceIsNew, Settled, IsOpen, Owed
<1>7. \A c \in calls : c.event <= server.last
  BY <1>2, Facts
<1> QED BY <1>1, <1>2, <1>3, <1>4, <1>5, <1>6, <1>7, Facts, Together

LEMMA ListKeeps ==
  ASSUME Inv, ListChanged
  PROVE  Inv'
<1>1. Milder(ListSnapshot(store, bridge), store)
  BY Facts, ListSnapshotIs DEF RoomBefore
<1>2. RoomBefore(ListSnapshot(store, bridge), rust)
  BY <1>1, Facts, MilderIsBefore
<1>3. SameList /\ Owed'
  BY DEF ListChanged, SameList, Owed
<1> QED BY <1>2, <1>3, PutKeeps, Facts DEF ListChanged

LEMMA RefreshKeeps ==
  ASSUME Inv, Refresh
  PROVE  Inv'
<1> DEFINE s == ListSnapshot(store, bridge)
<1>1. /\ store' = s /\ widget' = Told(widget, store, s)
      /\ feeds' = [feeds EXCEPT !.due = FALSE, !.asked = TRUE]
      /\ UNCHANGED <<server, rust, cache, bridge, calls, made>>
  BY DEF Refresh, Put
<1>2. RoomBefore(s, rust)
  BY Facts, ListSnapshotIs, MilderIsBefore DEF RoomBefore
<1> HIDE DEF s
<1>3. ScreenBefore(widget', rust) /\ widget'.at = widget.at
  BY <1>1, Facts, ToldIs
<1>4. feeds' \in Feeds /\ feeds'.asked /\ feeds'.slice = feeds.slice /\ feeds'.list = feeds.list
  BY <1>1, Facts DEF Feeds
<1>5. Behind'
  BY <1>1, <1>4 DEF Inv, Behind
<1>6. SliceIsNew' /\ Settled'
  BY <1>1, <1>3, <1>4, Facts DEF SliceIsNew, Settled, IsOpen, Owed
<1> QED BY <1>1, <1>2, <1>3, <1>4, <1>5, <1>6, Facts, Together

LEMMA AnswerKeeps ==
  ASSUME Inv, AnswerList
  PROVE  Inv'
<1>1. /\ feeds' = [feeds EXCEPT !.asked = FALSE, !.list = {cache}]
      /\ UNCHANGED <<server, rust, cache, bridge, store, widget, calls, made>>
  BY DEF AnswerList
<1>2. {cache} \in InFlight(Summaries)
  BY Facts DEF InFlight
<1>3. feeds' \in Feeds /\ feeds'.slice = feeds.slice /\ feeds'.list = {cache}
  BY <1>1, <1>2, Facts DEF Feeds
<1>4. Behind'
  BY <1>1, <1>3 DEF Inv, Behind
<1>5. SliceIsNew' /\ Settled'
  BY <1>1, <1>3, Facts DEF SliceIsNew, Settled, IsOpen, Owed, None
<1> QED BY <1>1, <1>3, <1>4, <1>5, Facts, Together

LEMMA DeliverKeeps ==
  ASSUME Inv, DeliverList
  PROVE  Inv'
<1>1. PICK r \in feeds.list :
        /\ bridge' = r /\ store' = ListSnapshot(store, r)
        /\ widget' = Told(widget, store, ListSnapshot(store, r))
  BY DEF DeliverList, Put
<1>2. /\ feeds' = [feeds EXCEPT !.list = None, !.late = FALSE]
      /\ UNCHANGED <<server, rust, cache, calls, made>>
  BY DEF DeliverList
<1> DEFINE s == ListSnapshot(store, r)
<1>3. RoomBefore(s, rust) /\ s.count = r.count /\ r \in Summaries
  <2>1. Milder(s, store) /\ s.count = r.count /\ r \in Summaries
    BY <1>1, Facts, ListSnapshotIs DEF RoomBefore
  <2> QED BY <2>1, Facts, MilderIsBefore
<1> HIDE DEF s
<1>4. store' = s /\ ScreenBefore(widget', rust) /\ widget'.at = widget.at
  BY <1>1, Facts, ToldIs DEF s
<1>5. None \in InFlight(Summaries)
  BY DEF InFlight
<1>6. /\ feeds' \in Feeds /\ feeds'.slice = feeds.slice /\ feeds'.list = None
      /\ feeds'.due = feeds.due /\ feeds'.asked = feeds.asked
  BY <1>2, <1>5, Facts DEF Feeds
<1>7. Behind'
  BY <1>1, <1>2, <1>6 DEF Inv, Behind, None
<1>8. SliceIsNew' /\ Settled'
  BY <1>1, <1>2, <1>3, <1>4, <1>6, Facts DEF Inv, SliceIsNew, Settled, IsOpen, Owed, None
<1> QED BY <1>1, <1>2, <1>3, <1>4, <1>6, <1>7, <1>8, Facts, Together

LEMMA UnreadKeeps ==
  ASSUME Inv, DeliverUnread
  PROVE  Inv'
<1>1. PICK n \in feeds.unread :
        /\ Put(UnreadSnapshot(store, n))
        /\ feeds' = [feeds EXCEPT !.unread = None, !.late = n # Unread(rust)]
  BY DEF DeliverUnread
<1>2. n \in Times
  BY Facts
<1>3. Milder(UnreadSnapshot(store, n), store) /\ UnreadSnapshot(store, n).count = n
  BY <1>2, Facts, UnreadSnapshotIs DEF RoomBefore
<1>4. RoomBefore(UnreadSnapshot(store, n), rust)
  BY <1>3, Facts, MilderIsBefore
<1>5. feeds' \in Feeds /\ feeds'.due = feeds.due /\ feeds'.slice = feeds.slice
      /\ feeds'.late = (n # Unread(rust)) /\ SameList
  BY <1>1, Facts, Typed DEF Feeds, SameList
<1>6. UNCHANGED <<server, rust, cache, bridge, calls, made>>
  BY DEF DeliverUnread
<1> DEFINE s == UnreadSnapshot(store, n)
<1> HIDE DEF s
<1>7. Put(s) /\ RoomBefore(s, rust) /\ s.count = n
  BY <1>1, <1>3, <1>4 DEF s
<1> QED BY <1>5, <1>6, <1>7, Facts, PutKeeps

\* A request that is made is typed, and a new one.
LEMMA Requesting ==
  ASSUME Inv, NEW op \in {"read", "receipt"}, NEW e \in Times, e <= rust.last, Request(op, e)
  PROVE  /\ made' \in Requests /\ made + 1 \in Requests /\ calls' \subseteq Calls
         /\ \A c \in calls' : c.event <= rust.last
<1>1. /\ made < MaxCalls /\ made' = made + 1
      /\ calls' = calls \union {[id |-> made + 1, op |-> op, event |-> e, at |-> "sent"]}
  BY DEF Request
<1>2. made + 1 \in Requests
  BY <1>1, Facts, BoundsAssumption DEF Requests
<1>3. [id |-> made + 1, op |-> op, event |-> e, at |-> "sent"] \in Calls
  BY <1>2 DEF Calls
<1> QED BY <1>1, <1>2, <1>3, Facts

LEMMA Sending ==
  ASSUME Inv, NEW s, NEW w, NEW e \in Times, e <= rust.last,
         RoomBefore(s, rust), ScreenBefore(w, rust), SendReceipt(s, w, e)
  PROVE  /\ made' \in Requests /\ calls' \subseteq Calls
         /\ \A c \in calls' : c.event <= rust.last
         /\ RoomBefore(store', rust) /\ ScreenBefore(widget', rust)
         /\ widget'.at = w.at /\ store'.count = s.count /\ store'.optim = s.optim
<1>1. /\ Request("receipt", e) /\ store' = BoundReceipt(s, e, made + 1)
      /\ widget' = [w EXCEPT !.requested = e]
  BY DEF SendReceipt
<1>2. /\ made' \in Requests /\ made + 1 \in Requests /\ calls' \subseteq Calls
      /\ \A c \in calls' : c.event <= rust.last
  BY <1>1, Requesting
<1>3. /\ store' \in Rooms /\ store'.count = s.count /\ store'.till = s.till
      /\ store'.frontier = s.frontier /\ store'.optim = s.optim
  BY <1>1, <1>2, RequestsKeep DEF RoomBefore
<1>4. ScreenBefore(widget', rust) /\ widget'.at = w.at
  BY <1>1 DEF ScreenBefore, Widgets
<1> QED BY <1>2, <1>3, <1>4 DEF RoomBefore

\* applyLiveUnreadState, given a slice of the last sync.
LEMMA RemainingIs ==
  ASSUME NEW v \in Views, v.upto <= v.last, NEW s, RoomBefore(s, v)
  PROVE  /\ RoomBefore(Remaining(s, v), v) /\ Remaining(s, v).count = s.count
         /\ s.till = v.last => Remaining(s, v).optim \in {s.optim, 0}
         /\ Remaining(s, v).till = s.till
<1> DEFINE n == Max({0, v.last - s.till})
<1>1. /\ s \in Rooms /\ v.last \in Int /\ s.till \in Times /\ s.till \in Int /\ 0 <= s.till
      /\ v.last <= MaxMsgs /\ MaxMsgs \in Int /\ s.till <= v.last
  <2>1. s \in Rooms /\ s.till <= v.last /\ s.till \in Times /\ v.last \in Times
    BY DEF RoomBefore, Views, Rooms
  <2> QED BY <2>1, BoundsAssumption DEF Times
<1>2. n \in {0, v.last - s.till} /\ n \in Times
  <2>1. v.last - s.till \in Int /\ 0 <= v.last - s.till /\ v.last - s.till <= MaxMsgs
    BY <1>1
  <2>2. v.last - s.till \in Times
    BY <2>1, TimesAre
  <2> QED BY <2>1, <2>2, MaxOfTwo, TimesAre
<1>3. s.till = v.last => n = 0
  BY <1>1, <1>2
<1> HIDE DEF n
<1>4. /\ ReadProgress(s, s.till, n) \in Rooms /\ ReadProgress(s, s.till, n).count = s.count
      /\ ReadProgress(s, s.till, n).till = s.till /\ ReadProgress(s, s.till, n).optim = n
      /\ s.till <= ReadProgress(s, s.till, n).frontier
  BY <1>1, <1>2, ReadProgressIs
<1>5. Remaining(s, v) = s \/ Remaining(s, v) = ReadProgress(s, s.till, n)
  BY DEF Remaining, n
<1> QED BY <1>1, <1>3, <1>4, <1>5 DEF RoomBefore

LEMMA SliceKeeps ==
  ASSUME Inv, DeliverSlice
  PROVE  Inv'
<1>1. PICK v \in feeds.slice :
       LET s1 == TimelineSnapshot(store, Unread(v))
           s2 == Remaining(s1, v)
           w1 == Told(Told(widget, store, s1), s1, s2)
           w2 == [w1 EXCEPT !.pending = IF Unread(v) = 0 THEN 0 ELSE w1.pending,
                            !.shown = v.last, !.upto = v.upto]
       IN  IF widget.at = "bottom" /\ v.last # widget.shown /\ CanRequest(w2, v.last)
             THEN SendReceipt(ReadProgress(s2, v.last, 0),
                              [w2 EXCEPT !.pending = 0], v.last)
             ELSE store' = s2 /\ widget' = w2 /\ UNCHANGED <<calls, made>>
  BY DEF DeliverSlice
<1> DEFINE s1 == TimelineSnapshot(store, Unread(v))
           s2 == Remaining(s1, v)
           w0 == Told(widget, store, s1)
           w1 == Told(w0, s1, s2)
           w2 == [w1 EXCEPT !.pending = IF Unread(v) = 0 THEN 0 ELSE w1.pending,
                            !.shown = v.last, !.upto = v.upto]
           s3 == ReadProgress(s2, v.last, 0)
           w3 == [w2 EXCEPT !.pending = 0]
<1>2. v = rust /\ rust \in Views /\ Unread(rust) \in Times /\ rust.upto <= rust.last
      /\ rust.last \in Times /\ rust.last <= rust.last /\ 0 \in Times /\ 0 <= rust.last
  <2>1. rust.last <= rust.last /\ 0 <= rust.last /\ rust.upto <= rust.last
    BY Numbers
  <2> QED BY <1>1, <2>1, Facts, TimesAre
<1>3. RoomBefore(s1, rust) /\ s1.count = Unread(rust)
  <2>1. Milder(s1, store) /\ s1.count = Unread(rust)
    BY <1>2, Facts, TimelineSnapshotIs DEF RoomBefore
  <2> HIDE DEF s1
  <2> QED BY <2>1, Facts, MilderIsBefore
<1> HIDE DEF s1
<1>4. RoomBefore(s2, rust) /\ s2.count = Unread(rust)
  BY <1>2, <1>3, RemainingIs
<1> HIDE DEF s2
<1>5. ScreenBefore(w0, rust) /\ w0.at = widget.at
  BY Facts, ToldIs
<1> HIDE DEF w0
<1>6. ScreenBefore(w1, rust) /\ w1.at = widget.at
  BY <1>2, <1>5, ToldIs
<1> HIDE DEF w1
<1>7. ScreenBefore(w2, rust) /\ w2.at = widget.at
  BY <1>2, <1>6 DEF ScreenBefore, Widgets, Views
<1>8. ScreenBefore(w3, rust) /\ w3.at = widget.at
  <2> HIDE DEF w2
  <2> QED BY <1>2, <1>7 DEF ScreenBefore, Widgets
<1>9. RoomBefore(s3, rust) /\ s3.count = Unread(rust)
  <2>1. s2 \in Rooms /\ v.last \in Times /\ 0 \in Times /\ v.last = rust.last
    BY <1>2, <1>4 DEF RoomBefore
  <2>2. s3 \in Rooms /\ s3.count = s2.count /\ s3.till = v.last /\ v.last <= s3.frontier
    BY <2>1, ReadProgressIs
  <2> HIDE DEF s3
  <2> QED BY <1>2, <1>4, <2>1, <2>2 DEF RoomBefore
<1>10. \/ SendReceipt(s3, w3, rust.last)
       \/ store' = s2 /\ widget' = w2 /\ UNCHANGED <<calls, made>>
  BY <1>1, <1>2 DEF s1, s2, w0, w1
<1> HIDE DEF s3, w3, w2
<1>11. /\ made' \in Requests /\ calls' \subseteq Calls
       /\ \A c \in calls' : c.event <= rust.last
       /\ RoomBefore(store', rust) /\ ScreenBefore(widget', rust)
       /\ widget'.at = widget.at /\ store'.count = Unread(rust)
  <2>1. CASE SendReceipt(s3, w3, rust.last)
    BY <1>2, <1>8, <1>9, <2>1, Sending
  <2>2. CASE store' = s2 /\ widget' = w2 /\ UNCHANGED <<calls, made>>
    BY <1>4, <1>7, <2>2, Facts
  <2> QED BY <1>10, <2>1, <2>2
<1>12. UNCHANGED <<server, rust, cache, bridge>> /\ feeds' = [feeds EXCEPT !.slice = None, !.late = FALSE]
  BY DEF DeliverSlice
<1>13. feeds' \in Feeds /\ feeds'.slice = {} /\ feeds'.due = feeds.due /\ SameList
  BY <1>12, Facts, Typed DEF Feeds, SameList
<1> QED BY <1>11, <1>12, <1>13, Locally

LEMMA ScreenKeeps ==
  ASSUME Inv, OpenRoom \/ LeaveRoom \/ Scroll
  PROVE  Inv'
<1>1. UNCHANGED <<server, rust, cache, bridge, store, calls, made>>
  BY DEF OpenRoom, LeaveRoom, Scroll
<1>2. /\ ScreenBefore(widget', rust) /\ feeds' \in Feeds /\ feeds'.due = feeds.due
      /\ feeds'.late = feeds.late /\ SameList
      /\ \A v \in feeds'.slice : v = rust /\ widget'.at # "away"
  <2>1. ScreenBefore(Closed, rust) /\ ScreenBefore([Closed EXCEPT !.at = "up"], rust)
        /\ [Closed EXCEPT !.at = "up"].at = "up"
    BY Numbers, TimesAre DEF ScreenBefore, Closed, Widgets
  <2>2. feeds \in Feeds /\ ScreenBefore(widget, rust) /\ {rust} \in InFlight(Views)
        /\ None \in InFlight(Views) /\ \A v \in feeds.slice : v = rust /\ widget.at # "away"
    BY Facts, Typed DEF IsOpen
  <2>3. CASE OpenRoom
    BY <2>1, <2>2, <2>3 DEF OpenRoom, Feeds, SameList
  <2>4. CASE LeaveRoom
    BY <2>1, <2>2, <2>4 DEF LeaveRoom, Feeds, None, SameList
  <2>5. CASE Scroll
    <3>1. PICK where \in {"up", "bottom"} : widget' = [widget EXCEPT !.at = where]
      BY <2>5 DEF Scroll
    <3>2. ScreenBefore(widget', rust) /\ widget'.at # "away"
      BY <2>2, <3>1 DEF ScreenBefore, Widgets
    <3> QED BY <2>2, <2>5, <3>2 DEF Scroll, SameList
  <2> QED BY <2>3, <2>4, <2>5
<1>3. ~Owed /\ ~feeds.late => store.count \in {cache.count, Unread(rust)}
  BY DEF Inv, Settled
<1>4. ~Owed' /\ ~feeds'.late => store'.count \in {cache.count, Unread(rust)}
  BY <1>1, <1>2, <1>3 DEF Owed, SameList
<1> QED BY <1>1, <1>2, <1>4, Facts, Locally

LEMMA ReadKeeps ==
  ASSUME Inv, NEW e \in Times, ReadTo(e)
  PROVE  Inv'
<1> DEFINE n == Max({0, Effective(store) - (e - FirstUnread + 1)})
           w == [widget EXCEPT !.emitted = e]
<1>1. /\ e \in FirstUnread..widget.shown /\ Effective(store) > 0
      /\ store' = ReadProgress(store, e, n)
      /\ widget' = IF CanRequest(w, e) THEN [w EXCEPT !.pending = e] ELSE w
      /\ UNCHANGED <<server, rust, cache, bridge, calls, made, feeds>>
  BY DEF ReadTo
<1>2. FirstUnread \in Nat
  <2>1. Max({store.till, widget.upto}) \in Times
    BY Facts, MaxTimes DEF RoomBefore, Rooms, ScreenBefore, Widgets
  <2>2. Max({store.till, widget.upto}) \in Nat
    BY <2>1, TimesAre
  <2> QED BY <2>2 DEF FirstUnread
<1>3. /\ e \in Nat /\ widget.shown \in Nat /\ FirstUnread <= e /\ e <= widget.shown
      /\ widget.shown <= rust.last
  <2>1. widget.shown \in Times /\ widget.shown <= rust.last
    BY Facts DEF ScreenBefore, Widgets
  <2> QED BY <1>1, <1>2, <2>1, TimesAre
<1>4. e <= rust.last
  BY <1>3, Numbers
<1>5. n \in Times
  <2>1. Effective(store) \in Times
    BY Facts, EffectiveIs DEF RoomBefore
  <2>2. Effective(store) \in Int /\ Effective(store) <= MaxMsgs /\ MaxMsgs \in Int
    BY <2>1, BoundsAssumption DEF Times
  <2> DEFINE k == Effective(store) - (e - FirstUnread + 1)
  <2>3. k \in Int /\ k <= MaxMsgs
    BY <1>2, <1>3, <2>2
  <2> HIDE DEF k
  <2>4. Max({0, k}) \in {0, k} /\ Max({0, k}) >= 0
    BY <2>3, MaxOfTwo
  <2>5. Max({0, k}) \in Int /\ 0 <= Max({0, k}) /\ Max({0, k}) <= MaxMsgs
    BY <2>2, <2>3, <2>4, BoundsAssumption
  <2> QED BY <2>5, TimesAre DEF k
<1> HIDE DEF n
<1>6. RoomBefore(store', rust) /\ store'.count = store.count
  <2>1. store \in Rooms
    BY Facts DEF RoomBefore
  <2>2. /\ store' \in Rooms /\ store'.count = store.count /\ store'.till = e /\ e <= store'.frontier
    BY <1>1, <1>5, <2>1, ReadProgressIs
  <2> QED BY <1>4, <2>2 DEF RoomBefore
<1>7. ScreenBefore(w, rust) /\ w.at = widget.at
  BY <1>4, Facts DEF ScreenBefore, Widgets
<1> HIDE DEF w
<1>8. ScreenBefore([w EXCEPT !.pending = e], rust) /\ [w EXCEPT !.pending = e].at = w.at
  BY <1>4, <1>7 DEF ScreenBefore, Widgets
<1>9. ScreenBefore(widget', rust) /\ widget'.at = widget.at
  BY <1>1, <1>7, <1>8
<1>10. /\ feeds' \in Feeds /\ made' \in Requests /\ calls' \subseteq Calls
       /\ (\A c \in calls' : c.event <= rust.last)
       /\ (\A v \in feeds'.slice : v = rust /\ widget'.at # "away")
  BY <1>1, <1>9, Facts DEF IsOpen
<1>11. SameList /\ (~Owed' /\ ~feeds'.late => store'.count \in {cache.count, Unread(rust)})
  BY <1>1, <1>6 DEF Inv, Settled, SameList, Owed
<1> QED BY <1>1, <1>6, <1>9, <1>10, <1>11, Locally

LEMMA TimerKeeps ==
  ASSUME Inv, ReceiptTimer
  PROVE  Inv'
<1>1. /\ SendReceipt(store, widget, widget.pending)
      /\ UNCHANGED <<server, rust, cache, bridge, feeds>>
  BY DEF ReceiptTimer
<1>2. widget.pending \in Times /\ widget.pending <= rust.last
  BY Facts DEF ScreenBefore, Widgets
<1>3. /\ made' \in Requests /\ calls' \subseteq Calls
      /\ \A c \in calls' : c.event <= rust.last
      /\ RoomBefore(store', rust) /\ ScreenBefore(widget', rust)
      /\ widget'.at = widget.at /\ store'.count = store.count
  BY <1>1, <1>2, Facts, Sending
<1>4. SameList /\ (~Owed' /\ ~feeds'.late => store'.count \in {cache.count, Unread(rust)})
  BY <1>1, <1>3 DEF Inv, Settled, SameList, Owed
<1>5. feeds' \in Feeds /\ \A v \in feeds'.slice : v = rust /\ widget'.at # "away"
  BY <1>1, <1>3, Facts DEF IsOpen
<1> QED BY <1>1, <1>3, <1>4, <1>5, Locally

LEMMA MarkKeeps ==
  ASSUME Inv, MarkRead \/ MarkReadQuietly
  PROVE  Inv'
<1>1. /\ Request("read", 0) /\ UNCHANGED <<server, rust, cache, bridge, feeds>>
  BY DEF MarkRead, MarkReadQuietly
<1>2. /\ made' \in Requests /\ made + 1 \in Requests /\ calls' \subseteq Calls
      /\ \A c \in calls' : c.event <= rust.last
  BY <1>1, Numbers, TimesAre, Requesting
<1>3. ~Owed /\ ~feeds.late => store.count \in {cache.count, Unread(rust)}
  BY DEF Inv, Settled
<1>4. feeds' \in Feeds /\ feeds' = feeds /\ SameList /\ Owed' = Owed
  BY <1>1, Facts DEF SameList, Owed
<1>5. CASE MarkRead
  <2> DEFINE s == MarkedRead(store, made + 1)
  <2>1. Put(s)
    BY <1>5 DEF MarkRead
  <2>2. /\ s \in Rooms /\ s.till = 0 /\ s.count = store.count /\ s.frontier \in Times
    BY <1>2, Facts, TimesAre, RequestsKeep DEF RoomBefore
  <2> HIDE DEF s
  <2>3. RoomBefore(s, rust)
    <3>1. s.frontier \in Nat
      BY <2>2, TimesAre
    <3>2. rust.last \in Nat
      BY Numbers
    <3> QED BY <2>2, <3>1, <3>2 DEF RoomBefore
  <2> QED BY <1>1, <1>2, <1>3, <1>4, <2>1, <2>2, <2>3, PutKeeps
<1>6. CASE MarkReadQuietly
  <2>1. store' = store /\ widget' = widget
    BY <1>6 DEF MarkReadQuietly
  <2>2. \A v \in feeds'.slice : v = rust /\ widget'.at # "away"
    BY <1>4, <2>1, Facts DEF IsOpen
  <2> QED BY <1>1, <1>2, <1>3, <1>4, <2>1, <2>2, Facts, Locally
<1> QED BY <1>5, <1>6

LEMMA Becoming ==
  ASSUME Inv, NEW c \in calls, NEW at \in {"sent", "half", "ok", "failed"}, Becomes(c, at)
  PROVE  calls' \subseteq Calls /\ \A d \in calls' : d.event <= rust.last
<1>1. c \in Calls /\ c.event <= rust.last
  BY Facts
<1>2. [c EXCEPT !.at = at] \in Calls /\ [c EXCEPT !.at = at].event = c.event
  BY <1>1 DEF Calls
<1> QED BY <1>1, <1>2, Facts DEF Becomes

LEMMA OnServerKeeps ==
  ASSUME Inv, NEW c \in calls, MarkOnServer(c) \/ ReceiptOnServer(c)
  PROVE  Inv'
<1>1. UNCHANGED <<made, rust, cache, bridge, store, widget>>
  BY DEF MarkOnServer, ReceiptOnServer
<1>2. calls' \subseteq Calls /\ \A d \in calls' : d.event <= rust.last
  BY Becoming DEF MarkOnServer, ReceiptOnServer
<1>3. PICK e \in Times : e <= rust.last /\ server' = [server EXCEPT !.upto = Max({server.upto, e})]
  <2>1. CASE MarkOnServer(c)
    <3>1. rust.last \in Times /\ rust.last <= rust.last
      BY Facts, Numbers
    <3> QED BY <2>1, <3>1 DEF MarkOnServer
  <2>2. CASE ReceiptOnServer(c)
    <3>1. c.event \in Times /\ c.event <= rust.last
      BY Facts
    <3> QED BY <2>2, <3>1 DEF ReceiptOnServer
  <2> QED BY <2>1, <2>2
<1>4. /\ Max({server.upto, e}) \in {server.upto, e} /\ Max({server.upto, e}) \in Times
      /\ Max({server.upto, e}) >= server.upto
  BY Facts, MaxTimes
<1>5. e \in Nat
  BY TimesAre
<1>6. /\ server' \in Views /\ server'.last = server.last /\ server'.upto <= server.last
      /\ server.upto <= server'.upto /\ server'.upto \in Nat
  BY <1>3, <1>4, <1>5, Facts, Numbers DEF Views
<1>7. Behind'
  <2>1. feeds'.list = feeds.list
    BY Facts, Numbers, NotifiedIs DEF MarkOnServer, ReceiptOnServer
  <2> QED BY <1>1, <1>6, <2>1, Numbers DEF Behind
<1>8. /\ feeds' \in Feeds /\ SliceIsNew' /\ Settled'
  <2>1. CASE feeds' = feeds
    BY <1>1, <2>1, Facts DEF Inv, SliceIsNew, Settled, IsOpen, Unread, Owed
  <2>2. CASE feeds' = Notified(feeds, rust)
    <3>1. /\ feeds' \in Feeds /\ feeds'.due = TRUE /\ (IsOpen => feeds'.slice = {rust})
          /\ (~IsOpen => feeds'.slice = {})
      BY <2>2, Facts, Numbers, NotifiedIs
    <3> QED BY <1>1, <3>1 DEF SliceIsNew, Settled, IsOpen, Owed
  <2> QED BY <2>1, <2>2 DEF MarkOnServer, ReceiptOnServer
<1> QED BY <1>1, <1>2, <1>6, <1>7, <1>8, Facts, Together

LEMMA InCacheKeeps ==
  ASSUME Inv, NEW c \in calls, MarkInCache(c)
  PROVE  Inv'
<1>1. /\ cache' = [cache EXCEPT !.count = 0] /\ feeds' = Notified(feeds, rust) /\ Becomes(c, "ok")
      /\ UNCHANGED <<made, server, rust, bridge, store, widget>>
  BY DEF MarkInCache
<1>2. calls' \subseteq Calls /\ \A d \in calls' : d.event <= rust.last
  BY <1>1, Becoming
<1>3. cache' \in Summaries /\ cache'.ts = cache.ts
  BY <1>1, Facts, TimesAre DEF Summaries
<1>4. /\ feeds' \in Feeds /\ feeds'.due = TRUE /\ (IsOpen => feeds'.slice = {rust})
      /\ (~IsOpen => feeds'.slice = {}) /\ feeds'.list = feeds.list
  BY <1>1, Facts, Numbers, NotifiedIs
<1>5. Behind'
  BY <1>1, <1>3, <1>4 DEF Inv, Behind
<1>6. SliceIsNew' /\ Settled'
  BY <1>1, <1>4 DEF SliceIsNew, Settled, IsOpen, Owed
<1> QED BY <1>1, <1>2, <1>3, <1>4, <1>5, <1>6, Facts, Together

LEMMA FailKeeps ==
  ASSUME Inv, NEW c \in calls, Fail(c)
  PROVE  Inv'
<1>1. /\ Becomes(c, "failed")
      /\ UNCHANGED <<made, server, rust, cache, bridge, store, widget, feeds>>
  BY DEF Fail
<1>2. calls' \subseteq Calls /\ \A d \in calls' : d.event <= rust.last
  BY <1>1, Becoming
<1>3. SameList /\ (~Owed' /\ ~feeds'.late => store'.count \in {cache.count, Unread(rust)})
  BY <1>1 DEF Inv, Settled, SameList, Owed
<1>4. \A v \in feeds'.slice : v = rust /\ widget'.at # "away"
  BY <1>1, Facts DEF IsOpen
<1> QED BY <1>1, <1>2, <1>3, <1>4, Facts, Locally

LEMMA AckMarkKeeps ==
  ASSUME Inv, NEW c \in calls, AckMark(c)
  PROVE  Inv'
<1> DEFINE s == MarkAcked(store, c.id)
<1>1. /\ Put(s) /\ calls' = calls \ {c}
      /\ feeds' = [feeds EXCEPT !.due = feeds.due \/ c.at = "ok"]
      /\ UNCHANGED <<made, server, rust, cache, bridge>>
  BY DEF AckMark
<1>2. Milder(s, store) /\ s.count = store.count
  BY Facts, TimesAre, RequestsKeep DEF RoomBefore
<1> HIDE DEF s
<1>3. RoomBefore(s, rust)
  BY <1>2, Facts, MilderIsBefore
<1>4. /\ feeds' \in Feeds /\ feeds'.due = (feeds.due \/ c.at = "ok") /\ feeds'.slice = feeds.slice
      /\ feeds'.late = feeds.late /\ SameList
  BY <1>1, Facts DEF Feeds, SameList
<1>5. SameList /\ (~Owed' /\ ~feeds'.late => s.count \in {cache.count, Unread(rust)})
  BY <1>2, <1>4 DEF Inv, Settled, SameList, Owed
<1> QED BY <1>1, <1>3, <1>4, <1>5, Facts, PutKeeps

LEMMA AckReceiptKeeps ==
  ASSUME Inv, NEW c \in calls, AckReceipt(c)
  PROVE  Inv'
<1> DEFINE s == ReceiptAcked(store, c.event, c.id, c.at = "ok")
           w == IF c.at = "failed" THEN Told(widget, store, s) ELSE widget
<1>1. /\ store' = s /\ calls' = calls \ {c}
      /\ widget' = IF w.requested # c.event THEN w
                   ELSE IF c.at = "ok" THEN Confirmed(w, c.event)
                   ELSE [w EXCEPT !.requested = 0]
      /\ UNCHANGED <<made, server, rust, cache, bridge, feeds>>
  BY DEF AckReceipt
<1>2. Milder(s, store) /\ s.count = store.count
  <2> DEFINE ok == c.at = "ok"
  <2>1. ok \in BOOLEAN /\ store \in Rooms /\ c.id \in Requests /\ c.event \in Times
    BY Facts DEF RoomBefore
  <2> HIDE DEF ok
  <2>2. Milder(ReceiptAcked(store, c.event, c.id, ok), store)
        /\ ReceiptAcked(store, c.event, c.id, ok).count = store.count
    BY <2>1, RequestsKeep
  <2> QED BY <2>2 DEF s, ok
<1> HIDE DEF s
<1>3. RoomBefore(s, rust)
  BY <1>2, Facts, MilderIsBefore
<1>4. ScreenBefore(w, rust) /\ w.at = widget.at
  BY Facts, ToldIs
<1> HIDE DEF w
<1>5. ScreenBefore(widget', rust) /\ widget'.at = widget.at
  <2>1. c.event \in Times /\ c.event <= rust.last /\ 0 \in Times /\ 0 <= rust.last
    BY Facts, Numbers, TimesAre
  <2>2. ScreenBefore(Confirmed(w, c.event), rust) /\ Confirmed(w, c.event).at = w.at
    BY <1>4, <2>1 DEF Confirmed, ScreenBefore, Widgets
  <2>3. ScreenBefore([w EXCEPT !.requested = 0], rust) /\ [w EXCEPT !.requested = 0].at = w.at
    BY <1>4, <2>1 DEF ScreenBefore, Widgets
  <2> QED BY <1>1, <1>4, <2>2, <2>3
<1>6. SameList /\ (~Owed' /\ ~feeds'.late => store'.count \in {cache.count, Unread(rust)})
  BY <1>1, <1>2 DEF Inv, Settled, SameList, Owed
<1>7. \A v \in feeds'.slice : v = rust /\ widget'.at # "away"
  BY <1>1, <1>5, Facts DEF IsOpen
<1>8. calls' \subseteq Calls /\ (\A d \in calls' : d.event <= rust.last) /\ made' \in Requests
      /\ feeds' \in Feeds
  BY <1>1, Facts
<1> QED BY <1>1, <1>3, <1>5, <1>6, <1>7, <1>8, Locally

-----------------------------------------------------------------------------
(* The theorems.                                                           *)

LEMMA InitInv == Init => Inv
<1> SUFFICES ASSUME Init PROVE Inv
  OBVIOUS
<1>1. server \in Views /\ server.upto <= server.last /\ server.last = 1 /\ server.upto = 0
  BY BoundsAssumption DEF Init, Views, Times
<1>2. rust = server /\ cache = Summary(server) /\ bridge = cache
  BY DEF Init
<1>3. cache \in Summaries /\ cache.ts = 1 /\ cache.count \in Times
  BY <1>1, <1>2, Typed DEF Summaries
<1>4. store = [count |-> cache.count, ts |-> 1, frontier |-> 0, markRead |-> FALSE,
               explicit |-> 0, till |-> 0, optim |-> -1, receipt |-> 0]
  BY <1>2, <1>3 DEF Init, NewRoom
<1>5. 1 \in Times /\ 0 \in Times /\ 0 \in Requests
  BY BoundsAssumption, TimesAre DEF Times
<1>6. RoomBefore(store, rust) /\ store.count = cache.count
  BY <1>1, <1>2, <1>3, <1>4, <1>5 DEF RoomBefore, Rooms
<1>7. ScreenBefore(widget, rust)
  BY <1>1, <1>2, <1>5 DEF Init, Closed, ScreenBefore, Widgets
<1>8. feeds \in Feeds /\ feeds.slice = {} /\ feeds.list = {} /\ calls = {} /\ made \in Requests
  BY <1>5, Typed DEF Init, Quiet, Feeds, InFlight, None
<1>9. TypeOK
  BY <1>1, <1>2, <1>3, <1>6, <1>7, <1>8 DEF TypeOK, RoomBefore, ScreenBefore, Widgets, Feeds
<1>10. Behind
  BY <1>1, <1>2, <1>3, <1>8 DEF Behind
<1>11. Seen /\ Masked
  BY <1>6, <1>7, <1>8 DEF RoomBefore, ScreenBefore, Seen, Masked
<1>12. SliceIsNew /\ Settled
  BY <1>2, <1>6, <1>8 DEF SliceIsNew, Settled, Owed, None
<1> QED BY <1>9, <1>10, <1>11, <1>12 DEF Inv

LEMMA NextInv == Inv /\ [Next]_vars => Inv'
<1> SUFFICES ASSUME Inv, [Next]_vars PROVE Inv'
  OBVIOUS
<1>1. ASSUME Arrive \/ OtherReads \/ Sync PROVE Inv'
  BY <1>1, ServerKeeps, SyncKeeps
<1>2. ASSUME ListChanged \/ Refresh \/ AnswerList \/ DeliverList PROVE Inv'
  BY <1>2, ListKeeps, RefreshKeeps, AnswerKeeps, DeliverKeeps
<1>3. ASSUME DeliverUnread \/ DeliverSlice PROVE Inv'
  BY <1>3, UnreadKeeps, SliceKeeps
<1>4. ASSUME OpenRoom \/ LeaveRoom \/ Scroll \/ ReceiptTimer PROVE Inv'
  BY <1>4, ScreenKeeps, TimerKeeps
<1>5. ASSUME NEW e \in Times, ReadTo(e) PROVE Inv'
  BY <1>5, ReadKeeps
<1>6. ASSUME MarkRead \/ MarkReadQuietly PROVE Inv'
  BY <1>6, MarkKeeps
<1>7. ASSUME NEW c \in calls, CallStep(c) PROVE Inv'
  BY <1>7, OnServerKeeps, InCacheKeeps, FailKeeps, AckMarkKeeps, AckReceiptKeeps DEF CallStep
<1>8. CASE UNCHANGED vars
  BY <1>8 DEF vars, Inv, TypeOK, Behind, Seen, Masked, SliceIsNew, Settled, IsOpen, Unread, Owed
<1> QED BY <1>1, <1>2, <1>3, <1>4, <1>5, <1>6, <1>7, <1>8 DEF Next

THEOREM Invariance == Spec => []Inv
<1>1. Init => Inv
  BY InitInv
<1>2. Inv /\ [Next]_vars => Inv'
  BY NextInv
<1> QED BY <1>1, <1>2, PTL DEF Spec

\* Every handler keeps the shapes of the room, the screen, the requests and the feeds; no
\* count that is subtracted from another falls below zero.
THEOREM TypeCorrect == Spec => []TypeOK
<1>1. Inv => TypeOK
  BY DEF Inv
<1> QED BY <1>1, Invariance, PTL

\* At rest, the store holds the server's count: whichever feed came last brought the list
\* of the Rust side or the SDK's own count, unless mark_room_read's zero or a late unread
\* snapshot of a closed room did.
THEOREM CountsDoConverge == Spec => []CountsConverge
<1>1. Inv => CountsConverge
  <2> SUFFICES ASSUME Inv, AtRest, cache = Summary(server) PROVE store.count = Unread(server)
    BY DEF CountsConverge
  <2>1. ~Owed /\ ~feeds.late /\ rust = server
    BY DEF AtRest, Quiet, Owed
  <2>2. cache.count = Unread(server)
    BY Facts, Typed
  <2> QED BY <2>1, <2>2 DEF Inv, Settled
<1> QED BY <1>1, Invariance, PTL

\* At rest, the list applied once more (applyRoomListSnapshot) leaves masked no message
\* but those read here, up to the one that the pending read ends at.
THEOREM HidesNothingElse == Spec => []HidesOnlyReads
<1>1. Inv => HidesOnlyReads
  <2> DEFINE s == ListSnapshot(store, bridge)
  <2> SUFFICES ASSUME Inv, AtRest, cache = Summary(server), ~(s.frontier > s.till)
               PROVE  Effective(s) >= server.last - Max({server.upto, s.till})
    BY DEF HidesOnlyReads
  <2>1. bridge = cache /\ bridge.count = Unread(server) /\ bridge.ts = server.last
    BY Facts, Typed DEF Inv, Settled, AtRest, Quiet, Owed
  <2>2. /\ Milder(s, store) /\ s \in Rooms
        /\ bridge.count = 0 \/ bridge.ts > store.frontier => Effective(s) = bridge.count
    BY Facts, ListSnapshotIs DEF RoomBefore, Milder
  <2>3. RoomBefore(s, rust)
    <3> HIDE DEF s
    <3> QED BY <2>2, Facts, MilderIsBefore
  <2> HIDE DEF s
  <2>4. /\ s.till \in Times /\ s.till \in Nat /\ s.frontier \in Nat /\ store.frontier = s.frontier
        /\ s.till <= s.frontier
    BY <2>2, <2>3, TimesAre DEF RoomBefore, Rooms, Milder
  <2>5. /\ Max({server.upto, s.till}) \in {server.upto, s.till}
        /\ Max({server.upto, s.till}) >= s.till /\ Max({server.upto, s.till}) >= server.upto
    BY <2>4, Facts, MaxTimes
  <2>6. server.last \in Nat /\ server.upto \in Nat /\ server.upto <= server.last
    BY Numbers
  <2>7. CASE bridge.count = 0 \/ bridge.ts > store.frontier
    BY <2>1, <2>2, <2>4, <2>5, <2>6, <2>7 DEF Unread
  <2>8. CASE server.last <= s.frontier
    <3>1. Effective(s) \in Nat
      BY <2>2, EffectiveIs, TimesAre
    <3>2. server.last <= s.till
      BY <2>4, <2>6, <2>8
    <3> QED BY <2>4, <2>5, <2>6, <3>1, <3>2
  <2> QED BY <2>1, <2>4, <2>6, <2>7, <2>8
<1> QED BY <1>1, Invariance, PTL

-----------------------------------------------------------------------------
\* What is meant by a read's coming to an end.
Excused ==
  \/ store'.markRead \/ server.upto >= store.till
  \/ server.last > store.till
  \/ \E c \in calls : c.op = "receipt" /\ c.at = "failed"
  \/ 0 \in {r.count : r \in feeds.list \union {bridge}} \union feeds.unread

\* A list snapshot that is not of a zero unmasks a read only when the server has gone past.
LEMMA ListUnmasks ==
  ASSUME Inv, NEW s \in Rooms, NEW r \in feeds.list \union {bridge}, s.optim = 0, r.count # 0,
         store.till <= s.frontier, ListSnapshot(s, r).optim # 0
  PROVE  server.last > store.till
<1>1. r.ts > s.frontier
  BY Facts, ListSnapshotIs
<1>2. r.ts \in Nat /\ r.ts <= rust.last /\ s.frontier \in Nat /\ store.till \in Nat
  BY Facts, Numbers, TimesAre DEF Rooms, RoomBefore
<1> QED BY <1>1, <1>2, Numbers

LEMMA ReadEnds ==
  ASSUME Inv, [Next]_vars, store.optim = 0, store'.optim # 0
  PROVE  Excused
<1>1. store \in Rooms /\ store.till <= store.frontier /\ store.till <= rust.last /\ store.till \in Nat
  BY Facts, TimesAre DEF RoomBefore, Rooms
<1>2. ASSUME ListChanged PROVE Excused
  <2>1. store' = ListSnapshot(store, bridge)
    BY <1>2 DEF ListChanged, Put
  <2> QED BY <1>1, <2>1, ListUnmasks DEF Excused
<1>3. ASSUME Refresh \/ DeliverList PROVE Excused
  <2>1. PICK r \in feeds.list \union {bridge} : store' = ListSnapshot(store, r)
    BY <1>3 DEF Refresh, DeliverList, Put
  <2> QED BY <1>1, <2>1, ListUnmasks DEF Excused
<1>4. ASSUME DeliverUnread PROVE Excused
  <2>1. PICK n \in feeds.unread : store' = UnreadSnapshot(store, n)
    BY <1>4 DEF DeliverUnread, Put
  <2>2. n \in Times
    BY <2>1, Facts
  <2>3. n # 0 => store'.optim = store.optim
    BY <1>1, <2>1, <2>2, UnreadSnapshotIs
  <2> QED BY <2>1, <2>3 DEF Excused
<1>5. ASSUME DeliverSlice PROVE Excused
  <2> SUFFICES ASSUME ~(server.upto >= store.till), ~(server.last > store.till) PROVE FALSE
    BY DEF Excused
  <2>1. store.till = rust.last /\ rust.upto # rust.last /\ server.last = rust.last
    BY <1>1, Numbers
  <2>2. PICK v \in feeds.slice :
          LET s1 == TimelineSnapshot(store, Unread(v))
              s2 == Remaining(s1, v)
          IN  \/ store' = s2
              \/ \E w : SendReceipt(ReadProgress(s2, v.last, 0), w, v.last)
    BY <1>5 DEF DeliverSlice
  <2> DEFINE s1 == TimelineSnapshot(store, Unread(v))
             s2 == Remaining(s1, v)
  <2>3. v = rust /\ rust \in Views /\ Unread(rust) \in Times /\ Unread(rust) # 0 /\ rust.last \in Times
        /\ rust.upto <= rust.last
    BY <2>1, Facts, Numbers DEF Unread
  <2>4. /\ Milder(s1, store) /\ s1.till = store.till /\ s1.optim = 0
    BY <1>1, <2>3, TimelineSnapshotIs
  <2> HIDE DEF s1
  <2>5. RoomBefore(s1, rust)
    BY <2>3, <2>4, Facts, MilderIsBefore
  <2>6. s2.optim = 0 /\ RoomBefore(s2, rust)
    BY <2>1, <2>3, <2>4, <2>5, RemainingIs
  <2> HIDE DEF s2
  <2>7. CASE store' = s2
    BY <2>6, <2>7
  <2>8. ASSUME NEW w, SendReceipt(ReadProgress(s2, v.last, 0), w, v.last) PROVE FALSE
    <3> DEFINE s3 == ReadProgress(s2, v.last, 0)
    <3>1. s2 \in Rooms /\ v.last \in Times /\ 0 \in Times
      BY <2>3, <2>6, TimesAre DEF RoomBefore
    <3>2. s3.optim = 0 /\ s3 \in Rooms
      BY <3>1, ReadProgressIs
    <3> HIDE DEF s3
    <3>3. store' = BoundReceipt(s3, v.last, made + 1)
      BY <2>8 DEF SendReceipt, s3
    <3>4. store'.optim = s3.optim
      BY <3>2, <3>3 DEF BoundReceipt, Rooms
    <3> QED BY <3>2, <3>4
  <2> QED BY <2>2, <2>7, <2>8 DEF s1, s2
<1>6. ASSUME NEW e \in Times, ReadTo(e) PROVE Excused
  <2>1. Effective(store) = 0
    BY <1>1, EffectiveIs
  <2> QED BY <1>6, <2>1 DEF ReadTo
<1>7. ASSUME MarkRead PROVE Excused
  <2>1. made + 1 \in Requests
    BY <1>7, Facts, BoundsAssumption DEF MarkRead, Request, Requests
  <2>2. store'.markRead = TRUE
    BY <1>1, <1>7, <2>1, RequestsKeep, TimesAre DEF MarkRead, Put
  <2> QED BY <2>2 DEF Excused
<1>8. ASSUME ReceiptTimer PROVE FALSE
  <2>1. store'.optim = store.optim
    BY <1>1, <1>8 DEF ReceiptTimer, SendReceipt, BoundReceipt, Rooms
  <2> QED BY <2>1
<1>9. ASSUME NEW c \in calls, AckMark(c) PROVE FALSE
  <2>1. store' = MarkAcked(store, c.id) /\ c.id \in Requests
    BY <1>9, Facts DEF AckMark, Put
  <2>2. store'.optim = store.optim
    BY <1>1, <2>1, TimesAre, RequestsKeep
  <2> QED BY <2>2
<1>10. ASSUME NEW c \in calls, AckReceipt(c) PROVE Excused
  <2>1. c.op = "receipt" /\ c.at \in {"ok", "failed"}
    BY <1>10 DEF AckReceipt
  <2>2. CASE c.at = "failed"
    BY <2>1, <2>2 DEF Excused
  <2>3. CASE c.at = "ok"
    <3>1. store' = ReceiptAcked(store, c.event, c.id, TRUE)
      BY <1>10, <2>3 DEF AckReceipt
    <3>2. c.event \in Times /\ c.id \in Requests /\ TRUE \in BOOLEAN
      BY Facts
    <3>3. store'.optim = store.optim
      BY <1>1, <3>1, <3>2, RequestsKeep
    <3> QED BY <3>3
  <2> QED BY <2>1, <2>2, <2>3
<1>11. ASSUME \/ Arrive \/ OtherReads \/ Sync \/ AnswerList \/ OpenRoom \/ LeaveRoom \/ Scroll
              \/ MarkReadQuietly \/ UNCHANGED vars
              \/ \E c \in calls : MarkOnServer(c) \/ MarkInCache(c) \/ ReceiptOnServer(c) \/ Fail(c)
       PROVE  FALSE
  <2>1. store' = store
    BY <1>11 DEF Arrive, OtherReads, Sync, AnswerList, OpenRoom, LeaveRoom, Scroll, MarkReadQuietly, vars,
       MarkOnServer, MarkInCache, ReceiptOnServer, Fail
  <2> QED BY <2>1
<1> QED BY <1>2, <1>3, <1>4, <1>5, <1>6, <1>7, <1>8, <1>9, <1>10, <1>11 DEF Next, CallStep

\* "No flicker" (applyRoomListSnapshot): a room that was read to its newest message shows
\* none until the server has the read or newer messages, the room is marked, the receipt
\* fails, or a zero of an earlier moment passes for the server's confirmation.
THEOREM ReadsStay == Spec => ReadsAreKept
<1>1. Inv /\ [Next]_vars =>
        [store.optim = 0 /\ store'.optim # 0 =>
           \/ store'.markRead \/ server.upto >= store.till
           \/ server.last > store.till
           \/ \E c \in calls : c.op = "receipt" /\ c.at = "failed"
           \/ 0 \in {r.count : r \in feeds.list \union {bridge}} \union feeds.unread]_vars
  BY ReadEnds DEF Excused
<1> QED BY <1>1, Invariance, PTL DEF Spec, ReadsAreKept
=============================================================================
