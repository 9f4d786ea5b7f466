----------------------------- MODULE UnreadSync -----------------------------
(***************************************************************************)
(* The unread badge of one room: the homeserver, the Rust side that syncs  *)
(* with it, the feeds that bring snapshots to the store of UnreadState,    *)
(* and the open room (src/src/history/history_widget.cpp) that reads       *)
(* messages and sends receipts.                                            *)
(*                                                                         *)
(* A signal waits for as long as it likes.  The counts that it asks for    *)
(* are those of the moment it was raised; the list is that of the moment   *)
(* the Rust side answers, and is old when another signal applies it again. *)
(* Messages come with increasing timestamps; all of them count as unread.  *)
(***************************************************************************)
EXTENDS UnreadState

VARIABLES
  server,   \* newest message, our read marker
  rust,     \* the same, as of the last sync
  cache,    \* the room's summary in the rooms cache of the Rust side
  bridge,   \* the summary in ProtocolBridge's copy of the room list
  store,    \* the room in the unread store
  widget,   \* the room on screen, and its receipts
  calls,    \* requests to the server that have not been acknowledged
  made,     \* requests made so far; the id of the newest
  feeds     \* signals and timers that wait, and snapshots in flight

vars == <<server, rust, cache, bridge, store, widget, calls, made, feeds>>

Views == [last : Times, upto : Times]
Unread(v) == v.last - v.upto
Summary(v) == [count |-> Unread(v), ts |-> v.last]

\* Requests that mark the room or send a receipt.
Calls == [id : Requests, op : {"read", "receipt"}, event : Times,
          at : {"sent", "half", "ok", "failed"}]

None == {}     \* no snapshot in flight; one in flight is a singleton
InFlight(S) == {None} \union {{x} : x \in S}
Quiet == [due |-> FALSE, asked |-> FALSE, list |-> None, unread |-> None,
          slice |-> None, late |-> FALSE]

\* The room closed: nothing shown, no receipts kept.
Closed == [at |-> "away", shown |-> 0, upto |-> 0, emitted |-> 0, pending |-> 0,
           requested |-> 0, confirmed |-> 0]
IsOpen == widget.at # "away"

-----------------------------------------------------------------------------
\* A store update, and what the open room does when it is told: a count of zero
\* drops the receipt that waits for its timer (applyStoreUnreadState).  A count that
\* has just fallen to zero detects the same read again (setReadFrontier).
Told(w, before, after) ==
  IF w.at # "away" /\ Presented(before) # Presented(after)
       /\ Effective(before) = 0 /\ Effective(after) = 0
    THEN [w EXCEPT !.pending = 0] ELSE w

Put(s) == store' = s /\ widget' = Told(widget, store, s)

CanRequest(w, e) == e \notin {0, w.confirmed, w.requested}

Request(op, event) ==
  /\ made < MaxCalls
  /\ made' = made + 1
  /\ calls' = calls \union {[id |-> made + 1, op |-> op, event |-> event, at |-> "sent"]}

\* sendTrackedReadReceipt.
SendReceipt(s, w, e) ==
  /\ Request("receipt", e)
  /\ store' = BoundReceipt(s, e, made + 1)
  /\ widget' = [w EXCEPT !.requested = e]

-----------------------------------------------------------------------------
(* The server, and the sync. *)

Arrive ==
  /\ server.last < MaxMsgs
  /\ server' = [server EXCEPT !.last = @ + 1]
  /\ UNCHANGED <<rust, cache, bridge, store, widget, calls, made, feeds>>

\* Another device of the user reads.
OtherReads ==
  /\ \E e \in (server.upto + 1)..server.last :
       server' = [server EXCEPT !.upto = e]
  /\ UNCHANGED <<rust, cache, bridge, store, widget, calls, made, feeds>>

(* Mutant: the change of the summary is not announced.                    *)
NotifiedTimelineOnly(f, v) == [f EXCEPT !.unread = IF IsOpen THEN {Unread(v)} ELSE @,
                                        !.slice = IF IsOpen THEN {v} ELSE @]

\* notify_timeline_update, and timelineChanged while the room is open: both
\* requests are answered from the SDK's counts.
Notified(f, v) == [f EXCEPT !.due = TRUE,
                            !.unread = IF IsOpen THEN {Unread(v)} ELSE @,
                            !.slice = IF IsOpen THEN {v} ELSE @]

Sync ==
  /\ rust # server
  /\ rust' = server
  /\ cache' = Summary(server)
  /\ feeds' = Notified(feeds, server)
  /\ UNCHANGED <<server, bridge, store, widget, calls, made>>

-----------------------------------------------------------------------------
(* The feeds. *)

\* roomListChanged: the bridge's old copy is applied at once.  The timer of the
\* refresh runs, and every room's changes start it again.
ListChanged ==
  /\ feeds.due
  /\ Put(ListSnapshot(store, bridge))
  /\ UNCHANGED <<server, rust, cache, bridge, calls, made, feeds>>

\* refreshUnreadRoomListSnapshot: the old copy is applied once more, and the list is
\* asked for, one request at a time.  The dialogs ask for themselves; their requests
\* are these.
Refresh ==
  /\ feeds.due
  /\ ~feeds.asked /\ feeds.list = None
  /\ Put(ListSnapshot(store, bridge))
  /\ feeds' = [feeds EXCEPT !.due = FALSE, !.asked = TRUE]
  /\ UNCHANGED <<server, rust, cache, bridge, calls, made>>

\* tm_get_rooms_async: the rooms cache as a task of the runtime finds it.
AnswerList ==
  /\ feeds.asked
  /\ feeds' = [feeds EXCEPT !.asked = FALSE, !.list = {cache}]
  /\ UNCHANGED <<server, rust, cache, bridge, store, widget, calls, made>>

\* handleRoomsReady, and the two that listen to roomsReady.
DeliverList ==
  /\ \E r \in feeds.list :
       /\ bridge' = r
       /\ Put(ListSnapshot(store, r))
  /\ feeds' = [feeds EXCEPT !.list = None, !.late = FALSE]
  /\ UNCHANGED <<server, rust, cache, calls, made>>

\* A closed room's request is not replaced by newer ones: late records that what
\* came last was older than what the Rust side holds.
DeliverUnread ==
  /\ \E n \in feeds.unread :
       /\ Put(UnreadSnapshot(store, n))
       /\ feeds' = [feeds EXCEPT !.unread = None, !.late = n # Unread(rust)]
  /\ UNCHANGED <<server, rust, cache, bridge, calls, made>>

\* applyTimelineSlice: the store first, then applyLiveUnreadState, which counts
\* what is left after the pending read; at the bottom the newest message is read.
Remaining(s, v) ==
  IF Unread(v) > 0 /\ s.till > v.upto
    THEN LET n == Max({0, v.last - s.till})
         IN  IF n # Effective(s) THEN ReadProgress(s, s.till, n) ELSE s
    ELSE s

DeliverSlice ==
  /\ \E v \in feeds.slice :
       LET s1 == TimelineSnapshot(store, Unread(v))
           s2 == Remaining(s1, v)
           w1 == Told(Told(widget, store, s1), s1, s2)
           w2 == [w1 EXCEPT !.pending = IF Unread(v) = 0 THEN 0 ELSE @,
                            !.shown = v.last, !.upto = v.upto]
       IN  IF widget.at = "bottom" /\ v.last # widget.shown /\ CanRequest(w2, v.last)
             THEN SendReceipt(ReadProgress(s2, v.last, 0),
                              [w2 EXCEPT !.pending = 0], v.last)
             ELSE store' = s2 /\ widget' = w2 /\ UNCHANGED <<calls, made>>
  /\ feeds' = [feeds EXCEPT !.slice = None, !.late = FALSE]
  /\ UNCHANGED <<server, rust, cache, bridge>>

-----------------------------------------------------------------------------
(* The open room. *)

\* It opens at its first unread message.
OpenRoom ==
  /\ ~IsOpen
  /\ widget' = [Closed EXCEPT !.at = "up"]
  /\ feeds' = [feeds EXCEPT !.slice = {rust}]
  /\ UNCHANGED <<server, rust, cache, bridge, store, calls, made>>

\* Closing or leaving it forgets its receipts, sent or not.
LeaveRoom ==
  /\ IsOpen
  /\ widget' = Closed
  /\ feeds' = [feeds EXCEPT !.slice = None]
  /\ UNCHANGED <<server, rust, cache, bridge, store, calls, made>>

Scroll ==
  /\ IsOpen
  /\ \E where \in {"up", "bottom"} \ {widget.at} : widget' = [widget EXCEPT !.at = where]
  /\ UNCHANGED <<server, rust, cache, bridge, store, calls, made, feeds>>

\* checkReadProgress and messagesReadTill: the last message on screen is read, from
\* the first unread one on.  The count goes down (applyOptimisticReadProgress), and
\* the receipt is timed.
FirstUnread == Max({store.till, widget.upto}) + 1

ReadTo(e) ==
  /\ IsOpen
  /\ Effective(store) > 0
  /\ e \in FirstUnread..widget.shown
  /\ e # widget.emitted
  /\ widget.at = "bottom" <=> e = widget.shown
  /\ LET n == Max({0, Effective(store) - (e - FirstUnread + 1)})
         w == [widget EXCEPT !.emitted = e]
     IN  /\ store' = ReadProgress(store, e, n)
         /\ widget' = IF CanRequest(w, e) THEN [w EXCEPT !.pending = e] ELSE w
  /\ UNCHANGED <<server, rust, cache, bridge, calls, made, feeds>>

\* The timer of 300 ms, which every scroll starts again.
ReceiptTimer ==
  /\ IsOpen
  /\ CanRequest(widget, widget.pending)
  /\ SendReceipt(store, widget, widget.pending)
  /\ UNCHANGED <<server, rust, cache, bridge, feeds>>

-----------------------------------------------------------------------------
(* Marks, and the requests to the server. *)

MarkRead ==
  /\ Request("read", 0)
  /\ Put(MarkedRead(store, made + 1))
  /\ UNCHANGED <<server, rust, cache, bridge, feeds>>

\* From a notification: the store is not told.
MarkReadQuietly ==
  /\ Request("read", 0)
  /\ UNCHANGED <<server, rust, cache, bridge, store, widget, feeds>>

Becomes(c, at) == calls' = (calls \ {c}) \union {[c EXCEPT !.at = at]}

\* RoomActionService::mark_room_read: the receipt for the newest event, the flag,
\* then a zero in the rooms cache.
MarkOnServer(c) ==
  /\ c.op = "read" /\ c.at = "sent"
  /\ server' = [server EXCEPT !.upto = Max({@, rust.last})]
  /\ Becomes(c, "half")
  /\ UNCHANGED <<made, rust, cache, bridge, store, widget, feeds>>

MarkInCache(c) ==
  /\ c.op = "read" /\ c.at = "half"
  /\ cache' = [cache EXCEPT !.count = 0]
  /\ feeds' = Notified(feeds, rust)
  /\ Becomes(c, "ok")
  /\ UNCHANGED <<made, server, rust, bridge, store, widget>>

ReceiptOnServer(c) ==
  /\ c.op = "receipt" /\ c.at = "sent"
  /\ server' = [server EXCEPT !.upto = Max({@, c.event})]
  /\ feeds' = Notified(feeds, rust)
  /\ Becomes(c, "ok")
  /\ UNCHANGED <<made, rust, cache, bridge, store, widget>>

Fail(c) ==
  /\ c.at \in {"sent", "half"}
  /\ Becomes(c, "failed")
  /\ UNCHANGED <<made, server, rust, cache, bridge, store, widget, feeds>>

\* roomMarkedRead: the store, then a refresh of the list.
AckMark(c) ==
  /\ c.op = "read" /\ c.at \in {"ok", "failed"}
  /\ calls' = calls \ {c}
  /\ Put(MarkAcked(store, c.id))
  /\ feeds' = [feeds EXCEPT !.due = @ \/ c.at = "ok"]
  /\ UNCHANGED <<made, server, rust, cache, bridge>>

\* readReceiptSent: the store, then the room's own record of the receipt.
Confirmed(w, e) == [w EXCEPT !.confirmed = e, !.requested = 0,
                             !.pending = IF @ = e THEN 0 ELSE @]

AckReceipt(c) ==
  /\ c.op = "receipt" /\ c.at \in {"ok", "failed"}
  /\ calls' = calls \ {c}
  /\ LET s == ReceiptAcked(store, c.event, c.id, c.at = "ok")
         w == IF c.at = "failed" THEN Told(widget, store, s) ELSE widget
     IN  /\ store' = s
         /\ widget' = IF w.requested # c.event THEN w
                      ELSE IF c.at = "ok" THEN Confirmed(w, c.event)
                      ELSE [w EXCEPT !.requested = 0]
  /\ UNCHANGED <<made, server, rust, cache, bridge, feeds>>

-----------------------------------------------------------------------------
\* A message read before, and the device at rest.
Init ==
  /\ server = [last |-> 1, upto |-> 0]
  /\ rust = server
  /\ cache = Summary(server)
  /\ bridge = cache
  /\ store = NewRoom(bridge)
  /\ widget = Closed
  /\ calls = {}
  /\ made = 0
  /\ feeds = Quiet

CallStep(c) == MarkOnServer(c) \/ MarkInCache(c) \/ ReceiptOnServer(c)
                 \/ Fail(c) \/ AckMark(c) \/ AckReceipt(c)

Next ==
  \/ Arrive \/ OtherReads \/ Sync
  \/ ListChanged \/ Refresh \/ AnswerList \/ DeliverList
  \/ DeliverUnread \/ DeliverSlice
  \/ OpenRoom \/ LeaveRoom \/ Scroll \/ ReceiptTimer
  \/ \E e \in Times : ReadTo(e)
  \/ MarkRead \/ MarkReadQuietly
  \/ \E c \in calls : CallStep(c)

Spec == Init /\ [][Next]_vars

-----------------------------------------------------------------------------
\* The shapes of the variables; no request is made past the bound.
TypeOK ==
  /\ server \in Views /\ rust \in Views
  /\ cache \in Summaries /\ bridge \in Summaries
  /\ store \in Rooms
  /\ widget \in [at : {"away", "up", "bottom"}, shown : Times, upto : Times,
                 emitted : Times, pending : Times, requested : Times,
                 confirmed : Times]
  /\ calls \subseteq Calls /\ made \in Requests
  /\ feeds \in [due : BOOLEAN, asked : BOOLEAN, list : InFlight(Summaries),
                unread : InFlight(Times), slice : InFlight(Views), late : BOOLEAN]

\* Nothing in flight, and no receipt that the timer would send.
AtRest == /\ calls = {} /\ feeds = Quiet /\ rust = server
          /\ ~(IsOpen /\ CanRequest(widget, widget.pending))

\* However the snapshots of the three feeds overtake each other, at rest the store
\* holds the server's count.  Two ways out are the code's own: the zero that
\* mark_room_read writes over a newer summary, and an unread snapshot of a closed
\* room that arrives last.
CountsConverge ==
  AtRest /\ cache = Summary(server) => store.count = Unread(server)

\* At rest, and once any room's change has applied the list again, the store hides
\* no message but those read here.  Not so when the time of a read whose receipt
\* failed is past the read that is pending: nothing takes readFrontierTs back.
HidesOnlyReads ==
  AtRest /\ cache = Summary(server) =>
    LET s == ListSnapshot(store, bridge)
    IN  \/ Effective(s) >= server.last - Max({server.upto, s.till})
        \/ s.frontier > s.till

\* A room read to its newest message keeps its zero (applyRoomListSnapshot's "no
\* flicker") until the server has the read, the room is marked, the receipt fails,
\* or a zero of an earlier moment is taken for the server's confirmation.
ReadsAreKept ==
  [][store.optim = 0 /\ store'.optim # 0 =>
       \/ store'.markRead \/ server.upto >= store.till
       \/ server.last > store.till
       \/ \E c \in calls : c.op = "receipt" /\ c.at = "failed"
       \/ 0 \in {r.count : r \in feeds.list \union {bridge}} \union feeds.unread]_vars

\* "Send read receipt (debounced via timer)": while the room stays open, a read that
\* the store masks is reported, on its way, or waits for the timer.
ReceiptsAreOwed ==
  IsOpen /\ store.till # 0 /\ store.till = widget.emitted =>
    \/ store.till <= Max({widget.pending, widget.requested, widget.confirmed, server.upto})
    \/ \E c \in calls : c.op = "read" \/ c.event >= store.till
=============================================================================
