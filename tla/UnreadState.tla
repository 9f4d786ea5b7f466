---------------------------- MODULE UnreadState ----------------------------
(***************************************************************************)
(* One room of src/src/app/unread_state_store.cpp: what the server said    *)
(* last, and the local reads and marks that mask it until the server       *)
(* agrees.  Functions of the room; UnreadSync is the system they run in.   *)
(*                                                                         *)
(* Messages are numbered in the order of their timestamps; 0 is none.      *)
(* Revisions are left out: a mark's request is bound in the handler that   *)
(* made its revision, and a receipt's to the newest revision.  Marks as    *)
(* unread and mentions are left out.                                       *)
(***************************************************************************)
EXTENDS Integers, FiniteSetsExt

CONSTANTS MaxMsgs,   \* messages in the room
          MaxCalls   \* requests ever made to the server

ASSUME BoundsAssumption == MaxMsgs \in Nat \ {0} /\ MaxCalls \in Nat

Times == 0..MaxMsgs
Requests == 0..MaxCalls   \* their ids; 0 is none

\* What the room list tells of a room.
Summaries == [count : Times, ts : Times]

Rooms == [count : Times, ts : Times,     \* serverUnreadCount, serverLastActivityTs
          frontier : Times,              \* readFrontierTs
          markRead : BOOLEAN,            \* pendingExplicitMarkRead
          explicit : Requests,           \* pendingExplicitRequestId
          till : Times,                  \* pendingReadTillEventId
          optim : Times \union {-1},     \* pendingOptimisticUnreadCount
          receipt : Requests]            \* pendingReadRequestId

NewRoom(r) == [count |-> r.count, ts |-> r.ts, frontier |-> 0, markRead |-> FALSE,
               explicit |-> 0, till |-> 0, optim |-> -1, receipt |-> 0]

-----------------------------------------------------------------------------
\* recomputeEffectiveState.
Effective(s) == IF s.markRead THEN 0
                ELSE IF s.optim >= 0 THEN Min({s.optim, s.count})
                ELSE s.count

\* StatePresentationEqual compares these; the rest derives from them.
Presented(s) == <<s.count, s.markRead, s.till, s.optim>>

ForgetMark(s) == [s EXCEPT !.markRead = FALSE, !.explicit = 0]
(* Mutant: the two empty values are swapped.                              *)
ForgetReadSwapped(s) == [s EXCEPT !.till = -1, !.optim = 0, !.receipt = 0]

ForgetRead(s) == [s EXCEPT !.till = 0, !.optim = -1, !.receipt = 0]

(* Mutants: only the server's zero unmasks; activity at the point read unmasks. *)
ListSnapshotKeepsMask(s, r) ==
  LET t == [s EXCEPT !.count = r.count, !.ts = r.ts]
  IN  IF r.count = 0 THEN ForgetRead(ForgetMark(t)) ELSE t

ListSnapshotOffByOne(s, r) ==
  LET t == [s EXCEPT !.count = r.count, !.ts = r.ts]
  IN  IF r.count = 0 \/ r.ts >= s.frontier THEN ForgetRead(ForgetMark(t)) ELSE t

\* applyRoomListSnapshot: a read is unmasked when the server confirms it, or by
\* activity past the point that was read up to.
ListSnapshot(s, r) ==
  LET t == [s EXCEPT !.count = r.count, !.ts = r.ts]
  IN  IF r.count = 0 \/ r.ts > s.frontier THEN ForgetRead(ForgetMark(t)) ELSE t

\* applyRoomUnreadSnapshot: carries no timestamp, and confirms only a mark.
UnreadSnapshot(s, count) ==
  LET t == [s EXCEPT !.count = count]
  IN  IF t.markRead /\ count = 0 THEN ForgetRead(ForgetMark(t)) ELSE t

\* applyTimelineSnapshot confirms a read too, by a count no larger than its own.
TimelineSnapshot(s, count) ==
  LET t == UnreadSnapshot(s, count)
  IN  IF count <= t.optim THEN ForgetRead(t) ELSE t

\* optimisticMarkRead and bindExplicitRequest: all that was seen is read.
MarkedRead(s, id) ==
  [ForgetRead(s) EXCEPT !.markRead = TRUE, !.explicit = id, !.frontier = s.ts]

\* optimisticReadProgress: the frontier is the time of the message that was read.
ReadProgress(s, till, count) ==
  [s EXCEPT !.till = till, !.optim = count, !.receipt = 0,
            !.frontier = Max({s.frontier, till})]

\* bindReadReceiptRequest: only for the event that the pending read ends at.
BoundReceipt(s, event, id) == IF s.till = event THEN [s EXCEPT !.receipt = id] ELSE s

\* ackMarkRead: not for an older mark; failed or done, the mask of the mark goes.
MarkAcked(s, id) ==
  IF s.markRead /\ s.explicit \in {0, id} THEN ForgetMark(s) ELSE s

\* ackReadReceipt.  A success keeps the mask.
ReceiptAcked(s, event, id, success) ==
  IF s.till # event \/ s.receipt \notin {0, id} THEN s
  ELSE IF ~success THEN ForgetRead(s)
  ELSE [s EXCEPT !.receipt = 0]
=============================================================================
