------------------------------ MODULE ChatRoom ------------------------------
(***************************************************************************)
(* One fan's device in one chat room (chat_message slice of the app), the  *)
(* messages table behind it, and the Realtime channel between them.        *)
(*                                                                         *)
(* The device talks to the table directly.  Each call is a request whose   *)
(* answer arrives later or never; meanwhile Realtime events, the fan's     *)
(* taps and other answers change the list.  The controller runs on one     *)
(* thread, so what it does between two awaits is one step here.            *)
(***************************************************************************)
EXTENDS Integers, FiniteSets, SequencesExt

CONSTANTS Clients,   \* client_message_ids this device may generate
          Calls,     \* sends and retries that may be running at one time
          Other,     \* the client id of a message somebody else sent
          PageSize,  \* rows per fetch
          OldRows,   \* rows in the room before the screen opens
          MaxRows,   \* bound: rows in the room
          MaxEvents, \* bound: Realtime events under way
          MaxChanged \* bound: rows that get edited or deleted

ASSUME ChatRoomConstants ==
    /\ Other \notin Clients
    /\ PageSize \in Nat \ {0} /\ OldRows \in Nat /\ MaxRows \in Nat
    /\ MaxEvents \in Nat /\ MaxChanged \in Nat
    /\ OldRows <= MaxRows

\* The state of a row: sent, edited_at set, deleted_at set.
Versions == 0..2
Deleted  == 2

VARIABLES rows,      \* the messages table: [client, ver]; created_at is the index
          joined,    \* the Realtime subscription is in place
          events,    \* Realtime events on their way to the device, in order
          view,      \* "loading" until build() returned
          items,     \* the list on the screen
          hasMore,   \* _hasMore
          captured,  \* the list loadMore read before its fetch, <<>> if none runs
          call,      \* the sends and retries under way
          stray,     \* inserts given up by the device that may still arrive
          edit,      \* the answer to an edit or deletion on its way
          marked,    \* messages for which markBroadcastAsRead was called
          first      \* history: lowest and highest row of the first page

vars == <<rows, joined, events, view, items, hasMore, captured, call, stray, edit,
          marked, first>>

server == <<rows, joined, events, stray>>
list   == <<view, hasMore, captured, first>>

Row     == [client : Clients \cup {Other}, ver : Versions]
Event   == [new : BOOLEAN, id : 1..MaxRows, ver : Versions]
\* A ConfirmedItem has the id of its row, a PendingItem has id 0.
Item    == [id : 0..MaxRows, ver : Versions, client : Clients \cup {Other},
            failed : BOOLEAN]
NoCall  == [client |-> Other, retry |-> FALSE, phase |-> "idle"]
Call    == {NoCall} \cup [client : Clients, retry : BOOLEAN,
                          phase : {"posting", "stored", "refused", "asking"}]
NoEdit  == [id |-> 0, ver |-> 0]

TypeOK == /\ rows \in Seq(Row) /\ Len(rows) <= MaxRows
          /\ joined \in BOOLEAN
          /\ events \in Seq(Event) /\ Len(events) <= MaxEvents
          /\ view \in {"loading", "ready"}
          /\ items \in Seq(Item) /\ captured \in Seq(Item)
          /\ hasMore \in BOOLEAN
          /\ call \in [Calls -> Call]
          /\ stray \subseteq Clients
          /\ edit \in [id : 0..MaxRows, ver : Versions]
          /\ marked \subseteq 1..MaxRows
          /\ first \in [lo : Nat, hi : Nat]

Init == /\ rows = [i \in 1..OldRows |-> [client |-> Other, ver |-> 0]]
        /\ joined = FALSE /\ events = <<>>
        /\ view = "loading" /\ items = <<>> /\ hasMore = TRUE /\ captured = <<>>
        /\ call = [k \in Calls |-> NoCall] /\ stray = {}
        /\ edit = NoEdit
        /\ marked = {}
        /\ first = [lo |-> 0, hi |-> 0]

-----------------------------------------------------------------------------
(* The list: what the controller does with it between two awaits.          *)

Confirmed(id, ver) == [id |-> id, ver |-> ver, client |-> rows[id].client, failed |-> FALSE]
Pending(c, failed) == [id |-> 0, ver |-> 0, client |-> c, failed |-> failed]

IsPending(x, c) == x.id = 0 /\ x.client = c
PendingAt(s, c) == SelectInSeq(s, LAMBDA x : IsPending(x, c))
ShownAt(s, id)  == SelectInSeq(s, LAMBDA x : x.id = id)
Shows(s, id)    == ShownAt(s, id) # 0

\* A wrong handler: it does not look for the optimistic item of its own send.
OnMessageInsertAppending(s, x) == IF Shows(s, x.id) THEN s ELSE Append(s, x)

\* A row arrives by Realtime: a repeated event is ignored, the answer to an own
\* send takes the place of the optimistic item, anything else goes to the end.
OnMessageInsert(s, x) ==
    IF Shows(s, x.id) THEN s
    ELSE IF PendingAt(s, x.client) # 0 THEN ReplaceAt(s, PendingAt(s, x.client), x)
    ELSE Append(s, x)

ReplaceConfirmed(s, x) ==
    IF Shows(s, x.id) THEN ReplaceAt(s, ShownAt(s, x.id), x) ELSE s

\* The insert answered with row x, or findByClientMessageId found it.
ReplacePending(s, c, x) ==
    IF PendingAt(s, c) = 0 THEN s
    ELSE IF Shows(s, x.id) THEN RemoveAt(s, PendingAt(s, c))
    ELSE ReplaceAt(s, PendingAt(s, c), x)

\* markFailed, and the way back to "sending" at the start of a retry.
SetFailed(s, c, failed) ==
    IF PendingAt(s, c) = 0 THEN s ELSE ReplaceAt(s, PendingAt(s, c), Pending(c, failed))

\* fetchPage: the newest rows before row `before`, oldest first.
Page(before) == LET lo == IF before > PageSize THEN before - PageSize ELSE 1
                IN  [i \in 1..before - lo |-> Confirmed(lo + i - 1, rows[lo + i - 1].ver)]

\* Messages of the idol on the list, which a fan's device marks as read.
Broadcasts(s) == {s[i].id : i \in {j \in DOMAIN s : s[j].id # 0 /\ s[j].client = Other}}

-----------------------------------------------------------------------------
(* The table and the channel.                                              *)

Announce(e) == events' = IF joined THEN Append(events, e) ELSE events
CanAnnounce == joined => Len(events) < MaxEvents

Stored(c) == \E i \in DOMAIN rows : rows[i].client = c
RowOf(c)  == CHOOSE i \in DOMAIN rows : rows[i].client = c

Insert(c) == /\ Len(rows) < MaxRows /\ CanAnnounce
             /\ rows' = Append(rows, [client |-> c, ver |-> 0])
             /\ Announce([new |-> TRUE, id |-> Len(rows) + 1, ver |-> 0])

\* messages_update_self: a deleted row is not updated again.
Update(id, ver) == /\ rows[id].ver # Deleted /\ CanAnnounce
                   /\ Cardinality({i \in DOMAIN rows : i # id /\ rows[i].ver # 0}) < MaxChanged
                   /\ rows' = [rows EXCEPT ![id].ver = ver]
                   /\ Announce([new |-> FALSE, id |-> id, ver |-> ver])

\* The idol posts; the idol or another device of the fan edits or deletes.
OtherInsert == Insert(Other) /\ UNCHANGED <<joined, stray, items, call, edit, marked, list>>
OtherUpdate == /\ \E id \in DOMAIN rows, ver \in {1, Deleted} : Update(id, ver)
               /\ UNCHANGED <<joined, stray, items, call, edit, marked, list>>

\* The subscription asked for at the end of build() is in place.
Join == /\ view = "ready" /\ ~joined
        /\ joined' = TRUE
        /\ UNCHANGED <<rows, events, stray, items, call, edit, marked, list>>

\* Realtime is best effort: an event may be delivered twice, or lost.
LoseEvent == /\ events # <<>>
             /\ events' = Tail(events)
             /\ UNCHANGED <<rows, joined, stray, items, call, edit, marked, list>>

\* A wrong delivery: the read statistics are left to the next visit.
Receive(marks) ==
    LET e == Head(events)
        x == Confirmed(e.id, e.ver)
    IN  /\ events # <<>>
        /\ \/ events' = Tail(events)
           \/ events' = events
        /\ items' = IF e.new THEN OnMessageInsert(items, x) ELSE ReplaceConfirmed(items, x)
        /\ marked' = IF marks /\ e.new /\ ~Shows(items, e.id) /\ x.client = Other
                     THEN marked \cup {e.id} ELSE marked
        /\ UNCHANGED <<rows, joined, stray, call, edit, list>>

DeliverUnmarked == Receive(FALSE)

\* _onMessageInsert and _onMessageUpdate.
Deliver == Receive(TRUE)

-----------------------------------------------------------------------------
(* Opening the room and scrolling up.                                      *)

\* build(): what the list held meanwhile is overwritten.
Build == /\ view = "loading"
         /\ view' = "ready"
         /\ items' = Page(Len(rows) + 1)
         /\ hasMore' = (Len(items') >= PageSize)
         /\ marked' = Broadcasts(items')
         /\ first' = [lo |-> Len(rows) + 1 - Len(items'), hi |-> Len(rows)]
         /\ UNCHANGED <<server, captured, call, edit>>

\* loadMore up to its fetch.  _loadingMore keeps a second one from starting.
LoadMore == /\ view = "ready" /\ hasMore /\ captured = <<>>
            /\ \E i \in DOMAIN items : items[i].id # 0
            /\ captured' = items
            /\ UNCHANGED <<server, view, items, hasMore, call, edit, marked, first>>

\* A wrong cursor: `created_at <= before`.
OldestConfirmedInclusive(s) == s[SelectInSeq(s, LAMBDA x : x.id # 0)].id + 1

OldestConfirmed(s) == s[SelectInSeq(s, LAMBDA x : x.id # 0)].id

\* The fetched rows go in front of the captured list.
LoadMoreAnswered ==
    /\ captured # <<>>
    /\ LET older == Page(OldestConfirmed(captured))
       IN  /\ hasMore' = (Len(older) >= PageSize)
           /\ items' = IF older = <<>> THEN items ELSE older \o captured
    /\ captured' = <<>>
    /\ UNCHANGED <<server, view, call, edit, marked, first>>

LoadMoreFailed == /\ captured # <<>>
                  /\ captured' = <<>>
                  /\ UNCHANGED <<server, view, items, hasMore, call, edit, marked, first>>
-----------------------------------------------------------------------------
(* Sending and retrying.                                                   *)

SetCall(k, v) == call' = [call EXCEPT ![k] = v]
Phase(k, p)   == SetCall(k, [call[k] EXCEPT !.phase = p])

\* The optimistic item.  The input sends one text at a time.
SendText(k, c) ==
    /\ call[k] = NoCall
    /\ \A j \in Calls : call[j] # NoCall => call[j].retry
    /\ c \notin stray /\ ~Stored(c) /\ PendingAt(items, c) = 0
    /\ \A j \in Calls : call[j].client # c
    /\ items' = Append(items, Pending(c, FALSE))
    /\ SetCall(k, [client |-> c, retry |-> FALSE, phase |-> "posting"])
    /\ UNCHANGED <<server, edit, marked, list>>

\* The fan taps an item shown as failed; the same client id is sent again.
Retry(k, c) ==
    /\ call[k] = NoCall
    /\ PendingAt(items, c) # 0 /\ items[PendingAt(items, c)].failed
    /\ items' = SetFailed(items, c, FALSE)
    /\ SetCall(k, [client |-> c, retry |-> TRUE, phase |-> "posting"])
    /\ UNCHANGED <<server, edit, marked, list>>

InsertUnless(k, duplicate) ==
    /\ call[k].phase = "posting"
    /\ \/ ~duplicate /\ Insert(call[k].client) /\ Phase(k, "stored")
       \/ duplicate /\ Phase(k, "refused") /\ UNCHANGED <<rows, events>>
    /\ UNCHANGED <<joined, stray, items, edit, marked, list>>

\* A wrong table: without the unique index idx_messages_idempotency.
ServerInsertsAgain(k) == InsertUnless(k, FALSE)

\* The INSERT reaches the table, which knows (sender_id, client_message_id).
ServerInserts(k) == InsertUnless(k, Stored(call[k].client))

\* The policies refuse the row, or the request never arrives.
ServerRefuses(k) == /\ call[k].phase = "posting" /\ Phase(k, "refused")
                    /\ UNCHANGED <<server, items, edit, marked, list>>

\* The device gives the request up, but it is still on its way.
RequestDelayed(k) == /\ call[k].phase = "posting" /\ Phase(k, "refused")
                     /\ stray' = stray \cup {call[k].client}
                     /\ UNCHANGED <<rows, joined, events, items, edit, marked, list>>

StrayArrives(c) == /\ c \in stray /\ stray' = stray \ {c}
                   /\ IF Stored(c) THEN UNCHANGED <<rows, events>> ELSE Insert(c)
                   /\ UNCHANGED <<joined, items, call, edit, marked, list>>

\* The row is stored and its answer is lost.
AnswerLost(k) == /\ call[k].phase = "stored" /\ Phase(k, "refused")
                 /\ UNCHANGED <<server, items, edit, marked, list>>

\* The answer carries the row as it was inserted.
SendAnswered(k) ==
    LET c == call[k].client
    IN  /\ call[k].phase = "stored"
        /\ items' = ReplacePending(items, c, Confirmed(RowOf(c), 0))
        /\ SetCall(k, NoCall)
        /\ UNCHANGED <<server, edit, marked, list>>

\* A first send is marked as failed, a retry looks for the row.
SendFailed(k) ==
    LET c == call[k].client
    IN  /\ call[k].phase = "refused"
        /\ IF call[k].retry THEN Phase(k, "asking") /\ UNCHANGED items
           ELSE SetCall(k, NoCall) /\ items' = SetFailed(items, c, TRUE)
        /\ UNCHANGED <<server, edit, marked, list>>

FindAnswered(k) ==
    LET c == call[k].client
    IN  /\ call[k].phase = "asking"
        /\ items' = IF Stored(c)
                    THEN ReplacePending(items, c, Confirmed(RowOf(c), rows[RowOf(c)].ver))
                    ELSE SetFailed(items, c, TRUE)
        /\ SetCall(k, NoCall)
        /\ UNCHANGED <<server, edit, marked, list>>

\* A wrong end: the call is not given up.
FindFailedKeepingCall(k) == /\ call[k].phase = "asking" /\ Phase(k, "idle")
                            /\ UNCHANGED <<server, items, edit, marked, list>>

\* findByClientMessageId throws inside the catch: retry ends there.
FindFailed(k) == /\ call[k].phase = "asking" /\ SetCall(k, NoCall)
                 /\ UNCHANGED <<server, items, edit, marked, list>>

-----------------------------------------------------------------------------
(* Editing and deleting an own message.                                    *)

EditMessage(id, ver) == /\ edit = NoEdit /\ Shows(items, id) /\ rows[id].client \in Clients
                        /\ Update(id, ver)
                        /\ edit' = [id |-> id, ver |-> ver]
                        /\ UNCHANGED <<joined, stray, items, call, marked, list>>

EditAnswered == /\ edit # NoEdit
                /\ items' = ReplaceConfirmed(items, Confirmed(edit.id, edit.ver))
                /\ edit' = NoEdit
                /\ UNCHANGED <<server, call, marked, list>>

EditAnswerLost == /\ edit # NoEdit /\ edit' = NoEdit
                  /\ UNCHANGED <<server, items, call, marked, list>>

-----------------------------------------------------------------------------

Server == OtherInsert \/ OtherUpdate \/ (\E c \in Clients : StrayArrives(c))
Channel == Join \/ LoseEvent \/ Deliver
Scroll == Build \/ LoadMore \/ LoadMoreAnswered \/ LoadMoreFailed
Edit == \/ \E id \in DOMAIN rows, ver \in {1, Deleted} : EditMessage(id, ver)
        \/ EditAnswered
        \/ EditAnswerLost
Sending(k) == \/ \E c \in Clients : SendText(k, c) \/ Retry(k, c)
              \/ ServerInserts(k) \/ ServerRefuses(k) \/ RequestDelayed(k)
              \/ AnswerLost(k) \/ SendAnswered(k) \/ SendFailed(k)
              \/ FindAnswered(k) \/ FindFailed(k)

Next == Server \/ Channel \/ Scroll \/ Edit \/ (\E k \in Calls : Sending(k))

Spec == Init /\ [][Next]_vars

-----------------------------------------------------------------------------
(* Properties                                                              *)

\* One message, one row: however often a send is retried, and however late a
\* request given up by the device arrives, the table has the message once.
PostedOnce == \A i, j \in DOMAIN rows :
                 rows[i].client \in Clients /\ rows[i].client = rows[j].client => i = j

\* No message is on the screen twice, neither as two rows nor as "sending" next
\* to its own row, in whatever order answer, repeated events and pages arrive.
ShownOnce == \A i, j \in DOMAIN items :
                i # j => /\ items[i].id # 0 => items[i].id # items[j].id
                         /\ items[i].client \in Clients => items[i].client # items[j].client

\* The pages abut: the list begins with every row from the oldest one shown to the
\* newest of the first page, in the order of the table, and none of these rows
\* comes again after them.
HistoryIsContiguous ==
    view = "ready" =>
      \E n \in 0..first.hi :
         /\ first.hi + 1 - first.lo <= n /\ n <= Len(items)
         /\ \A i \in 1..n : items[i].id = first.hi - n + i
         /\ \A i \in n+1..Len(items) : items[i].id \notin 1..first.hi

\* Read statistics: every message of the idol shown from the first page on was
\* marked as read.
BroadcastsAreMarked ==
    view = "ready" => \A id \in Broadcasts(items) : id >= first.lo => id \in marked

\* chat_item.dart: a PendingItem is "INSERT in flight, or failed".
PendingIsInFlightOrFailed ==
    \A i \in DOMAIN items :
        items[i].id = 0 /\ ~items[i].failed =>
            \E k \in Calls : call[k].client = items[i].client
=============================================================================
