--------------------------- MODULE ChatRoomProofs ---------------------------
(***************************************************************************)
(* The invariants of ChatRoom, for every page size, room size and number   *)
(* of client ids and concurrent calls.                                     *)
(*                                                                         *)
(* That a message is posted once depends only on the table and on who      *)
(* inserts into it: TableInv keeps the types of these and nothing of the   *)
(* screen.  What is said of the screen adds the facts of Inv, which speak  *)
(* of the list that is shown and of the one loadMore captured alike.       *)
(***************************************************************************)
EXTENDS ChatRoom, SequenceTheorems, TLAPS

-----------------------------------------------------------------------------
(* The table.                                                              *)

TableInv == /\ rows \in Seq(Row)
            /\ call \in [Calls -> Call]
            /\ stray \subseteq Clients
            /\ PostedOnce

LEMMA InitEstablishesTable == Init => TableInv
BY ChatRoomConstants DEF Init, TableInv, Row, Versions, Call, PostedOnce

\* An insert of a client id the table does not know, or of somebody else.
LEMMA InsertPostsOnce ==
    ASSUME rows \in Seq(Row), PostedOnce, NEW c \in Clients \cup {Other},
           c \notin Clients \/ ~Stored(c), Insert(c)
    PROVE  rows' \in Seq(Row) /\ PostedOnce'
<1> DEFINE new == [client |-> c, ver |-> 0]
<1>1. rows' = Append(rows, new) /\ new \in Row
  BY DEF Insert, Row, Versions
<1>2. rows' \in Seq(Row) /\ Len(rows') = Len(rows) + 1
  BY <1>1
<1>3. \A i \in 1..Len(rows) : rows'[i] = rows[i]
  BY <1>1
<1>4. rows'[Len(rows) + 1].client = c
  BY <1>1
<1> QED
  BY <1>2, <1>3, <1>4 DEF PostedOnce, Stored

\* An edit or deletion leaves the client ids alone.
LEMMA UpdatePostsOnce ==
    ASSUME rows \in Seq(Row), PostedOnce, NEW id \in DOMAIN rows, NEW ver \in {1, Deleted},
           Update(id, ver)
    PROVE  rows' \in Seq(Row) /\ PostedOnce'
<1>1. rows' = [rows EXCEPT ![id].ver = ver]
  BY DEF Update
<1>2. rows[id] \in Row
  OBVIOUS
<1>3. [rows[id] EXCEPT !.ver = ver] \in Row
  BY <1>2 DEF Row, Versions, Deleted
<1>4. rows' \in Seq(Row) /\ DOMAIN rows' = DOMAIN rows
  BY <1>1, <1>3
<1>5. \A i \in DOMAIN rows : rows'[i].client = rows[i].client
  BY <1>1, <1>2 DEF Row
<1> QED
  BY <1>4, <1>5 DEF PostedOnce

\* A step that leaves the table alone and keeps the types of the callers.
LEMMA TableUnchanged ==
    ASSUME TableInv, rows' = rows, call' \in [Calls -> Call], stray' \subseteq Clients
    PROVE  TableInv'
BY DEF TableInv, PostedOnce

LEMMA ServerKeepsTable == TableInv /\ Server => TableInv'
<1> SUFFICES ASSUME TableInv, Server PROVE TableInv'
  OBVIOUS
<1> USE ChatRoomConstants DEF TableInv
<1>1. CASE OtherInsert
  BY <1>1, InsertPostsOnce DEF OtherInsert
<1>2. CASE OtherUpdate
  BY <1>2, UpdatePostsOnce DEF OtherUpdate
<1>3. ASSUME NEW c \in Clients, StrayArrives(c) PROVE TableInv'
  <2>1. CASE Stored(c)
    BY <1>3, <2>1, TableUnchanged DEF StrayArrives
  <2>2. CASE ~Stored(c)
    BY <1>3, <2>2, InsertPostsOnce DEF StrayArrives
  <2> QED
    BY <2>1, <2>2
<1> QED
  BY <1>1, <1>2, <1>3 DEF Server

LEMMA ScreenKeepsTable == TableInv /\ (Channel \/ Scroll) => TableInv'
<1> SUFFICES ASSUME TableInv, Channel \/ Scroll PROVE TableInv'
  OBVIOUS
<1>1. rows' = rows /\ call' = call /\ stray' = stray
  BY DEF Channel, Scroll, Join, LoseEvent, Deliver, Receive, Build, LoadMore,
         LoadMoreAnswered, LoadMoreFailed, server, list
<1> QED
  BY <1>1, TableUnchanged DEF TableInv

LEMMA EditKeepsTable == TableInv /\ Edit => TableInv'
<1> SUFFICES ASSUME TableInv, Edit PROVE TableInv'
  OBVIOUS
<1>1. ASSUME NEW id \in DOMAIN rows, NEW ver \in {1, Deleted}, EditMessage(id, ver)
      PROVE  TableInv'
  BY <1>1, UpdatePostsOnce DEF EditMessage, TableInv
<1>2. CASE EditAnswered \/ EditAnswerLost
  <2>1. rows' = rows /\ call' = call /\ stray' = stray
    BY <1>2 DEF EditAnswered, EditAnswerLost, server
  <2> QED
    BY <2>1, TableUnchanged DEF TableInv
<1> QED
  BY <1>1, <1>2 DEF Edit

\* The INSERT of a send or a retry: only an unknown client id is stored.
LEMMA ServerInsertsKeepsTable ==
    ASSUME TableInv, NEW k \in Calls, ServerInserts(k) PROVE TableInv'
<1> USE DEF TableInv
<1>1. call[k] \in Call /\ call[k].client \in Clients \cup {Other}
  BY DEF Call, NoCall
<1>2. call[k].phase = "posting" /\ stray' = stray
  BY DEF ServerInserts, InsertUnless
<1>3. call[k] \in [client : Clients, retry : BOOLEAN,
                   phase : {"posting", "stored", "refused", "asking"}]
  BY <1>1, <1>2 DEF Call, NoCall
<1>4. CASE ~Stored(call[k].client) /\ Insert(call[k].client) /\ Phase(k, "stored")
  <2>1. [call[k] EXCEPT !.phase = "stored"] \in Call
    BY <1>3 DEF Call
  <2> QED
    BY <1>1, <1>2, <1>4, <2>1, InsertPostsOnce DEF Phase, SetCall
<1>5. CASE Phase(k, "refused") /\ rows' = rows
  <2>1. [call[k] EXCEPT !.phase = "refused"] \in Call
    BY <1>3 DEF Call
  <2> QED
    BY <1>2, <1>5, <2>1, TableUnchanged DEF Phase, SetCall
<1> QED
  BY <1>4, <1>5 DEF ServerInserts, InsertUnless

LEMMA SendingKeepsTable == ASSUME TableInv, NEW k \in Calls, Sending(k) PROVE TableInv'
<1> USE DEF TableInv
<1>1. CASE ServerInserts(k)
  BY <1>1, ServerInsertsKeepsTable
<1>2. ASSUME NEW c \in Clients, SendText(k, c) \/ Retry(k, c) PROVE TableInv'
  <2>1. rows' = rows /\ stray' = stray
    BY <1>2 DEF SendText, Retry, server
  <2>2. /\ [client |-> c, retry |-> FALSE, phase |-> "posting"] \in Call
        /\ [client |-> c, retry |-> TRUE, phase |-> "posting"] \in Call
    BY DEF Call
  <2>3. call' \in [Calls -> Call]
    BY <1>2, <2>2 DEF SendText, Retry, SetCall
  <2> QED
    BY <2>1, <2>3, TableUnchanged
<1>3. CASE SendAnswered(k) \/ FindAnswered(k) \/ FindFailed(k)
  <2>1. rows' = rows /\ stray' = stray
    BY <1>3 DEF SendAnswered, FindAnswered, FindFailed, server
  <2>2. call' \in [Calls -> Call]
    BY <1>3 DEF SendAnswered, FindAnswered, FindFailed, SetCall, Call
  <2> QED
    BY <2>1, <2>2, TableUnchanged
<1>4. CASE ServerRefuses(k) \/ RequestDelayed(k) \/ AnswerLost(k) \/ SendFailed(k)
  <2>1. call[k].phase \in {"posting", "stored", "refused"}
    BY <1>4 DEF ServerRefuses, RequestDelayed, AnswerLost, SendFailed
  <2>2. call[k] \in [client : Clients, retry : BOOLEAN,
                     phase : {"posting", "stored", "refused", "asking"}]
    BY <2>1 DEF Call, NoCall
  <2>3. /\ [call[k] EXCEPT !.phase = "refused"] \in Call
        /\ [call[k] EXCEPT !.phase = "asking"] \in Call
        /\ NoCall \in Call
    BY <2>2 DEF Call
  <2>4. rows' = rows
    BY <1>4 DEF ServerRefuses, RequestDelayed, AnswerLost, SendFailed, server
  <2>5. stray' \subseteq Clients
    BY <1>4, <2>2 DEF ServerRefuses, RequestDelayed, AnswerLost, SendFailed, server
  <2>6. call' \in [Calls -> Call]
    BY <1>4, <2>3
    DEF ServerRefuses, RequestDelayed, AnswerLost, SendFailed, Phase, SetCall
  <2> QED
    BY <2>4, <2>5, <2>6, TableUnchanged
<1> QED
  BY <1>1, <1>2, <1>3, <1>4 DEF Sending

LEMMA NextKeepsTable == TableInv /\ [Next]_vars => TableInv'
<1> SUFFICES ASSUME TableInv, [Next]_vars PROVE TableInv'
  OBVIOUS
<1>1. CASE Server
  BY <1>1, ServerKeepsTable
<1>2. CASE Channel \/ Scroll
  BY <1>2, ScreenKeepsTable
<1>3. CASE Edit
  BY <1>3, EditKeepsTable
<1>4. ASSUME NEW k \in Calls, Sending(k) PROVE TableInv'
  BY <1>4, SendingKeepsTable
<1>5. CASE UNCHANGED vars
  BY <1>5, TableUnchanged DEF vars, TableInv
<1> QED
  BY <1>1, <1>2, <1>3, <1>4, <1>5 DEF Next

\* However often a send is retried and however late a request arrives, the table
\* has a message of this device once.
THEOREM SendsPostOnce == Spec => []PostedOnce
<1>1. TableInv => PostedOnce
  BY DEF TableInv
<1> QED
  BY <1>1, InitEstablishesTable, NextKeepsTable, PTL DEF Spec
-----------------------------------------------------------------------------
(* Lists.                                                                  *)

\* An item x fits a table rs whose first page ended at row hi: a row on the screen is
\* one of the table, and what is still to be sent is not among those of the first page.
Fits(x, rs, hi) ==
    /\ x \in Item
    /\ x.id = 0 => x.client \in Clients /\ \A p \in 1..hi : rs[p].client # x.client
    /\ x.id # 0 => x.id \in 1..Len(rs) /\ x.client = rs[x.id].client

Unique(s) == \A i, j \in DOMAIN s :
                i # j => /\ s[i].id # 0 => s[i].id # s[j].id
                         /\ s[i].client \in Clients => s[i].client # s[j].client

\* The broadcasts from row lo on are among the rows ms.
Counted(s, lo, ms) ==
    \A i \in DOMAIN s : s[i].id # 0 /\ s[i].client = Other /\ s[i].id >= lo => s[i].id \in ms

\* s begins with n rows, the last of them row hi.
BeginsWith(s, n, hi) == /\ n <= Len(s)
                        /\ \A i \in 1..n : s[i].id = hi - n + i
                        /\ \A i \in n+1..Len(s) : s[i].id \notin 1..hi

Begins(s, lo, hi) == \E n \in 0..hi : hi + 1 - lo <= n /\ BeginsWith(s, n, hi)

ListInv(s, rs, lo, hi, ms) == /\ s \in Seq(Item)
                              /\ \A i \in DOMAIN s : Fits(s[i], rs, hi)
                              /\ Unique(s)
                              /\ Counted(s, lo, ms)

\* A message of the device has one place at most where it is "sending".
LEMMA PendingAtFacts ==
    ASSUME NEW s \in Seq(Item), Unique(s), NEW c \in Clients
    PROVE  \/ PendingAt(s, c) = 0 /\ \A i \in DOMAIN s : ~IsPending(s[i], c)
           \/ /\ PendingAt(s, c) \in DOMAIN s /\ PendingAt(s, c) # 0
              /\ IsPending(s[PendingAt(s, c)], c)
<1> DEFINE I == {i \in 1..Len(s) : IsPending(s[i], c)}
<1>1. PendingAt(s, c) = IF I # {} THEN Min(I) ELSE 0
  BY DEF PendingAt, SelectInSeq
<1>2. CASE I = {}
  BY <1>1, <1>2
<1>3. CASE I # {}
  <2>1. PICK p \in I : TRUE
    BY <1>3
  <2>2. \A q \in I : q = p
    BY <2>1 DEF Unique, IsPending
  <2>3. \E x \in I : \A y \in I : x <= y
    BY <2>1, <2>2
  <2>4. Min(I) \in I
    BY <2>3 DEF Min
  <2> QED
    BY <1>1, <1>3, <2>4
<1> QED
  BY <1>2, <1>3

\* A row has one place at most.
LEMMA ShownAtFacts ==
    ASSUME NEW s \in Seq(Item), Unique(s), NEW id \in Nat \ {0}
    PROVE  /\ Shows(s, id) <=> \E i \in DOMAIN s : s[i].id = id
           /\ Shows(s, id) => ShownAt(s, id) \in DOMAIN s /\ s[ShownAt(s, id)].id = id
<1> DEFINE I == {i \in 1..Len(s) : s[i].id = id}
<1>1. ShownAt(s, id) = IF I # {} THEN Min(I) ELSE 0
  BY DEF ShownAt, SelectInSeq
<1>2. CASE I = {}
  BY <1>1, <1>2 DEF Shows
<1>3. CASE I # {}
  <2>1. PICK p \in I : TRUE
    BY <1>3
  <2>2. \A q \in I : q = p
    BY <2>1 DEF Unique
  <2>3. \E x \in I : \A y \in I : x <= y
    BY <2>1, <2>2
  <2>4. Min(I) \in I
    BY <2>3 DEF Min
  <2> QED
    BY <1>1, <1>3, <2>4 DEF Shows
<1> QED
  BY <1>2, <1>3

\* Somebody else's messages are never "sending" here.
LEMMA NothingPendingOfOthers ==
    ASSUME NEW s \in Seq(Item), NEW rs, NEW hi, \A i \in DOMAIN s : Fits(s[i], rs, hi)
    PROVE  PendingAt(s, Other) = 0
BY ChatRoomConstants DEF PendingAt, SelectInSeq, IsPending, Fits

\* The table grows, its rows change versions, more is marked as read.
LEMMA ListOutlives ==
    ASSUME NEW s, NEW rs \in Seq(Row), NEW rs2 \in Seq(Row), NEW lo, NEW hi \in Nat,
           NEW ms, NEW ms2, ListInv(s, rs, lo, hi, ms),
           hi <= Len(rs), Len(rs) <= Len(rs2),
           \A i \in DOMAIN rs : rs2[i].client = rs[i].client, ms \subseteq ms2
    PROVE  ListInv(s, rs2, lo, hi, ms2)
<1>1. \A i \in DOMAIN s : Fits(s[i], rs2, hi)
  BY DEF ListInv, Fits
<1> QED
  BY <1>1 DEF ListInv, Counted

\* An item changes its version, or whether it failed.
LEMMA ReplaceSame ==
    ASSUME NEW s, NEW rs, NEW lo, NEW hi \in Nat, NEW ms, ListInv(s, rs, lo, hi, ms),
           NEW p \in DOMAIN s, NEW x, Fits(x, rs, hi), x.id = s[p].id, x.client = s[p].client
    PROVE  /\ ListInv(ReplaceAt(s, p, x), rs, lo, hi, ms)
           /\ Begins(s, lo, hi) => Begins(ReplaceAt(s, p, x), lo, hi)
<1> DEFINE t == ReplaceAt(s, p, x)
<1>1. /\ t \in Seq(Item) /\ Len(t) = Len(s) /\ DOMAIN t = DOMAIN s /\ DOMAIN s = 1..Len(s)
      /\ Len(s) \in Nat /\ t[p] = x /\ \A i \in DOMAIN s : i # p => t[i] = s[i]
  BY DEF ReplaceAt, ListInv, Fits
<1>2. \A i \in DOMAIN s : t[i].id = s[i].id /\ t[i].client = s[i].client
  BY <1>1
<1> HIDE DEF t
<1>3. ListInv(t, rs, lo, hi, ms)
  <2>1. \A i \in DOMAIN t : Fits(t[i], rs, hi)
    BY <1>1 DEF ListInv
  <2>2. Unique(t)
    <3>1. Unique(s) /\ DOMAIN t = DOMAIN s
      BY <1>1 DEF ListInv
    <3> QED
      BY <1>2, <3>1 DEF Unique
  <2>3. Counted(t, lo, ms)
    <3>1. Counted(s, lo, ms) /\ DOMAIN t = DOMAIN s
      BY <1>1 DEF ListInv
    <3> QED
      BY <1>2, <3>1 DEF Counted
  <2> QED
    BY <1>1, <2>1, <2>2, <2>3 DEF ListInv
<1>4. ASSUME Begins(s, lo, hi) PROVE Begins(t, lo, hi)
  <2>1. PICK n \in 0..hi : hi + 1 - lo <= n /\ BeginsWith(s, n, hi)
    BY <1>4 DEF Begins
  <2>2. Len(t) = Len(s) /\ n \in Nat /\ Len(s) \in Nat /\ \A i \in 1..Len(s) : t[i].id = s[i].id
    BY <1>1, <1>2
  <2>3. \A i \in n+1..Len(s) : i \in 1..Len(s)
    BY <2>2
  <2>4. \A i \in n+1..Len(t) : t[i].id \notin 1..hi
    BY <2>1, <2>2, <2>3 DEF BeginsWith
  <2>5. \A i \in 1..n : t[i].id = hi - n + i
    <3>1. n <= Len(s) /\ \A i \in 1..n : s[i].id = hi - n + i
      BY <2>1 DEF BeginsWith
    <3>2. \A i \in 1..n : i \in 1..Len(s)
      BY <2>2, <3>1
    <3> QED
      BY <2>2, <3>1, <3>2
  <2>6. BeginsWith(t, n, hi)
    BY <2>1, <2>2, <2>4, <2>5 DEF BeginsWith
  <2> QED
    BY <2>1, <2>6 DEF Begins
<1> QED
  BY <1>3, <1>4 DEF t

\* The row of an own message takes the place where it was "sending".
LEMMA ReplaceAnswered ==
    ASSUME NEW s, NEW rs, NEW lo, NEW hi \in Nat, NEW ms, ListInv(s, rs, lo, hi, ms),
           NEW p \in DOMAIN s, NEW x, Fits(x, rs, hi), IsPending(s[p], x.client), x.id # 0,
           x.client \in Clients, \A i \in DOMAIN s : s[i].id # x.id
    PROVE  /\ ListInv(ReplaceAt(s, p, x), rs, lo, hi, ms)
           /\ Begins(s, lo, hi) => Begins(ReplaceAt(s, p, x), lo, hi)
<1> DEFINE t == ReplaceAt(s, p, x)
<1>1. /\ t \in Seq(Item) /\ Len(t) = Len(s) /\ DOMAIN t = DOMAIN s /\ DOMAIN s = 1..Len(s)
      /\ Len(s) \in Nat /\ t[p] = x /\ \A i \in DOMAIN s : i # p => t[i] = s[i]
  BY DEF ReplaceAt, ListInv, Fits
<1>2. x.id \in 1..Len(rs) /\ x.id \notin 1..hi /\ s[p].id = 0 /\ s[p].client = x.client
  BY DEF ListInv, Fits, IsPending
<1> HIDE DEF t
<1>3. ListInv(t, rs, lo, hi, ms)
  <2>1. \A i \in DOMAIN t : Fits(t[i], rs, hi)
    BY <1>1 DEF ListInv
  <2>2. Unique(t)
    BY <1>1, <1>2 DEF ListInv, Unique
  <2>3. Counted(t, lo, ms)
    BY <1>1, <1>2, ChatRoomConstants DEF ListInv, Counted
  <2> QED
    BY <1>1, <2>1, <2>2, <2>3 DEF ListInv
<1>4. ASSUME Begins(s, lo, hi) PROVE Begins(t, lo, hi)
  <2>1. PICK n \in 0..hi : hi + 1 - lo <= n /\ BeginsWith(s, n, hi)
    BY <1>4 DEF Begins
  <2>2. p \notin 1..n
    BY <1>2, <2>1 DEF BeginsWith
  <2>3. \A i \in 1..n : t[i].id = hi - n + i
    <3> SUFFICES ASSUME NEW i \in 1..n PROVE t[i].id = hi - n + i
      OBVIOUS
    <3>1. s[i].id = hi - n + i /\ n <= Len(s)
      BY <2>1 DEF BeginsWith
    <3>2. i \in DOMAIN s /\ i # p
      BY <1>1, <2>2, <3>1
    <3> QED
      BY <1>1, <3>1, <3>2
  <2>4. \A i \in n+1..Len(t) : t[i].id \notin 1..hi
    <3> SUFFICES ASSUME NEW i \in n+1..Len(s) PROVE t[i].id \notin 1..hi
      BY <1>1
    <3>1. i \in DOMAIN s /\ s[i].id \notin 1..hi
      BY <1>1, <2>1 DEF BeginsWith
    <3> QED
      BY <1>1, <1>2, <3>1
  <2>5. BeginsWith(t, n, hi)
    BY <1>1, <2>1, <2>3, <2>4 DEF BeginsWith
  <2> QED
    BY <2>1, <2>5 DEF Begins
<1> QED
  BY <1>3, <1>4 DEF t
\* A new item goes to the end.
LEMMA AppendItem ==
    ASSUME NEW s, NEW rs, NEW lo, NEW hi \in Nat, NEW ms, ListInv(s, rs, lo, hi, ms),
           NEW x, Fits(x, rs, hi), x.id \notin 1..hi,
           \A i \in DOMAIN s : /\ x.id # 0 => s[i].id # x.id
                               /\ x.client \in Clients => s[i].client # x.client,
           x.id # 0 /\ x.client = Other /\ x.id >= lo => x.id \in ms
    PROVE  /\ ListInv(Append(s, x), rs, lo, hi, ms)
           /\ Begins(s, lo, hi) => Begins(Append(s, x), lo, hi)
<1> DEFINE t == Append(s, x)
<1>1. /\ t \in Seq(Item) /\ DOMAIN s = 1..Len(s) /\ DOMAIN t = 1..Len(s) + 1
      /\ Len(s) \in Nat /\ Len(t) = Len(s) + 1
      /\ t[Len(s) + 1] = x /\ \A i \in DOMAIN s : t[i] = s[i]
  BY DEF ListInv, Fits
<1> HIDE DEF t
<1>2. \A i \in DOMAIN t : \/ i = Len(s) + 1 /\ t[i] = x /\ i \notin DOMAIN s
                          \/ i \in DOMAIN s /\ t[i] = s[i]
  <2> SUFFICES ASSUME NEW i \in DOMAIN t, i \notin DOMAIN s PROVE i = Len(s) + 1
    BY <1>1
  <2> QED
    BY <1>1
<1>3. ListInv(t, rs, lo, hi, ms)
  <2>1. \A i \in DOMAIN t : Fits(t[i], rs, hi)
    BY <1>2 DEF ListInv
  <2>2. Unique(t)
    <3> SUFFICES ASSUME NEW i \in DOMAIN t, NEW j \in DOMAIN t, i # j
                 PROVE  /\ t[i].id # 0 => t[i].id # t[j].id
                        /\ t[i].client \in Clients => t[i].client # t[j].client
      BY DEF Unique
    <3> QED
      BY <1>2 DEF ListInv, Unique
  <2>3. Counted(t, lo, ms)
    BY <1>2 DEF ListInv, Counted
  <2> QED
    BY <1>1, <2>1, <2>2, <2>3 DEF ListInv
<1>4. ASSUME Begins(s, lo, hi) PROVE Begins(t, lo, hi)
  <2>1. PICK n \in 0..hi : hi + 1 - lo <= n /\ BeginsWith(s, n, hi)
    BY <1>4 DEF Begins
  <2>2. BeginsWith(t, n, hi)
    <3>1. n <= Len(t) /\ \A i \in 1..n : t[i].id = hi - n + i
      BY <1>1, <2>1 DEF BeginsWith
    <3>2. ASSUME NEW i \in n+1..Len(t) PROVE t[i].id \notin 1..hi
      <4>1. i \in DOMAIN t /\ (i \in DOMAIN s => i \in n+1..Len(s))
        BY <1>1
      <4> QED
        BY <1>2, <2>1, <4>1 DEF BeginsWith
    <3> QED
      BY <3>1, <3>2 DEF BeginsWith
  <2> QED
    BY <2>1, <2>2 DEF Begins
<1> QED
  BY <1>3, <1>4 DEF t

\* A function on 1..m is a sequence of m elements.
LEMMA IsASeqOf ==
    ASSUME NEW S, NEW m \in Nat, NEW q \in [1..m -> S]
    PROVE  q \in Seq(S) /\ Len(q) = m
OBVIOUS

\* Where the elements of a concatenation come from.
LEMMA ConcatParts ==
    ASSUME NEW S, NEW a \in Seq(S), NEW s \in Seq(S)
    PROVE  /\ a \o s \in Seq(S) /\ Len(a \o s) = Len(a) + Len(s)
           /\ DOMAIN (a \o s) = 1..Len(a) + Len(s)
           /\ \A i \in 1..Len(a) : (a \o s)[i] = a[i]
           /\ \A i \in 1..Len(s) : (a \o s)[Len(a) + i] = s[i]
<1>1. Len(a) \in Nat /\ Len(s) \in Nat
  OBVIOUS
<1>2. /\ a \o s \in Seq(S) /\ Len(a \o s) = Len(a) + Len(s)
      /\ \A i \in 1..Len(a) + Len(s) :
            (a \o s)[i] = IF i <= Len(a) THEN a[i] ELSE s[i - Len(a)]
  BY ConcatProperties
<1> DEFINE t == a \o s
<1> HIDE DEF t
<1>3. ASSUME NEW i \in 1..Len(s) PROVE t[Len(a) + i] = s[i]
  <2>1. Len(a) + i \in 1..Len(a) + Len(s) /\ ~(Len(a) + i <= Len(a)) /\ Len(a) + i - Len(a) = i
    BY <1>1
  <2> QED
    BY <1>2, <2>1 DEF t
<1> QED
  BY <1>1, <1>2, <1>3 DEF t

\* A page is the rows before a row, in their order.
LEMMA PageFacts ==
    ASSUME rows \in Seq(Row), Len(rows) <= MaxRows, NEW b \in 1..Len(rows) + 1
    PROVE  \E m \in 0..b - 1 :
              /\ Page(b) \in Seq(Item) /\ Len(Page(b)) = m /\ m <= PageSize
              /\ b > 1 => m > 0
              /\ \A i \in 1..m : /\ Page(b)[i].id = b - 1 - m + i
                                 /\ \A hi : Fits(Page(b)[i], rows, hi)
<1> DEFINE lo == IF b > PageSize THEN b - PageSize ELSE 1
           m  == b - lo
<1>1. /\ Page(b) = [i \in 1..m |-> Confirmed(lo + i - 1, rows[lo + i - 1].ver)]
      /\ lo \in 1..b /\ m \in 0..b - 1 /\ m <= PageSize /\ (b > 1 => m > 0)
      /\ lo = b - m
  BY ChatRoomConstants DEF Page
<1> HIDE DEF lo, m
<1>2. ASSUME NEW i \in 1..m
      PROVE  /\ Page(b)[i] = Confirmed(lo + i - 1, rows[lo + i - 1].ver)
             /\ lo + i - 1 \in 1..Len(rows) /\ lo + i - 1 = b - 1 - m + i
  BY <1>1
<1>3. ASSUME NEW i \in 1..m
      PROVE  /\ Page(b)[i].id = b - 1 - m + i /\ Page(b)[i] \in Item
             /\ \A hi : Fits(Page(b)[i], rows, hi)
  <2>1. rows[lo + i - 1] \in Row
    BY <1>2
  <2> DEFINE y == Page(b)[i]
  <2>2. /\ y = [id |-> lo + i - 1, ver |-> rows[lo + i - 1].ver,
                client |-> rows[lo + i - 1].client, failed |-> FALSE]
        /\ lo + i - 1 \in 1..Len(rows) /\ lo + i - 1 \in 0..MaxRows
    BY <1>2, ChatRoomConstants DEF Confirmed
  <2>3. y \in Item
    BY <2>1, <2>2 DEF Item, Row
  <2>4. y.id = lo + i - 1 /\ y.client = rows[y.id].client
    BY <2>2
  <2>5. \A hi : Fits(y, rows, hi)
    BY <2>2, <2>3, <2>4 DEF Fits
  <2> QED
    BY <1>2, <2>3, <2>4, <2>5
<1>4. Page(b) \in Seq(Item) /\ Len(Page(b)) = m
  <2> DEFINE q == Page(b)
  <2>1. q = [i \in 1..m |-> q[i]] /\ m \in Nat
    BY <1>1
  <2>2. q \in [1..m -> Item]
    BY <1>3, <2>1
  <2> HIDE DEF q
  <2> QED
    BY <2>1, <2>2, IsASeqOf DEF q
<1> QED
  BY <1>1, <1>3, <1>4

\* Two rows on a list are rows of the same own message only if they are one row.
LEMMA RowsOfOneMessage ==
    ASSUME PostedOnce, rows \in Seq(Row), NEW hi, NEW x, NEW y,
           Fits(x, rows, hi), Fits(y, rows, hi), x.id # 0, y.id # 0,
           x.client \in Clients, x.client = y.client
    PROVE  x.id = y.id
BY DEF PostedOnce, Fits

\* The page before the first row of a list goes in front of it.
LEMMA PageInFront ==
    ASSUME TableInv, Len(rows) <= MaxRows, NEW s, NEW lo \in Nat, NEW hi \in Nat, NEW ms,
           ListInv(s, rows, lo, hi, ms), Begins(s, lo, hi), lo <= hi, hi <= Len(rows)
    PROVE  /\ s # <<>> /\ s[1].id \in 1..Len(rows) + 1
           /\ ListInv(Page(s[1].id) \o s, rows, lo, hi, ms)
           /\ Begins(Page(s[1].id) \o s, lo, hi)
<1>1. PICK n \in 0..hi : hi + 1 - lo <= n /\ BeginsWith(s, n, hi)
  BY DEF Begins
<1> DEFINE b == s[1].id
           older == Page(b)
           t == older \o s
<1>2. /\ rows \in Seq(Row) /\ s \in Seq(Item) /\ Len(s) \in Nat /\ DOMAIN s = 1..Len(s)
      /\ Len(rows) \in Nat /\ n >= 1 /\ n <= Len(s) /\ b = hi - n + 1 /\ b \in 1..Len(rows) + 1
      /\ b <= lo
  BY <1>1 DEF BeginsWith, TableInv, ListInv
<1>3. PICK m \in 0..b - 1 :
         /\ older \in Seq(Item) /\ Len(older) = m
         /\ \A i \in 1..m : older[i].id = b - 1 - m + i /\ Fits(older[i], rows, hi)
  <2>1. b \in 1..Len(rows) + 1
    BY <1>2
  <2> HIDE DEF b
  <2> QED
    BY <1>2, <2>1, PageFacts
<1> HIDE DEF b, older
<1>4. /\ t \in Seq(Item) /\ Len(t) = m + Len(s) /\ DOMAIN t = 1..m + Len(s)
      /\ \A i \in 1..m : t[i] = older[i]
      /\ \A i \in 1..Len(s) : t[m + i] = s[i]
  <2>1. /\ t \in Seq(Item) /\ Len(t) = Len(older) + Len(s)
        /\ DOMAIN t = 1..Len(older) + Len(s)
        /\ \A i \in 1..Len(older) : t[i] = older[i]
        /\ \A i \in 1..Len(s) : t[Len(older) + i] = s[i]
    <3>1. s \in Seq(Item) /\ older \in Seq(Item)
      BY <1>2, <1>3
    <3>2. \A a \in Seq(Item) : a \o s \in Seq(Item)
      BY <3>1
    <3>3. t \in Seq(Item)
      BY <3>1, <3>2
    <3>4. DOMAIN t = 1..Len(older) + Len(s)
      BY <3>1
    <3> QED
      BY <3>1, ConcatParts
  <2> HIDE DEF t
  <2> QED
    BY <1>3, <2>1
<1>5. \A i \in DOMAIN t : \/ i \in 1..m /\ t[i] = older[i]
                          \/ i - m \in DOMAIN s /\ t[i] = s[i - m]
  <2> SUFFICES ASSUME NEW i \in DOMAIN t, i \notin 1..m
               PROVE  i - m \in DOMAIN s /\ t[i] = s[i - m]
    BY <1>4
  <2>1. i - m \in 1..Len(s) /\ m + (i - m) = i
    BY <1>2, <1>4
  <2> QED
    BY <1>2, <1>4, <2>1
<1> HIDE DEF t
\* Every row of s is row b or a later one.
<1>6. \A i \in DOMAIN s : s[i].id = 0 \/ s[i].id >= b
  <2> SUFFICES ASSUME NEW i \in DOMAIN s PROVE s[i].id = 0 \/ s[i].id >= b
    OBVIOUS
  <2>1. CASE i \in 1..n
    BY <1>1, <1>2, <2>1 DEF BeginsWith
  <2>2. CASE i \notin 1..n
    <3>1. s[i].id \notin 1..hi /\ s[i] \in Item
      BY <1>1, <1>2, <2>2 DEF BeginsWith
    <3> QED
      BY <1>2, <3>1, ChatRoomConstants DEF Item
  <2> QED
    BY <2>1, <2>2
<1>7. \A i \in 1..m : older[i].id \in 1..b - 1 /\ older[i].id \in 1..hi
  BY <1>2, <1>3
<1>8. \A i \in DOMAIN t : Fits(t[i], rows, hi)
  BY <1>3, <1>5 DEF ListInv
<1>9. \A i \in 1..m : \A j \in DOMAIN s :
         older[i].id # s[j].id /\ (older[i].client \in Clients => older[i].client # s[j].client)
  <2> SUFFICES ASSUME NEW i \in 1..m, NEW j \in DOMAIN s
               PROVE  /\ older[i].id # s[j].id
                      /\ older[i].client \in Clients => older[i].client # s[j].client
    OBVIOUS
  <2>1. older[i].id # s[j].id /\ older[i].id # 0
    BY <1>2, <1>6, <1>7
  <2>2. CASE s[j].id = 0
    <3>1. \A p \in 1..hi : rows[p].client # s[j].client
      BY <2>2 DEF ListInv, Fits
    <3>2. older[i].client = rows[older[i].id].client
      BY <1>3, <2>1 DEF Fits
    <3> QED
      BY <1>7, <2>1, <3>1, <3>2
  <2>3. CASE s[j].id # 0
    BY <1>2, <1>3, <2>1, <2>3, RowsOfOneMessage DEF ListInv, TableInv
  <2> QED
    BY <2>1, <2>2, <2>3
<1>10. Unique(t)
  <2> SUFFICES ASSUME NEW i \in DOMAIN t, NEW j \in DOMAIN t, i # j
               PROVE  /\ t[i].id # 0 => t[i].id # t[j].id
                      /\ t[i].client \in Clients => t[i].client # t[j].client
    BY DEF Unique
  <2>1. CASE i \in 1..m /\ j \in 1..m
    <3>1. t[i] = older[i] /\ t[j] = older[j]
      BY <1>4, <2>1
    <3>4. older[i].id # 0 /\ older[j].id # 0
      BY <1>7, <2>1
    <3>2. older[i].id = b - 1 - m + i /\ older[j].id = b - 1 - m + j
      BY <1>3, <2>1
    <3>3. older[i].id # older[j].id
      BY <1>2, <2>1, <3>2
    <3>5. Fits(older[i], rows, hi) /\ Fits(older[j], rows, hi) /\ PostedOnce /\ rows \in Seq(Row)
      BY <1>2, <1>3, <2>1 DEF TableInv
    <3>6. older[i].client \in Clients => older[i].client # older[j].client
      BY <3>3, <3>4, <3>5, RowsOfOneMessage
    <3> QED
      BY <3>1, <3>3, <3>6
  <2>2. CASE i \in 1..m /\ j \notin 1..m
    BY <1>4, <1>5, <1>9, <2>2
  <2>3. CASE i \notin 1..m /\ j \in 1..m
    BY <1>4, <1>5, <1>9, <2>3
  <2>4. CASE i \notin 1..m /\ j \notin 1..m
    <3>1. /\ i - m \in DOMAIN s /\ t[i] = s[i - m] /\ j - m \in DOMAIN s /\ t[j] = s[j - m]
          /\ i - m # j - m
      BY <1>4, <1>5, <2>4
    <3> QED
      BY <3>1 DEF ListInv, Unique
  <2> QED
    BY <2>1, <2>2, <2>3, <2>4
<1>11. Counted(t, lo, ms)
  <2> SUFFICES ASSUME NEW i \in DOMAIN t, t[i].id # 0, t[i].client = Other, t[i].id >= lo
               PROVE  t[i].id \in ms
    BY DEF Counted
  <2>1. ASSUME i \in 1..m PROVE FALSE
    <3>1. t[i].id \in 1..b - 1
      BY <1>4, <1>7, <2>1
    <3> QED
      BY <1>2, <3>1
  <2> QED
    BY <1>5, <2>1 DEF ListInv, Counted
<1>12. BeginsWith(t, m + n, hi)
  <2>1. m + n <= Len(t)
    BY <1>2, <1>4
  <2>2. ASSUME NEW i \in 1..m + n PROVE t[i].id = hi - (m + n) + i
    <3>1. CASE i \in 1..m
      BY <1>2, <1>3, <1>4, <3>1
    <3>2. CASE i \notin 1..m
      <4>1. i - m \in 1..n /\ m + (i - m) = i
        BY <1>2, <2>2, <3>2
      <4>2. t[i] = s[i - m]
        BY <1>2, <1>4, <4>1
      <4>3. s[i - m].id = hi - n + (i - m)
        BY <1>1, <4>1 DEF BeginsWith
      <4>4. hi - n + (i - m) = hi - (m + n) + i
        BY <1>2, <2>2
      <4> QED
        BY <4>2, <4>3, <4>4
    <3> QED
      BY <3>1, <3>2
  <2>3. ASSUME NEW i \in m + n + 1..Len(t) PROVE t[i].id \notin 1..hi
    <3>1. i - m \in n + 1..Len(s) /\ m + (i - m) = i /\ i - m \in 1..Len(s)
      BY <1>2, <1>4
    <3>2. t[i] = s[i - m]
      BY <1>4, <3>1
    <3> QED
      BY <1>1, <3>1, <3>2 DEF BeginsWith
  <2> QED
    BY <2>1, <2>2, <2>3 DEF BeginsWith
<1>13. Begins(t, lo, hi)
  <2>1. m + n \in 0..hi /\ hi + 1 - lo <= m + n
    BY <1>1, <1>2
  <2> QED
    BY <1>12, <2>1 DEF Begins
<1> QED
  BY <1>2, <1>4, <1>8, <1>10, <1>11, <1>13 DEF ListInv, t, older, b
-----------------------------------------------------------------------------
(* The room.                                                               *)

\* A send that is answered has its row.
CallsInv == \A k \in Calls : call[k].phase = "stored" => Stored(call[k].client)

\* Events are about rows of the table, and announce as new only rows younger than the
\* first page.
EventsInv == /\ \A i \in DOMAIN events : /\ events[i].id \in 1..Len(rows)
                                         /\ events[i].new => events[i].id > first.hi
             /\ events # <<>> => joined
             /\ joined => view = "ready"

EditInv == edit # NoEdit => edit.id \in 1..Len(rows)

\* There is more to fetch only above a first page with rows.
PagesInv == /\ first.hi <= Len(rows)
            /\ view = "loading" => first = [lo |-> 0, hi |-> 0] /\ captured = <<>>
            /\ view = "ready" => 1 <= first.lo /\ first.lo <= first.hi + 1
            /\ view = "ready" /\ hasMore => first.lo <= first.hi
            /\ captured # <<>> => view = "ready" /\ first.lo <= first.hi

\* The list shown, and the one a running loadMore will put back.
ListsInv ==
    /\ ListInv(items, rows, first.lo, first.hi, marked)
    /\ view = "ready" => Begins(items, first.lo, first.hi)
    /\ captured # <<>> => /\ ListInv(captured, rows, first.lo, first.hi, marked)
                          /\ Begins(captured, first.lo, first.hi)

Inv == TypeOK /\ TableInv /\ CallsInv /\ EventsInv /\ EditInv /\ PagesInv /\ ListsInv

\* The table with at least the rows it had.
Grows == /\ rows' \in Seq(Row) /\ Len(rows) <= Len(rows') /\ Len(rows') <= MaxRows
         /\ \A i \in DOMAIN rows : rows'[i].client = rows[i].client

LEMMA Types ==
    ASSUME TypeOK
    PROVE  /\ rows \in Seq(Row) /\ Len(rows) \in Nat /\ DOMAIN rows = 1..Len(rows)
           /\ Len(rows) <= MaxRows
           /\ first.lo \in Nat /\ first.hi \in Nat
           /\ \A i \in DOMAIN rows : rows[i].client \in Clients \cup {Other}
<1>1. rows \in Seq(Row) /\ Len(rows) <= MaxRows /\ first \in [lo : Nat, hi : Nat]
  BY DEF TypeOK
<1>2. Len(rows) \in Nat /\ DOMAIN rows = 1..Len(rows) /\ \A i \in DOMAIN rows : rows[i] \in Row
  BY <1>1
<1> QED
  BY <1>1, <1>2 DEF Row

LEMMA SameRowsGrow ==
    ASSUME TypeOK, UNCHANGED rows
    PROVE  Grows
BY DEF TypeOK, Grows

LEMMA InsertGrows ==
    ASSUME TypeOK, NEW c \in Clients \cup {Other}, Insert(c)
    PROVE  Grows /\ Len(rows') = Len(rows) + 1 /\ rows'[Len(rows) + 1].client = c
<1> DEFINE new == [client |-> c, ver |-> 0]
<1>1. rows' = Append(rows, new) /\ new \in Row /\ rows \in Seq(Row) /\ Len(rows) < MaxRows
  BY DEF Insert, Row, Versions, TypeOK
<1>2. rows' \in Seq(Row) /\ Len(rows') = Len(rows) + 1 /\ Len(rows) \in Nat
  BY <1>1
<1>3. (\A i \in 1..Len(rows) : rows'[i] = rows[i]) /\ rows'[Len(rows) + 1].client = c
  BY <1>1
<1>4. Len(rows') <= MaxRows /\ DOMAIN rows = 1..Len(rows)
  BY <1>1, <1>2, ChatRoomConstants
<1> QED
  BY <1>2, <1>3, <1>4 DEF Grows

LEMMA UpdateGrows ==
    ASSUME TypeOK, NEW id \in DOMAIN rows, NEW ver \in {1, Deleted}, Update(id, ver)
    PROVE  Grows
<1>1. rows' = [rows EXCEPT ![id].ver = ver] /\ rows \in Seq(Row) /\ rows[id] \in Row
  BY DEF Update, TypeOK
<1>2. [rows[id] EXCEPT !.ver = ver] \in Row
  BY <1>1 DEF Row, Versions, Deleted
<1>3. rows' \in Seq(Row) /\ Len(rows') = Len(rows)
  BY <1>1, <1>2
<1>4. \A i \in DOMAIN rows : rows'[i].client = rows[i].client
  BY <1>1 DEF Row
<1> QED
  BY <1>3, <1>4 DEF Grows, TypeOK

\* What is announced is about a row of the table.
LEMMA EventsAnnounced ==
    ASSUME Inv, Grows, NEW e \in Event, Announce(e), CanAnnounce,
           UNCHANGED <<joined, view, first>>,
           e.id \in 1..Len(rows'), e.new => e.id > first.hi
    PROVE  EventsInv' /\ events' \in Seq(Event) /\ Len(events') <= MaxEvents
<1>1. events \in Seq(Event) /\ Len(events) \in Nat /\ Len(events) <= MaxEvents
  BY DEF Inv, TypeOK
<1>2. Len(rows) \in Nat /\ Len(rows') \in Nat /\ Len(rows) <= Len(rows')
  BY DEF Inv, TypeOK, Grows
<1>3. CASE joined
  <2>1. events' = Append(events, e) /\ Len(events) < MaxEvents
    BY <1>3 DEF Announce, CanAnnounce
  <2>2. /\ events' \in Seq(Event) /\ Len(events') = Len(events) + 1
        /\ events'[Len(events) + 1] = e
        /\ \A i \in 1..Len(events) : events'[i] = events[i]
        /\ DOMAIN events = 1..Len(events) /\ DOMAIN events' = 1..Len(events) + 1
    BY <1>1, <2>1
  <2>3. \A i \in DOMAIN events' : /\ events'[i].id \in 1..Len(rows')
                                  /\ events'[i].new => events'[i].id > first.hi
    <3> SUFFICES ASSUME NEW i \in DOMAIN events'
                 PROVE  /\ events'[i].id \in 1..Len(rows')
                        /\ events'[i].new => events'[i].id > first.hi
      OBVIOUS
    <3>1. CASE i = Len(events) + 1
      BY <2>2, <3>1
    <3>2. CASE i # Len(events) + 1
      <4>1. i \in DOMAIN events /\ events'[i] = events[i]
        BY <1>1, <2>2, <3>2
      <4>2. /\ events[i].id \in 1..Len(rows)
            /\ events[i].new => events[i].id > first.hi
        BY <4>1 DEF Inv, EventsInv
      <4> QED
        BY <1>2, <4>1, <4>2
    <3> QED
      BY <3>1, <3>2
  <2>4. Len(events') <= MaxEvents
    BY <1>1, <2>1, <2>2, ChatRoomConstants
  <2> QED
    BY <1>3, <2>2, <2>3, <2>4 DEF Inv, EventsInv
<1>4. CASE ~joined
  BY <1>1, <1>4 DEF Announce, Inv, EventsInv
<1> QED
  BY <1>3, <1>4

LEMMA EventsKept ==
    ASSUME Inv, Grows, UNCHANGED <<events, joined, view, first>>
    PROVE  EventsInv' /\ events' \in Seq(Event) /\ Len(events') <= MaxEvents
BY DEF Inv, EventsInv, Grows, TypeOK

\* What an insert announces.
LEMMA InsertAnnounces ==
    ASSUME Inv, NEW c \in Clients \cup {Other}, Insert(c), UNCHANGED <<joined, view, first>>
    PROVE  EventsInv' /\ events' \in Seq(Event) /\ Len(events') <= MaxEvents
<1> DEFINE e == [new |-> TRUE, id |-> Len(rows) + 1, ver |-> 0]
<1>1. Grows /\ Len(rows') = Len(rows) + 1 /\ Len(rows) + 1 \in 1..MaxRows
      /\ first.hi \in Nat /\ first.hi <= Len(rows) /\ Len(rows) \in Nat
  BY InsertGrows, Types, ChatRoomConstants DEF Inv, PagesInv, Grows
<1>2. e \in Event /\ e.id = Len(rows) + 1 /\ Announce(e) /\ CanAnnounce
  BY <1>1 DEF Event, Versions, Insert
<1>3. e.id \in 1..Len(rows') /\ e.id > first.hi
  BY <1>1, <1>2
<1> HIDE DEF e
<1> QED
  BY <1>1, <1>2, <1>3, EventsAnnounced

LEMMA UpdateAnnounces ==
    ASSUME Inv, NEW id \in DOMAIN rows, NEW ver \in {1, Deleted}, Update(id, ver),
           UNCHANGED <<joined, view, first>>
    PROVE  EventsInv' /\ events' \in Seq(Event) /\ Len(events') <= MaxEvents
<1> DEFINE e == [new |-> FALSE, id |-> id, ver |-> ver]
<1>1. Grows /\ id \in 1..Len(rows) /\ id \in 1..MaxRows /\ id \in 1..Len(rows')
  BY UpdateGrows, Types, ChatRoomConstants DEF Inv, Grows
<1>2. e \in Event /\ e.id = id /\ ~e.new /\ Announce(e) /\ CanAnnounce
  BY <1>1 DEF Event, Versions, Deleted, Update
<1> HIDE DEF e
<1> QED
  BY <1>1, <1>2, EventsAnnounced
\* A stored message stays stored.
LEMMA StoredStays ==
    ASSUME TypeOK, Grows, NEW c, Stored(c)
    PROVE  Stored(c)'
<1>1. PICK i \in DOMAIN rows : rows[i].client = c
  BY DEF Stored
<1>2. /\ DOMAIN rows = 1..Len(rows) /\ Len(rows) \in Nat /\ rows' \in Seq(Row)
      /\ Len(rows) <= Len(rows') /\ rows'[i].client = rows[i].client
  BY Types DEF Grows
<1>3. DOMAIN rows' = 1..Len(rows') /\ Len(rows') \in Nat
  BY <1>2
<1>4. i \in DOMAIN rows'
  BY <1>2, <1>3
<1> QED
  BY <1>1, <1>2, <1>4 DEF Stored

LEMMA CallsKept ==
    ASSUME Inv, Grows, UNCHANGED call
    PROVE  CallsInv'
<1>1. SUFFICES ASSUME NEW k \in Calls, call[k].phase = "stored" PROVE Stored(call[k].client)'
  BY DEF CallsInv
<1>2. Stored(call[k].client)
  BY <1>1 DEF Inv, CallsInv
<1>3. TypeOK
  BY DEF Inv
<1>4. \A c : Stored(c) => Stored(c)'
  BY <1>3, StoredStays
<1> QED
  BY <1>2, <1>4 DEF Stored

\* One call moves on.
LEMMA CallsMove ==
    ASSUME Inv, Grows, NEW k \in Calls, NEW v, SetCall(k, v),
           v.phase = "stored" => \E i \in DOMAIN rows' : rows'[i].client = v.client
    PROVE  CallsInv'
<1>1. SUFFICES ASSUME NEW j \in Calls, call'[j].phase = "stored"
               PROVE  \E i \in DOMAIN rows' : rows'[i].client = call'[j].client
  BY DEF CallsInv, Stored
<1>2. call \in [Calls -> Call] /\ call' = [call EXCEPT ![k] = v] /\ TypeOK
  BY DEF SetCall, Inv, TypeOK
<1>3. CASE j = k
  BY <1>1, <1>2, <1>3
<1>4. CASE j # k
  <2>1. call'[j] = call[j]
    BY <1>2, <1>4
  <2>2. Stored(call[j].client)
    BY <1>1, <2>1 DEF Inv, CallsInv
  <2>3. Stored(call[j].client)'
    <3>1. \A c : Stored(c) => Stored(c)'
      BY <1>2, StoredStays
    <3> QED
      BY <2>1, <2>2, <3>1 DEF Stored
  <2> QED
    BY <2>1, <2>3 DEF Stored
<1> QED
  BY <1>3, <1>4

\* A step of the table, the channel or a request that the screen does not notice.
LEMMA TableStep ==
    ASSUME Inv, [Next]_vars, Grows,
           UNCHANGED <<items, marked, view, hasMore, captured, first>>, joined' \in BOOLEAN,
           EventsInv', events' \in Seq(Event), Len(events') <= MaxEvents,
           edit' \in [id : 0..MaxRows, ver : Versions], EditInv',
           CallsInv'
    PROVE  Inv'
<1>1. TableInv'
  BY NextKeepsTable DEF Inv
<1>2. TypeOK'
  BY <1>1 DEF Inv, TypeOK, TableInv, Grows
<1>3. /\ rows \in Seq(Row) /\ rows' \in Seq(Row) /\ Len(rows) \in Nat /\ Len(rows') \in Nat
      /\ Len(rows) <= Len(rows') /\ first.hi \in Nat /\ first.hi <= Len(rows)
      /\ \A i \in DOMAIN rows : rows'[i].client = rows[i].client
  BY Types DEF Inv, Grows, PagesInv
<1>4. PagesInv'
  BY <1>3 DEF Inv, PagesInv
<1>5. \A s : ListInv(s, rows, first.lo, first.hi, marked)
                => ListInv(s, rows', first.lo, first.hi, marked)
  BY <1>3, ListOutlives
<1>6. ListsInv'
  BY <1>5 DEF Inv, ListsInv
<1> QED
  BY <1>1, <1>2, <1>4, <1>6 DEF Inv
LEMMA EditKept ==
    ASSUME Inv, Grows, UNCHANGED edit
    PROVE  edit' \in [id : 0..MaxRows, ver : Versions] /\ EditInv'
<1>1. edit \in [id : 0..MaxRows, ver : Versions] /\ Len(rows) \in Nat
  BY Types DEF Inv, TypeOK
<1>2. Len(rows') \in Nat /\ Len(rows) <= Len(rows')
  BY DEF Grows
<1> QED
  BY <1>1, <1>2 DEF Inv, EditInv

LEMMA NoEditIsTyped == NoEdit \in [id : 0..MaxRows, ver : Versions]
BY ChatRoomConstants DEF NoEdit, Versions

-----------------------------------------------------------------------------
(* Steps the screen does not notice.                                       *)

LEMMA OtherInsertKeepsInv == Inv /\ [Next]_vars /\ OtherInsert => Inv'
<1> SUFFICES ASSUME Inv, [Next]_vars, OtherInsert PROVE Inv'
  OBVIOUS
<1>1. Insert(Other) /\ UNCHANGED <<joined, items, call, edit, marked, list>>
  BY DEF OtherInsert
<1>2. Grows
  BY <1>1, InsertGrows DEF Inv
<1>3. EventsInv' /\ events' \in Seq(Event) /\ Len(events') <= MaxEvents
  BY <1>1, InsertAnnounces DEF list
<1>4. UNCHANGED <<items, marked, view, hasMore, captured, first>> /\ joined' \in BOOLEAN
  BY <1>1 DEF list, Inv, TypeOK
<1> QED
  BY <1>1, <1>2, <1>3, <1>4, CallsKept, EditKept, TableStep

LEMMA OtherUpdateKeepsInv == Inv /\ [Next]_vars /\ OtherUpdate => Inv'
<1> SUFFICES ASSUME Inv, [Next]_vars, OtherUpdate PROVE Inv'
  OBVIOUS
<1>1. PICK id \in DOMAIN rows, ver \in {1, Deleted} : Update(id, ver)
  BY DEF OtherUpdate
<1>2. Grows
  BY <1>1, UpdateGrows DEF Inv
<1>3. EventsInv' /\ events' \in Seq(Event) /\ Len(events') <= MaxEvents
  BY <1>1, UpdateAnnounces DEF OtherUpdate, list
<1>4. UNCHANGED <<items, marked, view, hasMore, captured, first, call, edit>> /\ joined' \in BOOLEAN
  BY DEF OtherUpdate, list, Inv, TypeOK
<1> QED
  BY <1>2, <1>3, <1>4, CallsKept, EditKept, TableStep

LEMMA StrayArrivesKeepsInv ==
    ASSUME Inv, [Next]_vars, NEW c \in Clients, StrayArrives(c)
    PROVE  Inv'
<1>1. UNCHANGED <<joined, items, marked, view, hasMore, captured, first, call, edit>>
      /\ joined' \in BOOLEAN
  BY DEF StrayArrives, list, Inv, TypeOK
<1>2. CASE Stored(c)
  <2>1. Grows /\ UNCHANGED events
    BY <1>2, SameRowsGrow DEF StrayArrives, Inv
  <2> QED
    BY <1>1, <2>1, EventsKept, CallsKept, EditKept, TableStep
<1>3. CASE ~Stored(c)
  <2>1. Insert(c)
    BY <1>3 DEF StrayArrives
  <2>2. Grows
    BY <2>1, InsertGrows DEF Inv
  <2>3. EventsInv' /\ events' \in Seq(Event) /\ Len(events') <= MaxEvents
    BY <1>1, <2>1, InsertAnnounces
  <2> QED
    BY <1>1, <2>2, <2>3, CallsKept, EditKept, TableStep
<1> QED
  BY <1>2, <1>3

LEMMA JoinKeepsInv == Inv /\ [Next]_vars /\ Join => Inv'
<1> SUFFICES ASSUME Inv, [Next]_vars, Join PROVE Inv'
  OBVIOUS
<1>1. /\ UNCHANGED <<rows, events, items, marked, view, hasMore, captured, first, call, edit>>
      /\ joined' = TRUE /\ view = "ready"
  BY DEF Join, list
<1>2. Grows
  BY <1>1, SameRowsGrow DEF Inv
<1>3. EventsInv' /\ events' \in Seq(Event) /\ Len(events') <= MaxEvents
  BY <1>1 DEF Inv, TypeOK, EventsInv
<1> QED
  BY <1>1, <1>2, <1>3, CallsKept, EditKept, TableStep

LEMMA TailOfEvents ==
    ASSUME Inv, UNCHANGED <<rows, joined, view, first>>, events # <<>>,
           events' = events \/ events' = Tail(events)
    PROVE  EventsInv' /\ events' \in Seq(Event) /\ Len(events') <= MaxEvents
<1>1. events \in Seq(Event) /\ Len(events) \in Nat /\ Len(events) <= MaxEvents
      /\ DOMAIN events = 1..Len(events)
  BY DEF Inv, TypeOK
<1>2. CASE events' = events
  BY <1>1, <1>2 DEF Inv, EventsInv
<1>3. CASE events' = Tail(events)
  <2>1. /\ events' \in Seq(Event) /\ Len(events') = Len(events) - 1
        /\ \A i \in 1..Len(events') : events'[i] = events[i + 1]
    BY <1>1, <1>3
  <2>2. Len(events') <= MaxEvents
    BY <1>1, <2>1, ChatRoomConstants
  <2>3. \A i \in DOMAIN events' : /\ events'[i].id \in 1..Len(rows)
                                  /\ events'[i].new => events'[i].id > first.hi
    <3> SUFFICES ASSUME NEW i \in DOMAIN events'
                 PROVE  /\ events'[i].id \in 1..Len(rows)
                        /\ events'[i].new => events'[i].id > first.hi
      OBVIOUS
    <3>1. i \in 1..Len(events') /\ events'[i] = events[i + 1] /\ i + 1 \in DOMAIN events
      BY <1>1, <2>1
    <3> QED
      BY <3>1 DEF Inv, EventsInv
  <2> QED
    BY <2>1, <2>2, <2>3 DEF Inv, EventsInv
<1> QED
  BY <1>2, <1>3

LEMMA LoseEventKeepsInv == Inv /\ [Next]_vars /\ LoseEvent => Inv'
<1> SUFFICES ASSUME Inv, [Next]_vars, LoseEvent PROVE Inv'
  OBVIOUS
<1>1. /\ UNCHANGED <<rows, joined, items, marked, view, hasMore, captured, first, call, edit>>
      /\ joined' \in BOOLEAN /\ events # <<>> /\ events' = Tail(events)
  BY DEF LoseEvent, list, Inv, TypeOK
<1>2. Grows
  BY <1>1, SameRowsGrow DEF Inv
<1>3. EventsInv' /\ events' \in Seq(Event) /\ Len(events') <= MaxEvents
  BY <1>1, TailOfEvents
<1> QED
  BY <1>1, <1>2, <1>3, CallsKept, EditKept, TableStep
LEMMA EditMessageKeepsInv ==
    ASSUME Inv, [Next]_vars, NEW id \in DOMAIN rows, NEW ver \in {1, Deleted},
           EditMessage(id, ver)
    PROVE  Inv'
<1>1. /\ UNCHANGED <<joined, items, marked, view, hasMore, captured, first, call>>
      /\ joined' \in BOOLEAN /\ Update(id, ver) /\ edit' = [id |-> id, ver |-> ver]
  BY DEF EditMessage, list, Inv, TypeOK
<1>2. Grows
  BY <1>1, UpdateGrows DEF Inv
<1>3. EventsInv' /\ events' \in Seq(Event) /\ Len(events') <= MaxEvents
  BY <1>1, UpdateAnnounces
<1>4. id \in 1..Len(rows) /\ id \in 0..MaxRows /\ id \in 1..Len(rows')
  BY <1>2, Types, ChatRoomConstants DEF Inv, Grows
<1>5. edit' \in [id : 0..MaxRows, ver : Versions] /\ EditInv'
  BY <1>1, <1>4 DEF Versions, Deleted, EditInv
<1> QED
  BY <1>1, <1>2, <1>3, <1>5, CallsKept, TableStep

LEMMA EditAnswerLostKeepsInv == Inv /\ [Next]_vars /\ EditAnswerLost => Inv'
<1> SUFFICES ASSUME Inv, [Next]_vars, EditAnswerLost PROVE Inv'
  OBVIOUS
<1>1. /\ UNCHANGED <<rows, events, joined, items, marked, view, hasMore, captured, first, call>>
      /\ joined' \in BOOLEAN /\ edit' = NoEdit
  BY DEF EditAnswerLost, server, list, Inv, TypeOK
<1>2. Grows
  BY <1>1, SameRowsGrow DEF Inv
<1>3. edit' \in [id : 0..MaxRows, ver : Versions] /\ EditInv'
  BY <1>1, NoEditIsTyped DEF EditInv
<1> QED
  BY <1>1, <1>2, <1>3, EventsKept, CallsKept, TableStep

LEMMA ServerInsertsKeepsInv ==
    ASSUME Inv, [Next]_vars, NEW k \in Calls, ServerInserts(k)
    PROVE  Inv'
<1> DEFINE c == call[k].client
<1>1. UNCHANGED <<joined, items, marked, view, hasMore, captured, first, edit>>
      /\ joined' \in BOOLEAN /\ call[k].phase = "posting" /\ call[k] \in Call
  BY DEF ServerInserts, InsertUnless, list, Inv, TypeOK
<1>2. c \in Clients \cup {Other}
  BY <1>1 DEF Call, NoCall
<1>3. CASE Insert(c) /\ Phase(k, "stored")
  <2>1. Grows /\ Len(rows') = Len(rows) + 1 /\ rows'[Len(rows) + 1].client = c
    BY <1>2, <1>3, InsertGrows DEF Inv
  <2>2. EventsInv' /\ events' \in Seq(Event) /\ Len(events') <= MaxEvents
    BY <1>1, <1>2, <1>3, InsertAnnounces
  <2> DEFINE v == [call[k] EXCEPT !.phase = "stored"]
  <2>3. SetCall(k, v) /\ v.client = c
    BY <1>1, <1>3 DEF Phase, Call, NoCall
  <2>4. Len(rows) + 1 \in DOMAIN rows'
    BY <2>1, Types DEF Grows, Inv
  <2> HIDE DEF v
  <2>5. CallsInv'
    BY <2>1, <2>3, <2>4, CallsMove
  <2> QED
    BY <1>1, <2>1, <2>2, <2>5, EditKept, TableStep
<1>4. CASE Phase(k, "refused") /\ UNCHANGED <<rows, events>>
  <2>1. Grows
    BY <1>4, SameRowsGrow DEF Inv
  <2> DEFINE v == [call[k] EXCEPT !.phase = "refused"]
  <2>2. SetCall(k, v) /\ v.phase = "refused"
    BY <1>1, <1>4 DEF Phase, Call, NoCall
  <2> HIDE DEF v
  <2>3. CallsInv'
    BY <2>1, <2>2, CallsMove
  <2> QED
    BY <1>1, <1>4, <2>1, <2>3, EventsKept, EditKept, TableStep
<1> QED
  BY <1>3, <1>4 DEF ServerInserts, InsertUnless

\* The steps that only move a call on, to a phase other than "stored".
LEMMA CallMovesOn ==
    ASSUME Inv, [Next]_vars, NEW k \in Calls, NEW v, SetCall(k, v), v.phase # "stored",
           UNCHANGED <<rows, joined, events, items, edit, marked, list>>
    PROVE  Inv'
<1>1. Grows
  BY SameRowsGrow DEF Inv
<1>2. CallsInv'
  BY <1>1, CallsMove
<1>3. UNCHANGED <<items, marked, view, hasMore, captured, first, events, joined, edit>>
      /\ joined' \in BOOLEAN
  BY DEF list, Inv, TypeOK
<1> QED
  BY <1>1, <1>2, <1>3, EventsKept, EditKept, TableStep

LEMMA RequestStepsKeepInv ==
    ASSUME Inv, [Next]_vars, NEW k \in Calls,
           \/ ServerRefuses(k) \/ RequestDelayed(k) \/ AnswerLost(k) \/ FindFailed(k)
           \/ SendFailed(k) /\ call[k].retry
    PROVE  Inv'
<1> DEFINE refused == [call[k] EXCEPT !.phase = "refused"]
           asking  == [call[k] EXCEPT !.phase = "asking"]
<1>1. call[k] \in Call
  BY DEF Inv, TypeOK
<1>2. refused.phase # "stored" /\ asking.phase # "stored" /\ NoCall.phase # "stored"
  BY <1>1 DEF Call, NoCall
<1>3. UNCHANGED <<rows, joined, events, items, edit, marked, list>>
  BY DEF ServerRefuses, RequestDelayed, AnswerLost, FindFailed, SendFailed, server
<1>4. SetCall(k, refused) \/ SetCall(k, asking) \/ SetCall(k, NoCall)
  BY DEF ServerRefuses, RequestDelayed, AnswerLost, FindFailed, SendFailed, Phase
<1> HIDE DEF refused, asking
<1> QED
  BY <1>2, <1>3, <1>4, CallMovesOn
-----------------------------------------------------------------------------
(* Steps of the screen.                                                    *)

\* A step that puts another list on the screen.
LEMMA ListStep ==
    ASSUME Inv, [Next]_vars, UNCHANGED <<rows, joined, first, view>>,
           ListInv(items', rows, first.lo, first.hi, marked'),
           view = "ready" => Begins(items', first.lo, first.hi),
           marked \subseteq marked', marked' \subseteq 1..MaxRows, hasMore' \in BOOLEAN,
           captured' = captured \/ captured' = <<>>,
           hasMore' => hasMore \/ captured # <<>>,
           EventsInv', events' \in Seq(Event), Len(events') <= MaxEvents,
           edit' = edit \/ edit' = NoEdit, CallsInv'
    PROVE  Inv'
<1>1. TableInv'
  BY NextKeepsTable DEF Inv
<1>2. /\ rows \in Seq(Row) /\ Len(rows) \in Nat /\ Len(rows) <= MaxRows /\ first.hi \in Nat
      /\ first.hi <= Len(rows)
  BY Types DEF Inv, PagesInv
<1>3. items' \in Seq(Item) /\ captured' \in Seq(Item)
  <2>1. captured \in Seq(Item) /\ <<>> \in Seq(Item)
    BY DEF Inv, TypeOK
  <2> QED
    BY <2>1 DEF ListInv
<1>4. edit' \in [id : 0..MaxRows, ver : Versions] /\ EditInv'
  BY NoEditIsTyped DEF Inv, TypeOK, EditInv
<1>5. TypeOK'
  BY <1>1, <1>2, <1>3, <1>4 DEF Inv, TypeOK, TableInv
<1>6. PagesInv'
  BY DEF Inv, PagesInv
<1>7. captured' # <<>> => /\ ListInv(captured', rows, first.lo, first.hi, marked')
                          /\ Begins(captured', first.lo, first.hi)
  <2>1. \A s : ListInv(s, rows, first.lo, first.hi, marked)
                 => ListInv(s, rows, first.lo, first.hi, marked')
    <3>1. Len(rows) <= Len(rows) /\ \A i \in DOMAIN rows : rows[i].client = rows[i].client
      BY <1>2
    <3> QED
      BY <1>2, <3>1, ListOutlives
  <2> QED
    BY <2>1 DEF Inv, ListsInv
<1>8. ListsInv'
  BY <1>7 DEF ListsInv
<1> QED
  BY <1>1, <1>4, <1>5, <1>6, <1>8 DEF Inv

\* What is known of the list before such a step.
LEMMA ListFacts ==
    ASSUME Inv
    PROVE  /\ ListInv(items, rows, first.lo, first.hi, marked)
           /\ view = "ready" => Begins(items, first.lo, first.hi)
           /\ items \in Seq(Item) /\ Unique(items)
           /\ \A i \in DOMAIN items : Fits(items[i], rows, first.hi)
           /\ first.hi \in Nat /\ first.lo \in Nat /\ first.hi <= Len(rows)
           /\ marked \subseteq 1..MaxRows /\ hasMore \in BOOLEAN
BY Types DEF Inv, ListsInv, ListInv, PagesInv, TypeOK

\* An item of a row of the table.
LEMMA ConfirmedFits ==
    ASSUME Inv, NEW id \in 1..Len(rows), NEW ver \in Versions
    PROVE  /\ Fits(Confirmed(id, ver), rows, first.hi)
           /\ Confirmed(id, ver).id = id /\ Confirmed(id, ver).client = rows[id].client
<1>1. /\ Len(rows) \in Nat /\ Len(rows) <= MaxRows /\ MaxRows \in Nat
      /\ rows[id].client \in Clients \cup {Other}
  BY Types, ChatRoomConstants DEF Inv
<1>2. id \in 0..MaxRows /\ id # 0
  BY <1>1
<1>3. Confirmed(id, ver) \in Item
  BY <1>1, <1>2 DEF Confirmed, Item
<1> QED
  BY <1>2, <1>3 DEF Confirmed, Fits

\* A new row on the list is of no message the list shows.
LEMMA NewOnTheList ==
    ASSUME Inv, NEW x, Fits(x, rows, first.hi), x.id # 0, x.client \in Clients,
           \A i \in DOMAIN items : items[i].id # x.id,
           \A i \in DOMAIN items : ~IsPending(items[i], x.client)
    PROVE  \A i \in DOMAIN items : items[i].client # x.client
<1> SUFFICES ASSUME NEW i \in DOMAIN items, items[i].client = x.client PROVE FALSE
  OBVIOUS
<1>1. items[i].id # 0
  BY DEF IsPending
<1>2. Fits(items[i], rows, first.hi)
  BY ListFacts
<1>3. PostedOnce /\ rows \in Seq(Row)
  BY DEF Inv, TableInv
<1>4. items[i].id = x.id
  BY <1>1, <1>2, <1>3, RowsOfOneMessage
<1> QED
  BY <1>4

\* A row whose message is "sending" on the list is not on the list.
LEMMA PendingIsNotShown ==
    ASSUME Inv, NEW p \in DOMAIN items, NEW x, Fits(x, rows, first.hi), x.id # 0,
           x.client \in Clients, IsPending(items[p], x.client)
    PROVE  \A i \in DOMAIN items : items[i].id # x.id
<1> SUFFICES ASSUME NEW i \in DOMAIN items, items[i].id = x.id PROVE FALSE
  OBVIOUS
<1>1. items[i].client = x.client
  BY ListFacts DEF Fits
<1>2. i # p /\ items[p].client = x.client
  BY DEF IsPending
<1> QED
  BY <1>1, <1>2, ListFacts DEF Unique
\* What the handlers make of the list: a changed row, ...
LEMMA ReplaceConfirmedKeeps ==
    ASSUME Inv, NEW id \in 1..Len(rows), NEW ver \in Versions
    PROVE  LET t == ReplaceConfirmed(items, Confirmed(id, ver))
           IN  /\ ListInv(t, rows, first.lo, first.hi, marked)
               /\ view = "ready" => Begins(t, first.lo, first.hi)
<1> DEFINE x == Confirmed(id, ver)
           p == ShownAt(items, id)
<1>1. Fits(x, rows, first.hi) /\ x.id = id /\ x.client = rows[id].client
  BY ConfirmedFits
<1> HIDE DEF x
<1>2. CASE Shows(items, id)
  <2>1. p \in DOMAIN items /\ items[p].id = id
    BY <1>2, ListFacts, ShownAtFacts
  <2> HIDE DEF p
  <2>2. x.client = items[p].client
    BY <1>1, <2>1, ListFacts DEF Fits
  <2>3. /\ ListInv(ReplaceAt(items, p, x), rows, first.lo, first.hi, marked)
        /\ Begins(items, first.lo, first.hi) => Begins(ReplaceAt(items, p, x), first.lo, first.hi)
    BY <1>1, <2>1, <2>2, ListFacts, ReplaceSame
  <2> QED
    BY <1>1, <1>2, <2>3, ListFacts DEF ReplaceConfirmed, x, p
<1>3. CASE ~Shows(items, id)
  BY <1>1, <1>3, ListFacts DEF ReplaceConfirmed, x
<1> QED
  BY <1>2, <1>3

\* ... a send that failed or is tried again, ...
LEMMA SetFailedKeeps ==
    ASSUME Inv, NEW c \in Clients, NEW failed \in BOOLEAN
    PROVE  LET t == SetFailed(items, c, failed)
           IN  /\ ListInv(t, rows, first.lo, first.hi, marked)
               /\ view = "ready" => Begins(t, first.lo, first.hi)
<1> DEFINE x == Pending(c, failed)
           p == PendingAt(items, c)
<1>1. CASE p = 0
  BY <1>1, ListFacts DEF SetFailed
<1>2. CASE p # 0
  <2>1. p \in DOMAIN items /\ IsPending(items[p], c)
    BY <1>2, ListFacts, PendingAtFacts
  <2> HIDE DEF p
  <2>2. x \in Item /\ x.id = 0 /\ x.client = c
    BY ChatRoomConstants DEF Pending, Item, Versions
  <2> HIDE DEF x
  <2>3. Fits(x, rows, first.hi) /\ x.id = items[p].id /\ x.client = items[p].client
    BY <2>1, <2>2, ListFacts DEF Fits, IsPending
  <2>4. /\ ListInv(ReplaceAt(items, p, x), rows, first.lo, first.hi, marked)
        /\ Begins(items, first.lo, first.hi) => Begins(ReplaceAt(items, p, x), first.lo, first.hi)
    BY <2>1, <2>3, ListFacts, ReplaceSame
  <2> QED
    BY <1>2, <2>4, ListFacts DEF SetFailed, x, p
<1> QED
  BY <1>1, <1>2

\* ... and a send that has its row.  The row is never shown already.
LEMMA ReplacePendingKeeps ==
    ASSUME Inv, NEW c \in Clients, NEW id \in 1..Len(rows), NEW ver \in Versions,
           rows[id].client = c
    PROVE  LET t == ReplacePending(items, c, Confirmed(id, ver))
           IN  /\ ListInv(t, rows, first.lo, first.hi, marked)
               /\ view = "ready" => Begins(t, first.lo, first.hi)
<1> DEFINE x == Confirmed(id, ver)
           p == PendingAt(items, c)
<1>1. Fits(x, rows, first.hi) /\ x.id = id /\ x.client = c /\ id # 0
  BY ConfirmedFits
<1> HIDE DEF x
<1>2. CASE p = 0
  BY <1>2, ListFacts DEF ReplacePending
<1>3. CASE p # 0
  <2>1. p \in DOMAIN items /\ IsPending(items[p], c)
    BY <1>3, ListFacts, PendingAtFacts
  <2> HIDE DEF p
  <2>2. \A i \in DOMAIN items : items[i].id # x.id
    BY <1>1, <2>1, PendingIsNotShown
  <2>3. ~Shows(items, x.id)
    BY <1>1, <2>2, ListFacts, ShownAtFacts
  <2>4. /\ ListInv(ReplaceAt(items, p, x), rows, first.lo, first.hi, marked)
        /\ Begins(items, first.lo, first.hi) => Begins(ReplaceAt(items, p, x), first.lo, first.hi)
    BY <1>1, <2>1, <2>2, ListFacts, ReplaceAnswered
  <2> QED
    BY <1>3, <2>3, <2>4, ListFacts DEF ReplacePending, x, p
<1> QED
  BY <1>2, <1>3
\* A new row on the list: once as itself, and in the place of its message.
LEMMA OnMessageInsertKeeps ==
    ASSUME Inv, NEW id \in 1..Len(rows), NEW ver \in Versions, id > first.hi,
           NEW ms, marked \subseteq ms,
           ~Shows(items, id) /\ rows[id].client = Other => id \in ms
    PROVE  LET t == OnMessageInsert(items, Confirmed(id, ver))
           IN  /\ ListInv(t, rows, first.lo, first.hi, ms)
               /\ view = "ready" => Begins(t, first.lo, first.hi)
<1> DEFINE x == Confirmed(id, ver)
           p == PendingAt(items, x.client)
<1>1. Fits(x, rows, first.hi) /\ x.id = id /\ x.client = rows[id].client /\ id # 0
  BY ConfirmedFits
<1>2. ListInv(items, rows, first.lo, first.hi, ms)
  <2>1. rows \in Seq(Row) /\ Len(rows) \in Nat /\ Len(rows) <= Len(rows)
        /\ \A i \in DOMAIN rows : rows[i].client = rows[i].client
    BY Types DEF Inv
  <2> QED
    BY <2>1, ListFacts, ListOutlives
<1>3. x.client \in Clients \cup {Other}
  BY <1>1, Types DEF Inv
<1> HIDE DEF x
<1>4. CASE Shows(items, id)
  BY <1>1, <1>2, <1>4, ListFacts DEF OnMessageInsert, x
<1>5. CASE ~Shows(items, id) /\ p # 0
  <2>1. x.client \in Clients
    BY <1>3, <1>5, ListFacts, NothingPendingOfOthers
  <2>2. p \in DOMAIN items /\ IsPending(items[p], x.client)
    BY <1>5, <2>1, ListFacts, PendingAtFacts
  <2>3. \A i \in DOMAIN items : items[i].id # x.id
    BY <1>1, <1>5, ListFacts, ShownAtFacts
  <2> HIDE DEF p
  <2>4. /\ ListInv(ReplaceAt(items, p, x), rows, first.lo, first.hi, ms)
        /\ Begins(items, first.lo, first.hi) => Begins(ReplaceAt(items, p, x), first.lo, first.hi)
    BY <1>1, <1>2, <2>1, <2>2, <2>3, ListFacts, ReplaceAnswered
  <2> QED
    BY <1>1, <1>5, <2>4, ListFacts DEF OnMessageInsert, x, p
<1>6. CASE ~Shows(items, id) /\ p = 0
  <2>1. \A i \in DOMAIN items : items[i].id # x.id
    BY <1>1, <1>6, ListFacts, ShownAtFacts
  <2>2. x.client \in Clients => \A i \in DOMAIN items : items[i].client # x.client
    <3> SUFFICES ASSUME x.client \in Clients
                 PROVE  \A i \in DOMAIN items : items[i].client # x.client
      OBVIOUS
    <3>1. \A i \in DOMAIN items : ~IsPending(items[i], x.client)
      BY <1>6, ListFacts, PendingAtFacts
    <3> QED
      BY <1>1, <2>1, <3>1, NewOnTheList
  <2>3. x.id \notin 1..first.hi
    BY <1>1, ListFacts
  <2>4. x.client = Other => x.id \in ms
    BY <1>1, <1>6
  <2>5. /\ ListInv(Append(items, x), rows, first.lo, first.hi, ms)
        /\ Begins(items, first.lo, first.hi) => Begins(Append(items, x), first.lo, first.hi)
    BY <1>1, <1>2, <2>1, <2>2, <2>3, <2>4, ListFacts, AppendItem
  <2> QED
    BY <1>1, <1>6, <2>5, ListFacts DEF OnMessageInsert, x, p
<1> QED
  BY <1>4, <1>5, <1>6

LEMMA DeliverKeepsInv == Inv /\ [Next]_vars /\ Deliver => Inv'
<1> SUFFICES ASSUME Inv, [Next]_vars, Deliver PROVE Inv'
  OBVIOUS
<1> DEFINE e == Head(events)
<1>1. /\ UNCHANGED <<rows, joined, first, view, hasMore, captured, call, edit>>
      /\ events # <<>> /\ (events' = events \/ events' = Tail(events))
  BY DEF Deliver, Receive, list
<1>2. EventsInv' /\ events' \in Seq(Event) /\ Len(events') <= MaxEvents
  BY <1>1, TailOfEvents
<1>3. Grows
  BY <1>1, SameRowsGrow DEF Inv
<1>4. e \in Event /\ e.id \in 1..Len(rows) /\ (e.new => e.id > first.hi)
  <2>1. events \in Seq(Event) /\ 1 \in DOMAIN events /\ e = events[1]
    BY <1>1 DEF Inv, TypeOK
  <2> QED
    BY <2>1 DEF Inv, EventsInv
<1>5. e.ver \in Versions /\ e.id \in 1..MaxRows
  BY <1>4 DEF Event
<1>6. CASE e.new
  <2>1. /\ items' = OnMessageInsert(items, Confirmed(e.id, e.ver))
        /\ marked' = IF ~Shows(items, e.id) /\ rows[e.id].client = Other
                     THEN marked \cup {e.id} ELSE marked
    BY <1>6 DEF Deliver, Receive, Confirmed
  <2>2. marked \subseteq marked' /\ marked' \subseteq 1..MaxRows
    BY <1>5, <2>1, ListFacts
  <2>3. ~Shows(items, e.id) /\ rows[e.id].client = Other => e.id \in marked'
    BY <2>1
  <2>4. /\ ListInv(items', rows, first.lo, first.hi, marked')
        /\ view = "ready" => Begins(items', first.lo, first.hi)
    BY <1>4, <1>5, <1>6, <2>1, <2>2, <2>3, OnMessageInsertKeeps
  <2> QED
    BY <1>1, <1>2, <1>3, <2>2, <2>4, ListFacts, CallsKept, ListStep
<1>7. CASE ~e.new
  <2>1. items' = ReplaceConfirmed(items, Confirmed(e.id, e.ver)) /\ marked' = marked
    BY <1>7 DEF Deliver, Receive
  <2>2. /\ ListInv(items', rows, first.lo, first.hi, marked)
        /\ view = "ready" => Begins(items', first.lo, first.hi)
    BY <1>4, <1>5, <2>1, ReplaceConfirmedKeeps
  <2> QED
    BY <1>1, <1>2, <1>3, <2>1, <2>2, ListFacts, CallsKept, ListStep
<1> QED
  BY <1>6, <1>7
LEMMA EditAnsweredKeepsInv == Inv /\ [Next]_vars /\ EditAnswered => Inv'
<1> SUFFICES ASSUME Inv, [Next]_vars, EditAnswered PROVE Inv'
  OBVIOUS
<1>1. /\ UNCHANGED <<rows, events, joined, first, view, hasMore, captured, call, marked>>
      /\ edit' = NoEdit /\ edit # NoEdit
      /\ items' = ReplaceConfirmed(items, Confirmed(edit.id, edit.ver))
  BY DEF EditAnswered, server, list
<1>2. Grows
  BY <1>1, SameRowsGrow DEF Inv
<1>3. edit.id \in 1..Len(rows) /\ edit.ver \in Versions
  BY <1>1 DEF Inv, EditInv, TypeOK
<1>4. /\ ListInv(items', rows, first.lo, first.hi, marked)
      /\ view = "ready" => Begins(items', first.lo, first.hi)
  BY <1>1, <1>3, ReplaceConfirmedKeeps
<1> QED
  BY <1>1, <1>2, <1>4, ListFacts, EventsKept, CallsKept, ListStep

LEMMA LoadMoreKeepsInv == Inv /\ [Next]_vars /\ LoadMore => Inv'
<1> SUFFICES ASSUME Inv, [Next]_vars, LoadMore PROVE Inv'
  OBVIOUS
<1>1. /\ UNCHANGED <<rows, events, joined, stray, first, view, items, hasMore, call, edit, marked>>
      /\ captured' = items /\ view = "ready" /\ hasMore
  BY DEF LoadMore, server
<1>2. TableInv'
  BY NextKeepsTable DEF Inv
<1>3. TypeOK'
  BY <1>1 DEF Inv, TypeOK
<1>4. Grows
  BY <1>1, SameRowsGrow DEF Inv
<1>5. CallsInv' /\ EventsInv' /\ EditInv'
  BY <1>1, <1>4, CallsKept, EventsKept, EditKept
<1>6. PagesInv'
  BY <1>1 DEF Inv, PagesInv
<1>7. ListsInv'
  BY <1>1 DEF Inv, ListsInv
<1> QED
  BY <1>2, <1>3, <1>5, <1>6, <1>7 DEF Inv

\* The cursor of loadMore is the first row of the list it captured.
LEMMA OldestIsFirst ==
    ASSUME NEW s, s # <<>>, s \in Seq(Item), s[1].id # 0
    PROVE  OldestConfirmed(s) = s[1].id
<1> DEFINE I == {i \in 1..Len(s) : s[i].id # 0}
<1>1. 1 \in I
  OBVIOUS
<1>2. SelectInSeq(s, LAMBDA x : x.id # 0) = Min(I)
  BY <1>1 DEF SelectInSeq
<1>3. \A x \in I : 1 <= x
  OBVIOUS
<1>4. \A m \in I : (\A y \in I : m <= y) => m = 1
  BY <1>1, <1>3
<1>5. Min(I) \in I /\ \A y \in I : Min(I) <= y
  BY <1>1, <1>3 DEF Min
<1> QED
  BY <1>2, <1>4, <1>5 DEF OldestConfirmed

LEMMA LoadMoreAnsweredKeepsInv == Inv /\ [Next]_vars /\ LoadMoreAnswered => Inv'
<1> SUFFICES ASSUME Inv, [Next]_vars, LoadMoreAnswered PROVE Inv'
  OBVIOUS
<1> DEFINE older == Page(OldestConfirmed(captured))
<1>1. /\ UNCHANGED <<rows, events, joined, first, view, call, edit, marked>>
      /\ captured # <<>> /\ captured' = <<>> /\ hasMore' \in BOOLEAN
      /\ items' = IF older = <<>> THEN items ELSE older \o captured
  BY DEF LoadMoreAnswered, server
<1>2. Grows
  BY <1>1, SameRowsGrow DEF Inv
<1>3. /\ TableInv /\ Len(rows) <= MaxRows /\ first.lo \in Nat /\ first.hi \in Nat
      /\ ListInv(captured, rows, first.lo, first.hi, marked) /\ captured \in Seq(Item)
      /\ Begins(captured, first.lo, first.hi) /\ first.lo <= first.hi /\ first.hi <= Len(rows)
  BY <1>1, Types DEF Inv, ListsInv, PagesInv, TypeOK
<1>4. /\ captured[1].id \in 1..Len(rows) + 1
      /\ ListInv(Page(captured[1].id) \o captured, rows, first.lo, first.hi, marked)
      /\ Begins(Page(captured[1].id) \o captured, first.lo, first.hi)
  BY <1>3, PageInFront
<1>5. captured[1].id # 0
  BY <1>4, Types DEF Inv
<1>6. OldestConfirmed(captured) = captured[1].id
  BY <1>1, <1>3, <1>5, OldestIsFirst
<1>7. /\ ListInv(items', rows, first.lo, first.hi, marked)
      /\ view = "ready" => Begins(items', first.lo, first.hi)
  BY <1>1, <1>4, <1>6, ListFacts
<1> HIDE DEF older
<1> QED
  BY <1>1, <1>2, <1>7, ListFacts, EventsKept, CallsKept, ListStep

LEMMA LoadMoreFailedKeepsInv == Inv /\ [Next]_vars /\ LoadMoreFailed => Inv'
<1> SUFFICES ASSUME Inv, [Next]_vars, LoadMoreFailed PROVE Inv'
  OBVIOUS
<1>1. /\ UNCHANGED <<rows, events, joined, first, view, items, hasMore, call, edit, marked>>
      /\ captured' = <<>>
  BY DEF LoadMoreFailed, server
<1>2. Grows
  BY <1>1, SameRowsGrow DEF Inv
<1> QED
  BY <1>1, <1>2, ListFacts, EventsKept, CallsKept, ListStep
\* A step of a send that changes the list.
LEMMA SendingStep ==
    ASSUME Inv, [Next]_vars, NEW k \in Calls, NEW v, SetCall(k, v), v.phase # "stored",
           UNCHANGED <<server, edit, marked, list>>,
           ListInv(items', rows, first.lo, first.hi, marked),
           view = "ready" => Begins(items', first.lo, first.hi)
    PROVE  Inv'
<1>1. UNCHANGED <<rows, joined, events, first, view, hasMore, captured, edit, marked>>
  BY DEF server, list
<1>2. Grows
  BY <1>1, SameRowsGrow DEF Inv
<1>3. CallsInv'
  BY <1>2, CallsMove
<1> QED
  BY <1>1, <1>2, <1>3, ListFacts, EventsKept, ListStep

LEMMA SendTextKeepsInv ==
    ASSUME Inv, [Next]_vars, NEW k \in Calls, NEW c \in Clients, SendText(k, c)
    PROVE  Inv'
<1> DEFINE x == Pending(c, FALSE)
           v == [client |-> c, retry |-> FALSE, phase |-> "posting"]
<1>1. /\ UNCHANGED <<server, edit, marked, list>> /\ items' = Append(items, x)
      /\ ~Stored(c) /\ PendingAt(items, c) = 0 /\ SetCall(k, v) /\ v.phase = "posting"
  BY DEF SendText
<1>2. x \in Item /\ x.id = 0 /\ x.client = c
  BY ChatRoomConstants DEF Pending, Item, Versions
<1> HIDE DEF x, v
<1>3. \A p \in DOMAIN rows : rows[p].client # c
  BY <1>1 DEF Stored
<1>4. Fits(x, rows, first.hi)
  <2>1. 1..first.hi \subseteq DOMAIN rows
    BY ListFacts, Types DEF Inv
  <2> QED
    BY <1>2, <1>3, <2>1 DEF Fits
<1>5. ASSUME NEW i \in DOMAIN items PROVE items[i].client # c
  <2>1. ~IsPending(items[i], c)
    BY <1>1, ListFacts, PendingAtFacts
  <2>2. Fits(items[i], rows, first.hi) /\ DOMAIN rows = 1..Len(rows)
    BY ListFacts, Types DEF Inv
  <2> QED
    BY <1>3, <2>1, <2>2 DEF Fits, IsPending
<1>6. /\ ListInv(Append(items, x), rows, first.lo, first.hi, marked)
      /\ Begins(items, first.lo, first.hi) => Begins(Append(items, x), first.lo, first.hi)
  <2>1. /\ x.id \notin 1..first.hi
        /\ \A i \in DOMAIN items : /\ x.id # 0 => items[i].id # x.id
                                   /\ x.client \in Clients => items[i].client # x.client
        /\ x.id # 0 /\ x.client = Other /\ x.id >= first.lo => x.id \in marked
    BY <1>2, <1>5
  <2> QED
    BY <1>4, <2>1, ListFacts, AppendItem
<1>7. /\ ListInv(items', rows, first.lo, first.hi, marked)
      /\ view = "ready" => Begins(items', first.lo, first.hi)
  BY <1>1, <1>6, ListFacts
<1> QED
  BY <1>1, <1>7, SendingStep

LEMMA RetryKeepsInv ==
    ASSUME Inv, [Next]_vars, NEW k \in Calls, NEW c \in Clients, Retry(k, c)
    PROVE  Inv'
<1> DEFINE v == [client |-> c, retry |-> TRUE, phase |-> "posting"]
<1>1. /\ UNCHANGED <<server, edit, marked, list>> /\ items' = SetFailed(items, c, FALSE)
      /\ SetCall(k, v) /\ v.phase = "posting"
  BY DEF Retry
<1> HIDE DEF v
<1>2. /\ ListInv(items', rows, first.lo, first.hi, marked)
      /\ view = "ready" => Begins(items', first.lo, first.hi)
  BY <1>1, SetFailedKeeps
<1> QED
  BY <1>1, <1>2, SendingStep

\* A call that is under way is the send of an own message.
LEMMA CallOfAMessage ==
    ASSUME Inv, NEW k \in Calls, call[k].phase # "idle"
    PROVE  call[k].client \in Clients
BY DEF Inv, TypeOK, Call, NoCall

\* The row found for a stored message.
LEMMA RowOfFacts ==
    ASSUME Inv, NEW c, Stored(c)
    PROVE  RowOf(c) \in 1..Len(rows) /\ rows[RowOf(c)].client = c /\ rows[RowOf(c)].ver \in Versions
<1>1. RowOf(c) \in DOMAIN rows /\ rows[RowOf(c)].client = c
  BY DEF Stored, RowOf
<1>2. rows \in Seq(Row) /\ DOMAIN rows = 1..Len(rows)
  BY Types DEF Inv
<1>3. rows[RowOf(c)] \in Row
  BY <1>1, <1>2
<1> QED
  BY <1>1, <1>2, <1>3 DEF Row

LEMMA SendAnsweredKeepsInv ==
    ASSUME Inv, [Next]_vars, NEW k \in Calls, SendAnswered(k)
    PROVE  Inv'
<1> DEFINE c == call[k].client
<1>1. /\ UNCHANGED <<server, edit, marked, list>> /\ SetCall(k, NoCall)
      /\ items' = ReplacePending(items, c, Confirmed(RowOf(c), 0)) /\ call[k].phase = "stored"
  BY DEF SendAnswered
<1>2. c \in Clients /\ Stored(c) /\ NoCall.phase # "stored" /\ 0 \in Versions
  BY <1>1, CallOfAMessage DEF Inv, CallsInv, NoCall, Versions
<1> HIDE DEF c
<1>3. RowOf(c) \in 1..Len(rows) /\ rows[RowOf(c)].client = c
  BY <1>2, RowOfFacts
<1>4. /\ ListInv(items', rows, first.lo, first.hi, marked)
      /\ view = "ready" => Begins(items', first.lo, first.hi)
  BY <1>1, <1>2, <1>3, ReplacePendingKeeps
<1> QED
  BY <1>1, <1>2, <1>4, SendingStep

LEMMA FirstSendFailedKeepsInv ==
    ASSUME Inv, [Next]_vars, NEW k \in Calls, SendFailed(k), ~call[k].retry
    PROVE  Inv'
<1> DEFINE c == call[k].client
<1>1. /\ UNCHANGED <<server, edit, marked, list>> /\ SetCall(k, NoCall)
      /\ items' = SetFailed(items, c, TRUE) /\ call[k].phase = "refused"
  BY DEF SendFailed
<1>2. c \in Clients /\ NoCall.phase # "stored"
  BY <1>1, CallOfAMessage DEF NoCall
<1> HIDE DEF c
<1>3. /\ ListInv(items', rows, first.lo, first.hi, marked)
      /\ view = "ready" => Begins(items', first.lo, first.hi)
  BY <1>1, <1>2, SetFailedKeeps
<1> QED
  BY <1>1, <1>2, <1>3, SendingStep

LEMMA FindAnsweredKeepsInv ==
    ASSUME Inv, [Next]_vars, NEW k \in Calls, FindAnswered(k)
    PROVE  Inv'
<1> DEFINE c == call[k].client
<1>1. /\ UNCHANGED <<server, edit, marked, list>> /\ SetCall(k, NoCall)
      /\ items' = IF Stored(c)
                  THEN ReplacePending(items, c, Confirmed(RowOf(c), rows[RowOf(c)].ver))
                  ELSE SetFailed(items, c, TRUE)
      /\ call[k].phase = "asking"
  BY DEF FindAnswered
<1>2. c \in Clients /\ NoCall.phase # "stored"
  BY <1>1, CallOfAMessage DEF NoCall
<1> HIDE DEF c
<1>3. /\ ListInv(items', rows, first.lo, first.hi, marked)
      /\ view = "ready" => Begins(items', first.lo, first.hi)
  BY <1>1, <1>2, RowOfFacts, ReplacePendingKeeps, SetFailedKeeps
<1> QED
  BY <1>1, <1>2, <1>3, SendingStep

\* build(): the newest page, whatever the list held meanwhile.
LEMMA BuildKeepsInv == Inv /\ [Next]_vars /\ Build => Inv'
<1> SUFFICES ASSUME Inv, [Next]_vars, Build PROVE Inv'
  OBVIOUS
<1> DEFINE N == Len(rows)
           s == Page(N + 1)
<1>1. /\ UNCHANGED <<rows, events, joined, captured, call, edit>>
      /\ view = "loading" /\ view' = "ready" /\ items' = s
      /\ marked' = Broadcasts(s) /\ first' = [lo |-> N + 1 - Len(s), hi |-> N]
  BY DEF Build, server
<1>2. rows \in Seq(Row) /\ N \in Nat /\ N <= MaxRows /\ MaxRows \in Nat /\ N + 1 \in 1..N + 1
      /\ PageSize \in Nat \ {0}
  BY Types, ChatRoomConstants DEF Inv
<1>3. PICK m \in 0..N :
         /\ s \in Seq(Item) /\ Len(s) = m /\ m <= PageSize /\ (N + 1 > 1 => m > 0)
         /\ \A i \in 1..m : s[i].id = N - m + i /\ \A hi : Fits(s[i], rows, hi)
  <2> DEFINE b == N + 1
  <2>1. b \in 1..Len(rows) + 1 /\ b - 1 = N /\ s = Page(b) /\ rows \in Seq(Row) /\ Len(rows) <= MaxRows
    BY <1>2
  <2> HIDE DEF b, s, N
  <2>2. PICK m \in 0..b - 1 :
           /\ Page(b) \in Seq(Item) /\ Len(Page(b)) = m /\ m <= PageSize
           /\ b > 1 => m > 0
           /\ \A i \in 1..m : Page(b)[i].id = b - 1 - m + i /\ \A hi : Fits(Page(b)[i], rows, hi)
    BY <2>1, PageFacts
  <2>3. m \in 0..N /\ (N + 1 > 1 => m > 0)
    BY <2>1, <2>2 DEF b
  <2> QED
    BY <2>1, <2>2, <2>3
<1> HIDE DEF s, N
<1>4. DOMAIN s = 1..m /\ \A i \in 1..m : s[i] \in Item
  BY <1>3
<1>20. hasMore' \in BOOLEAN /\ (hasMore' => m >= PageSize)
  <2>1. hasMore' = (Len(items') >= PageSize)
    BY DEF Build
  <2>2. hasMore' = (m >= PageSize)
    BY <1>1, <1>3, <2>1
  <2>3. m \in Int /\ PageSize \in Int
    BY <1>2, <1>3
  <2>4. (m >= PageSize) \in BOOLEAN
    BY <2>3
  <2>5. hasMore' \in BOOLEAN
    BY <2>2, <2>4
  <2>6. ASSUME hasMore' PROVE m >= PageSize
    BY <2>2, <2>3, <2>6
  <2> QED
    BY <2>5, <2>6
<1>5. Unique(s)
  <2> SUFFICES ASSUME NEW i \in 1..m, NEW j \in 1..m, i # j
               PROVE  /\ s[i].id # 0 => s[i].id # s[j].id
                      /\ s[i].client \in Clients => s[i].client # s[j].client
    BY <1>4 DEF Unique
  <2>1. s[i].id # s[j].id /\ s[i].id # 0 /\ s[j].id # 0
    BY <1>2, <1>3
  <2>2. Fits(s[i], rows, 0) /\ Fits(s[j], rows, 0) /\ PostedOnce
    BY <1>3 DEF Inv, TableInv
  <2> QED
    BY <1>2, <2>1, <2>2, RowsOfOneMessage
<1>6. marked' \subseteq 1..MaxRows
  <2>1. \A i \in 1..m : s[i].id \in 1..MaxRows
    BY <1>2, <1>3
  <2> QED
    BY <1>1, <1>4, <2>1 DEF Broadcasts
<1>7. ListInv(s, rows, first'.lo, first'.hi, marked')
  <2>1. Counted(s, first'.lo, marked')
    BY <1>1 DEF Counted, Broadcasts
  <2> QED
    BY <1>3, <1>4, <1>5, <2>1 DEF ListInv
<1>8. first'.lo = N + 1 - m /\ first'.hi = N /\ first' \in [lo : Nat, hi : Nat]
  BY <1>1, <1>2, <1>3
<1>9. Begins(s, first'.lo, first'.hi)
  <2>1. BeginsWith(s, m, N)
    BY <1>2, <1>3 DEF BeginsWith
  <2>2. m \in 0..N /\ N + 1 - (N + 1 - m) <= m
    BY <1>2, <1>3
  <2> QED
    BY <1>8, <2>1, <2>2 DEF Begins
<1>10. captured = <<>>
  BY <1>1 DEF Inv, PagesInv
<1>11. ListsInv'
  BY <1>1, <1>7, <1>9, <1>10 DEF ListsInv
<1>12. PagesInv'
  <2>1. hasMore' => m > 0
    BY <1>2, <1>3, <1>20
  <2>2. 1 <= N + 1 - m /\ N + 1 - m <= N + 1 /\ (m > 0 => N + 1 - m <= N)
    BY <1>2, <1>3
  <2> QED
    BY <1>1, <1>2, <1>8, <1>10, <2>1, <2>2 DEF PagesInv, N
<1>13. Grows
  BY <1>1, SameRowsGrow DEF Inv
<1>14. CallsInv' /\ EditInv' /\ edit' \in [id : 0..MaxRows, ver : Versions]
  BY <1>1, <1>13, CallsKept, EditKept
<1>15. events = <<>>
  BY <1>1 DEF Inv, EventsInv
<1>16. EventsInv'
  <2>1. DOMAIN events' = {}
    BY <1>1, <1>15
  <2> QED
    BY <1>1, <1>15, <2>1 DEF EventsInv
<1>17. TableInv'
  BY NextKeepsTable DEF Inv
<1>18. TypeOK'
  BY <1>1, <1>3, <1>6, <1>8, <1>14, <1>17, <1>20 DEF Inv, TypeOK, TableInv
<1> QED
  BY <1>11, <1>12, <1>14, <1>16, <1>17, <1>18 DEF Inv
-----------------------------------------------------------------------------
(* The specification.                                                      *)

LEMMA InitInv == Init => Inv
<1> SUFFICES ASSUME Init PROVE Inv
  OBVIOUS
<1>1. TableInv
  BY InitEstablishesTable
<1>2. Len(rows) = OldRows /\ OldRows <= MaxRows
  BY ChatRoomConstants DEF Init
<1>3. <<>> \in Seq(Item) /\ <<>> \in Seq(Event) /\ Len(<<>>) = 0 /\ DOMAIN <<>> = {}
  OBVIOUS
<1>4. TypeOK
  <2>1. rows \in Seq(Row) /\ Len(rows) <= MaxRows /\ call \in [Calls -> Call] /\ stray \subseteq Clients
    BY <1>1, <1>2 DEF TableInv, Init
  <2>2. events \in Seq(Event) /\ Len(events) <= MaxEvents /\ items \in Seq(Item)
        /\ captured \in Seq(Item)
    BY <1>3, ChatRoomConstants DEF Init
  <2>3. edit \in [id : 0..MaxRows, ver : Versions]
    BY NoEditIsTyped DEF Init
  <2>4. /\ joined \in BOOLEAN /\ view \in {"loading", "ready"} /\ hasMore \in BOOLEAN
        /\ marked \subseteq 1..MaxRows /\ first \in [lo : Nat, hi : Nat]
    BY DEF Init
  <2> QED
    BY <2>1, <2>2, <2>3, <2>4 DEF TypeOK
<1>5. CallsInv /\ EventsInv /\ EditInv
  BY <1>3 DEF Init, CallsInv, EventsInv, EditInv, NoCall
<1>6. PagesInv
  BY <1>2, ChatRoomConstants DEF Init, PagesInv
<1>7. ListsInv
  BY <1>3 DEF Init, ListsInv, ListInv, Unique, Counted
<1> QED
  BY <1>1, <1>4, <1>5, <1>6, <1>7 DEF Inv

LEMMA SendingKeepsInv ==
    ASSUME Inv, [Next]_vars, NEW k \in Calls, Sending(k)
    PROVE  Inv'
<1>1. CASE \E c \in Clients : SendText(k, c) \/ Retry(k, c)
  BY <1>1, SendTextKeepsInv, RetryKeepsInv
<1>2. CASE ServerInserts(k)
  BY <1>2, ServerInsertsKeepsInv
<1>3. CASE SendAnswered(k)
  BY <1>3, SendAnsweredKeepsInv
<1>4. CASE SendFailed(k) /\ ~call[k].retry
  BY <1>4, FirstSendFailedKeepsInv
<1>5. CASE FindAnswered(k)
  BY <1>5, FindAnsweredKeepsInv
<1>6. CASE \/ ServerRefuses(k) \/ RequestDelayed(k) \/ AnswerLost(k) \/ FindFailed(k)
           \/ SendFailed(k) /\ call[k].retry
  BY <1>6, RequestStepsKeepInv
<1> QED
  BY <1>1, <1>2, <1>3, <1>4, <1>5, <1>6 DEF Sending

LEMMA NextInv == Inv /\ [Next]_vars => Inv'
<1> SUFFICES ASSUME Inv, [Next]_vars PROVE Inv'
  OBVIOUS
<1>1. CASE Server
  BY <1>1, OtherInsertKeepsInv, OtherUpdateKeepsInv, StrayArrivesKeepsInv DEF Server
<1>2. CASE Channel
  BY <1>2, JoinKeepsInv, LoseEventKeepsInv, DeliverKeepsInv DEF Channel
<1>3. CASE Scroll
  BY <1>3, BuildKeepsInv, LoadMoreKeepsInv, LoadMoreAnsweredKeepsInv, LoadMoreFailedKeepsInv
     DEF Scroll
<1>4. CASE Edit
  BY <1>4, EditMessageKeepsInv, EditAnsweredKeepsInv, EditAnswerLostKeepsInv DEF Edit
<1>5. CASE \E k \in Calls : Sending(k)
  BY <1>5, SendingKeepsInv
<1>6. CASE UNCHANGED vars
  <2>1. UNCHANGED <<rows, joined, events, view, items, hasMore, captured, call, edit, marked,
                    first>>
    BY <1>6 DEF vars
  <2>2. Grows
    BY <2>1, SameRowsGrow DEF Inv
  <2>3. joined' \in BOOLEAN
    BY <2>1 DEF Inv, TypeOK
  <2> QED
    BY <2>1, <2>2, <2>3, EventsKept, CallsKept, EditKept, TableStep
<1> QED
  BY <1>1, <1>2, <1>3, <1>4, <1>5, <1>6 DEF Next

LEMMA Invariance == Spec => []Inv
BY InitInv, NextInv, PTL DEF Spec

\* Every state of the room is typed: in particular no handler shows, announces or edits a
\* row that is not in the table, and a call is never left half way.
THEOREM TypeCorrectness == Spec => []TypeOK
<1>1. Inv => TypeOK
  BY DEF Inv
<1> QED
  BY <1>1, Invariance, PTL

\* No message is on the screen twice: not as two rows, not as "sending" next to its own
\* row, whatever the order of answers, repeated events, retries and pages.
THEOREM MessagesShownOnce == Spec => []ShownOnce
<1>1. Inv => ShownOnce
  BY DEF Inv, ListsInv, ListInv, Unique, ShownOnce
<1> QED
  BY <1>1, Invariance, PTL

\* The list begins with an unbroken run of rows that ends at the newest row of the first
\* page: what arrives while loadMore is fetching neither opens a gap nor repeats a row.
THEOREM PagesAbut == Spec => []HistoryIsContiguous
<1>1. Inv => HistoryIsContiguous
  BY DEF Inv, ListsInv, Begins, BeginsWith, HistoryIsContiguous
<1> QED
  BY <1>1, Invariance, PTL

\* Every message of the idol shown from the first page on was marked as read, whichever
\* way it came on the screen.
THEOREM BroadcastsMarked == Spec => []BroadcastsAreMarked
<1>1. Inv => BroadcastsAreMarked
  BY DEF Inv, ListsInv, ListInv, Counted, Broadcasts, BroadcastsAreMarked
<1> QED
  BY <1>1, Invariance, PTL
=============================================================================
