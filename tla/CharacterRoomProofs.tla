------------------------ MODULE CharacterRoomProofs ------------------------
(***************************************************************************)
(* For any number of requests, actions, coordinates and arrangements:      *)
(* the properties of CharacterRoom.                                        *)
(***************************************************************************)
EXTENDS CharacterRoom, TLAPS

\* A request that has read or written the row remembers it right: a row that was
\* there when it was loaded still is; the writer of the row, the only one, will
\* leave it as it is now but for the columns it writes.
RowInv ==
    /\ \A r \in Requests : pc[r] \in {"read", "written"} /\ seen[r] # Nothing => row # Nothing
    /\ \A r \in Requests : HoldsRow(r) =>
          /\ row = Nothing <=> seen[r] = Nothing
          /\ draft[r] = IF row = Nothing THEN Patched(Default, job[r].patch, Asked(r))
                        ELSE Patched(row, job[r].patch, Changed(r))
    /\ \A r, q \in Requests : HoldsRow(r) /\ HoldsRow(q) => r = q

Inv == TypeOK /\ RowInv /\ StateIsLogged

-----------------------------------------------------------------------------
LEMMA Constants ==
    /\ Default \in Rows /\ Nothing \notin Rows
    /\ \A c \in Columns : Unset \notin Values[c]
    /\ \A c \in Columns : Values[c] \subseteq AnyValue
    /\ "action" \in Columns
BY SharedRowConstants, RoomConstants DEF AnyValue, RoomColumns

\* A row stays a row whatever columns of a patch are applied to it.
LEMMA PatchedIsRow ==
    ASSUME NEW base \in Rows, NEW p \in Patches, NEW cs, \A c \in cs : p[c] # Unset
    PROVE  Patched(base, p, cs) \in Rows
<1>1. \A c \in Columns : Patched(base, p, cs)[c] \in Values[c]
    BY DEF Patched, Rows, Patches
<1> QED BY <1>1, Constants DEF Patched, Rows

\* Every request has a patch, typed.
LEMMA JobsPatch ==
    ASSUME NEW j \in Jobs
    PROVE  "patch" \in DOMAIN j /\ j.patch \in Patches
<1> DEFINE Typed(v) == \A c \in DOMAIN v : c \in Columns => v[c] \in Values[c]
<1>1. ASSUME NEW v, Typed(v)
      PROVE  "patch" \in DOMAIN Write(v) /\ Write(v).patch \in Patches
    BY <1>1, Constants DEF Write, Patches
<1>2. /\ Values["action"] = Actions
      /\ Coordinates \subseteq Values["x"] /\ Coordinates \subseteq Values["y"]
      /\ Layouts \subseteq Values["furniture"]
    BY RoomConstants DEF RoomValues
<1>3. ASSUME NEW a \in Actions
      PROVE  "patch" \in DOMAIN ActionRequest(a) /\ ActionRequest(a).patch \in Patches
    BY <1>1, <1>2 DEF ActionRequest
<1>4. ASSUME NEW c \in Coordinates, NEW d \in Coordinates
      PROVE  "patch" \in DOMAIN PositionRequest(c, d) /\ PositionRequest(c, d).patch \in Patches
    BY <1>1, <1>2 DEF PositionRequest
<1>5. ASSUME NEW l \in Layouts
      PROVE  "patch" \in DOMAIN FurnitureRequest(l) /\ FurnitureRequest(l).patch \in Patches
    BY <1>1, <1>2 DEF FurnitureRequest
<1> QED BY <1>3, <1>4, <1>5 DEF Jobs

-----------------------------------------------------------------------------
(* The steps.  Those of one request concern the others only by the row.    *)

\* A step of r leaves the other requests alone.
LEMMA OthersStay ==
    ASSUME TypeOK, NEW r \in Requests, NEW l, NEW j, NEW s, NEW d, Move(r, l, j, s, d)
    PROVE  /\ pc'[r] = l /\ job'[r] = j /\ seen'[r] = s /\ draft'[r] = d
           /\ \A q \in Requests \ {r} : /\ pc'[q] = pc[q] /\ job'[q] = job[q]
                                         /\ seen'[q] = seen[q] /\ draft'[q] = draft[q]
BY DEF Move, TypeOK, WorkTypes, JobTypes

\* The types, when r moves to a label with what belongs to it.
LEMMA MoveKeepsTypes ==
    ASSUME TypeOK, NEW r \in Requests, NEW l, NEW j, NEW s, NEW d, Move(r, l, j, s, d),
           l \in {"idle"} \cup InFlight \cup Answers,
           j \in Jobs \cup {Nothing}, j # Nothing <=> l \in InFlight,
           s \in Rows \cup {Nothing},
           d \in Rows \cup {Nothing}, d # Nothing <=> l = "written",
           row' \in Rows \cup {Nothing}, logged' \subseteq Actions
    PROVE  TypeOK'
<1>1. /\ pc' \in [Requests -> {"idle"} \cup InFlight \cup Answers]
      /\ job' \in [Requests -> Jobs \cup {Nothing}]
      /\ seen' \in [Requests -> Rows \cup {Nothing}]
      /\ draft' \in [Requests -> Rows \cup {Nothing}]
    BY DEF Move, TypeOK, WorkTypes, JobTypes
<1>2. \A q \in Requests : pc'[q] \in InFlight <=> job'[q] # Nothing
    BY OthersStay DEF TypeOK, WorkTypes, JobTypes
<1>3. \A q \in Requests : draft'[q] # Nothing <=> pc'[q] = "written"
    BY OthersStay DEF TypeOK
<1> QED BY <1>1, <1>2, <1>3 DEF TypeOK, WorkTypes, JobTypes

\* A request under way has a job with a patch.
LEMMA InFlightPatch ==
    ASSUME TypeOK, NEW r \in Requests, pc[r] \in InFlight
    PROVE  /\ job[r] \in Jobs /\ job[r] # Nothing /\ "patch" \in DOMAIN job[r]
           /\ job[r].patch \in Patches
BY JobsPatch DEF TypeOK, WorkTypes, JobTypes

\* Whether r holds the row is decided by what belongs to r.
LEMMA HoldingStays ==
    ASSUME NEW q \in Requests, pc'[q] = pc[q], job'[q] = job[q], seen'[q] = seen[q]
    PROVE  HoldsRow(q)' = HoldsRow(q) /\ Asked(q)' = Asked(q) /\ Changed(q)' = Changed(q)
<1>1. Asked(q)' = Asked(q) BY DEF Asked
<1>2. Changed(q)' = Changed(q) BY <1>1 DEF Changed
<1> QED BY <1>1, <1>2 DEF HoldsRow, Writes

\* A step of r that leaves the row as it is and does not end up holding it.
LEMMA RowInvStays ==
    ASSUME TypeOK, RowInv, NEW r \in Requests, NEW l, NEW j, NEW s, NEW d,
           Move(r, l, j, s, d), UNCHANGED row,
           l \in {"read", "written"} /\ s # Nothing => row # Nothing,
           l = "written" => ~HoldsRow(r)'
    PROVE  RowInv'
<1>1. pc'[r] = l /\ job'[r] = j /\ seen'[r] = s /\ draft'[r] = d BY OthersStay
<1>2. ~HoldsRow(r)' BY <1>1 DEF HoldsRow
<1>3. \A q \in Requests \ {r} : /\ pc'[q] = pc[q] /\ job'[q] = job[q]
                                /\ seen'[q] = seen[q] /\ draft'[q] = draft[q]
    BY OthersStay
<1>4. \A q \in Requests \ {r} : /\ HoldsRow(q)' = HoldsRow(q)
                                /\ Asked(q)' = Asked(q) /\ Changed(q)' = Changed(q)
    BY <1>3, HoldingStays
<1>5. \A q \in Requests : pc'[q] \in {"read", "written"} /\ seen'[q] # Nothing => row' # Nothing
    BY <1>1, <1>3 DEF RowInv
<1>6. ASSUME NEW q \in Requests, HoldsRow(q)'
      PROVE  /\ row' = Nothing <=> seen'[q] = Nothing
             /\ draft'[q] = IF row' = Nothing THEN Patched(Default, job'[q].patch, Asked(q)')
                            ELSE Patched(row', job'[q].patch, Changed(q)')
    BY <1>2, <1>3, <1>4, <1>6 DEF RowInv, Patched
<1>7. \A p, q \in Requests : HoldsRow(p)' /\ HoldsRow(q)' => p = q
    BY <1>2, <1>4 DEF RowInv
<1> QED BY <1>5, <1>6, <1>7 DEF RowInv, Patched

\* A flush by r that takes the row.
LEMMA RowInvTaken ==
    ASSUME TypeOK, RowInv, NEW r \in Requests, NEW s, NEW d,
           Flushed(r, s, d), UNCHANGED row, RowIsFree(r),
           s = seen[r], row = Nothing <=> s = Nothing,
           d = IF row = Nothing THEN Patched(Default, job[r].patch, Asked(r))
               ELSE Patched(row, job[r].patch, Changed(r))
    PROVE  RowInv'
<1>1. /\ pc'[r] = "written" /\ job'[r] = job[r] /\ seen'[r] = s /\ draft'[r] = d
      /\ \A q \in Requests \ {r} : /\ pc'[q] = pc[q] /\ job'[q] = job[q]
                                   /\ seen'[q] = seen[q] /\ draft'[q] = draft[q]
    BY OthersStay DEF Flushed
<1>2. \A q \in Requests \ {r} : ~HoldsRow(q)'
    BY <1>1, HoldingStays DEF RowIsFree
<1>3. Asked(r)' = Asked(r) BY <1>1 DEF Asked
<1>4. Changed(r)' = Changed(r) BY <1>1, <1>3 DEF Changed
<1>5. \A q \in Requests : pc'[q] \in {"read", "written"} /\ seen'[q] # Nothing => row' # Nothing
    BY <1>1 DEF RowInv
<1>6. /\ row' = Nothing <=> seen'[r] = Nothing
      /\ draft'[r] = IF row' = Nothing THEN Patched(Default, job'[r].patch, Asked(r)')
                     ELSE Patched(row', job'[r].patch, Changed(r)')
    BY <1>1, <1>3, <1>4
<1> QED BY <1>2, <1>5, <1>6 DEF RowInv, Patched

-----------------------------------------------------------------------------
(* Every action keeps the invariant.                                       *)

LEMMA WriteIsJob ==
    /\ \A a \in Actions : ActionRequest(a) \in Jobs
    /\ \A c, d \in Coordinates : PositionRequest(c, d) \in Jobs
    /\ \A l \in Layouts : FurnitureRequest(l) \in Jobs
BY DEF Jobs

LEMMA AskKeeps ==
    ASSUME Inv, NEW r \in Requests, Ask(r)
    PROVE  Inv'
<1>1. ASSUME NEW j \in Jobs, Arrive(r, j), UNCHANGED <<row, logged>>
      PROVE  Inv'
  <2>1. j # Nothing BY NothingIsNoJob
  <2>2. TypeOK'
    BY <1>1, <2>1, MoveKeepsTypes DEF Inv, TypeOK, Arrive, InFlight
  <2>3. RowInv' BY <1>1, RowInvStays DEF Inv, Arrive
  <2> QED BY <1>1, <2>2, <2>3 DEF Inv, StateIsLogged, Visible
<1>2. ASSUME Move(r, "refused", Nothing, Nothing, Nothing), UNCHANGED <<row, logged>>
      PROVE  Inv'
  <2>1. TypeOK'
    BY <1>2, MoveKeepsTypes DEF Inv, TypeOK, InFlight, Answers
  <2>2. RowInv' BY <1>2, RowInvStays DEF Inv
  <2> QED BY <1>2, <2>1, <2>2 DEF Inv, StateIsLogged, Visible
<1>3. UNCHANGED <<row, logged>> BY DEF Ask
<1>4. CASE \E a \in Actions : TriggerAction(r, a)
    BY <1>1, <1>3, <1>4, WriteIsJob DEF TriggerAction
<1>5. CASE \E c, d \in Coordinates : SavePosition(r, c, d)
    BY <1>1, <1>3, <1>5, WriteIsJob DEF SavePosition
<1>6. CASE \E who \in Fans \cup {Idol}, l \in Layouts : SaveFurniture(r, who, l)
    BY <1>1, <1>2, <1>3, <1>6, WriteIsJob DEF SaveFurniture
<1> QED BY <1>4, <1>5, <1>6 DEF Ask

LEMMA ReplyKeeps ==
    ASSUME Inv, NEW r \in Requests, NEW a \in Answers, Reply(r, a), UNCHANGED <<row, logged>>
    PROVE  Inv'
<1>1. TypeOK'
    BY MoveKeepsTypes DEF Inv, TypeOK, Reply, InFlight, Answers
<1>2. a # "written" /\ a # "read" BY DEF Answers
<1>3. RowInv' BY <1>2, RowInvStays DEF Inv, Reply
<1> QED BY <1>1, <1>3 DEF Inv, StateIsLogged, Visible

\* What a flush leaves in the session is a row.
LEMMA FlushTypes ==
    ASSUME Inv, NEW r \in Requests, NEW s \in Rows \cup {Nothing}, NEW d \in Rows,
           Flushed(r, s, d), UNCHANGED <<row, logged>>
    PROVE  TypeOK'
<1>1. /\ job[r] \in Jobs /\ job[r] # Nothing
    BY InFlightPatch DEF Inv, Flushed, InFlight
<1>2. d # Nothing BY Constants
<1> QED BY <1>1, <1>2, MoveKeepsTypes DEF Inv, TypeOK, Flushed, InFlight

LEMMA StepKeeps ==
    ASSUME Inv, NEW r \in Requests, Step(r)
    PROVE  Inv'
<1>1. UNCHANGED logged BY DEF Step
<1>2. SUFFICES TypeOK' /\ RowInv' /\ UNCHANGED row
    BY <1>1 DEF Inv, StateIsLogged, Visible
<1>3. CASE Load(r)
  <2>1. row \in Rows \cup {Nothing} /\ UNCHANGED row BY <1>3 DEF Inv, TypeOK, Load
  <2>2. job[r] \in Jobs /\ job[r] # Nothing
      BY <1>3, InFlightPatch DEF Inv, Load, Loaded, InFlight
  <2>3. TypeOK'
      BY <1>1, <1>3, <2>1, <2>2, MoveKeepsTypes DEF Inv, TypeOK, Load, Loaded, InFlight
  <2>4. RowInv' BY <1>3, <2>1, RowInvStays DEF Inv, Load, Loaded
  <2> QED BY <2>1, <2>3, <2>4
<1>4. CASE InsertCollides(r)
    BY <1>1, <1>4, ReplyKeeps DEF InsertCollides, Inv, Answers
<1>5. CASE Insert(r)
  <2> DEFINE d == Patched(Default, job[r].patch, Asked(r))
  <2>1. /\ pc[r] = "read" /\ seen[r] = Nothing /\ RowIsFree(r) /\ row = Nothing
        /\ Flushed(r, seen[r], d) /\ UNCHANGED row
      BY <1>5 DEF Insert
  <2>2. job[r].patch \in Patches BY <2>1, InFlightPatch DEF Inv, InFlight
  <2>3. d \in Rows BY <2>2, PatchedIsRow, Constants DEF Asked
  <2>4. TypeOK' BY <1>1, <2>1, <2>3, FlushTypes
  <2>5. RowInv' BY <2>1, RowInvTaken DEF Inv
  <2> QED BY <2>1, <2>4, <2>5
<1>6. CASE Update(r)
  <2> DEFINE d == Patched(row, job[r].patch, Changed(r))
  <2>1. /\ pc[r] = "read" /\ seen[r] # Nothing /\ RowIsFree(r)
        /\ Flushed(r, seen[r], d) /\ UNCHANGED row
      BY <1>6 DEF Update
  <2>2. job[r].patch \in Patches BY <2>1, InFlightPatch DEF Inv, InFlight
  <2>3. row # Nothing /\ row \in Rows BY <2>1 DEF Inv, RowInv, TypeOK
  <2>4. d \in Rows BY <2>2, <2>3, PatchedIsRow DEF Changed, Asked
  <2>5. seen[r] \in Rows \cup {Nothing} BY DEF Inv, TypeOK, WorkTypes
  <2>6. TypeOK' BY <1>1, <2>1, <2>4, <2>5, FlushTypes
  <2>7. RowInv' BY <2>1, <2>3, RowInvTaken DEF Inv
  <2> QED BY <2>1, <2>6, <2>7
<1>7. CASE WriteNothing(r)
  <2> DEFINE d == IF Asked(r) = {} THEN seen[r] ELSE row
  <2>1. /\ pc[r] = "read" /\ ~Writes(r) /\ Flushed(r, seen[r], d) /\ UNCHANGED row
      BY <1>7 DEF WriteNothing
  <2>2. seen[r] # Nothing BY <2>1 DEF Writes
  <2>3. seen[r] \in Rows /\ row \in Rows /\ row # Nothing
      BY <2>1, <2>2 DEF Inv, TypeOK, WorkTypes, RowInv
  <2>4. TypeOK' BY <1>1, <2>1, <2>3, FlushTypes
  <2>5. pc'[r] = "written" /\ job'[r] = job[r] /\ seen'[r] = seen[r]
      BY <2>1, OthersStay DEF Inv, Flushed
  <2>6. ~HoldsRow(r)'
    <3>1. Asked(r)' = Asked(r) BY <2>5 DEF Asked
    <3>2. Changed(r)' = Changed(r) BY <2>5, <3>1 DEF Changed
    <3> QED BY <2>1, <2>5, <3>1, <3>2 DEF HoldsRow, Writes
  <2>7. RowInv' BY <2>1, <2>3, <2>6, RowInvStays DEF Inv, Flushed
  <2> QED BY <2>1, <2>4, <2>7
<1> QED BY <1>3, <1>4, <1>5, <1>6, <1>7 DEF Step, RowStep

\* What a commit makes of the row.
LEMMA CommitShows ==
    ASSUME Inv, NEW r \in Requests, RowCommit(r)
    PROVE  /\ row' \in Rows /\ row' # Nothing
           /\ ~Writes(r) => UNCHANGED row
           /\ \A c \in Columns \ Asked(r) : Visible(c)' = Visible(c)
           /\ \A c \in Asked(r) : \/ Visible(c)' = job[r].patch[c]
                                  \/ /\ seen[r] # Nothing /\ seen[r][c] = job[r].patch[c]
                                     /\ Visible(c)' = Visible(c)
<1>1. pc[r] = "written" /\ draft[r] \in Rows
    BY DEF RowCommit, Inv, TypeOK, WorkTypes
<1>2. "patch" \in DOMAIN job[r] BY <1>1, InFlightPatch DEF Inv, InFlight
<1>3. Nothing \notin Rows BY Constants
<1>4. Asked(r) \subseteq Columns /\ Changed(r) \subseteq Asked(r) BY DEF Asked, Changed
<1>5. CASE Writes(r) /\ row = Nothing
  <2>1. draft[r] = Patched(Default, job[r].patch, Asked(r))
      BY <1>1, <1>2, <1>5 DEF HoldsRow, Inv, RowInv
  <2>2. row' = draft[r] BY <1>5 DEF RowCommit
  <2> QED BY <1>1, <1>3, <1>4, <1>5, <2>1, <2>2 DEF Visible, Patched
<1>6. CASE Writes(r) /\ row # Nothing
  <2>1. /\ draft[r] = Patched(row, job[r].patch, Changed(r)) /\ seen[r] # Nothing
      BY <1>1, <1>2, <1>6 DEF HoldsRow, Inv, RowInv
  <2>2. row' = draft[r] BY <1>6 DEF RowCommit
  <2>3. \A c \in Asked(r) \ Changed(r) : seen[r][c] = job[r].patch[c] BY DEF Changed
  <2> QED BY <1>1, <1>3, <1>4, <1>6, <2>1, <2>2, <2>3 DEF Visible, Patched
<1>7. CASE ~Writes(r)
  <2>1. UNCHANGED row BY <1>7 DEF RowCommit
  <2>2. seen[r] # Nothing /\ Changed(r) = {} BY <1>7 DEF Writes
  <2>3. row # Nothing /\ row \in Rows BY <1>1, <2>2 DEF Inv, RowInv, TypeOK
  <2>4. \A c \in Asked(r) : seen[r][c] = job[r].patch[c] BY <2>2 DEF Changed
  <2> QED BY <2>1, <2>2, <2>3, <2>4 DEF Visible
<1> QED BY <1>5, <1>6, <1>7

LEMMA CommitKeeps ==
    ASSUME Inv, NEW r \in Requests, Commit(r)
    PROVE  Inv'
<1>1. RowCommit(r) /\ Reply(r, "ok") /\ pc[r] = "written" BY DEF Commit, RowCommit
<1>2. Move(r, "ok", Nothing, Nothing, Nothing) BY <1>1 DEF Reply
<1>3. /\ pc'[r] = "ok"
      /\ \A q \in Requests \ {r} : /\ pc'[q] = pc[q] /\ job'[q] = job[q]
                                   /\ seen'[q] = seen[q] /\ draft'[q] = draft[q]
    BY <1>2, OthersStay DEF Inv
<1>4. row' \in Rows /\ row' # Nothing BY <1>1, CommitShows
<1>5. job[r].patch \in Patches BY <1>1, InFlightPatch DEF Inv, InFlight
<1>6. logged' = logged \cup {job[r].patch[c] : c \in Asked(r) \cap {"action"}}
    BY DEF Commit
<1>7. "action" \in Asked(r) => job[r].patch["action"] \in Actions
    BY <1>5, RoomConstants DEF Asked, Patches, RoomColumns, RoomValues
<1>8. TypeOK'
  <2>1. logged' \subseteq Actions BY <1>6, <1>7 DEF Inv, TypeOK
  <2> QED BY <1>2, <1>4, <2>1, MoveKeepsTypes DEF Inv, TypeOK, InFlight, Answers
<1>9. RowInv'
  <2>1. \A q \in Requests \ {r} : HoldsRow(q)' = HoldsRow(q) BY <1>3, HoldingStays
  <2>2. ~HoldsRow(r)' BY <1>3 DEF HoldsRow
  <2>3. CASE Writes(r)
    <3>1. HoldsRow(r) BY <1>1, <2>3, InFlightPatch DEF HoldsRow, Inv, InFlight
    <3>2. \A q \in Requests : ~HoldsRow(q)' BY <2>1, <2>2, <3>1 DEF Inv, RowInv
    <3> QED BY <1>4, <3>2 DEF RowInv
  <2>4. CASE ~Writes(r)
    <3>1. UNCHANGED row BY <1>1, <2>4, CommitShows
    <3> QED BY <1>2, <3>1, RowInvStays DEF Inv
  <2> QED BY <2>3, <2>4
<1>10. StateIsLogged'
  <2>1. CASE "action" \in Asked(r)
    <3>1. Visible("action")' \in {job[r].patch["action"], Visible("action")}
        BY <1>1, <2>1, CommitShows
    <3>2. job[r].patch["action"] \in logged' /\ logged \subseteq logged' BY <1>6, <2>1
    <3> QED BY <3>1, <3>2 DEF Inv, StateIsLogged
  <2>2. CASE "action" \notin Asked(r)
    <3>1. Visible("action")' = Visible("action") BY <1>1, <2>2, CommitShows, Constants
    <3> QED BY <1>6, <3>1 DEF Inv, StateIsLogged
  <2> QED BY <2>1, <2>2
<1> QED BY <1>8, <1>9, <1>10 DEF Inv

LEMMA InitHolds == Init => Inv
<1>1. Init => TypeOK
    BY DEF Init, RowInit, IdleWork, TypeOK, WorkTypes, JobTypes, InFlight
<1>2. Init => RowInv
    BY DEF Init, IdleWork, RowInv, HoldsRow
<1>3. Init => StateIsLogged
  <2>1. Default["action"] = "idle" BY RoomConstants DEF RoomDefault, RoomColumns
  <2> QED BY <2>1 DEF Init, RowInit, StateIsLogged, Visible
<1> QED BY <1>1, <1>2, <1>3 DEF Inv

LEMMA StutterKeeps == Inv /\ UNCHANGED vars => Inv'
<1> SUFFICES ASSUME Inv, UNCHANGED vars PROVE Inv' OBVIOUS
<1>1. UNCHANGED <<row, logged, pc, job, seen, draft>> BY DEF vars, work
<1>2. TypeOK' BY <1>1 DEF Inv, TypeOK, WorkTypes, JobTypes
<1>3. \A q \in Requests : /\ HoldsRow(q)' = HoldsRow(q)
                          /\ Asked(q)' = Asked(q) /\ Changed(q)' = Changed(q)
    BY <1>1, HoldingStays
<1>4. RowInv' BY <1>1, <1>3 DEF Inv, RowInv, Patched
<1> QED BY <1>1, <1>2, <1>4 DEF Inv, StateIsLogged, Visible

\* The invariant, and that it is inductive.
THEOREM Invariance == Spec => []Inv
<1>1. Inv /\ [Next]_vars => Inv'
  <2> SUFFICES ASSUME Inv, Next PROVE Inv' BY StutterKeeps
  <2>1. PICK r \in Requests : Ask(r) \/ Step(r) \/ Commit(r) \/ Fail(r) BY DEF Next
  <2>2. CASE Fail(r) BY <2>2, ReplyKeeps DEF Fail, Answers
  <2> QED BY <2>1, <2>2, AskKeeps, StepKeeps, CommitKeeps
<1> QED BY <1>1, InitHolds, PTL DEF Spec

\* Every variable keeps its type: see TypeOK.
THEOREM TypeCorrectness == Spec => []TypeOK
BY Invariance, PTL DEF Inv

\* What the character is shown doing was put on record: see StateIsLogged.
THEOREM ActionsAreLogged == Spec => []StateIsLogged
BY Invariance, PTL DEF Inv

\* Only a commit changes the row.
LEMMA OnlyCommitsShow ==
    ASSUME Inv, [Next]_vars, ~ \E r \in Requests : Commit(r)
    PROVE  UNCHANGED row
<1>1. CASE UNCHANGED vars BY <1>1 DEF vars
<1>2. ASSUME NEW r \in Requests, Ask(r) \/ Step(r) \/ Fail(r) PROVE UNCHANGED row
    BY <1>2 DEF Ask, Step, Fail, RowStep, Load, Insert, InsertCollides, Update, WriteNothing
<1> QED BY <1>1, <1>2 DEF Next

\* Only the request that commits does.
LEMMA CommitterIsKnown ==
    ASSUME Inv, [Next]_vars, NEW r \in Requests, Commits(r)
    PROVE  Commit(r)
<1>1. pc[r] = "written" /\ pc'[r] = "ok" BY DEF Commits
<1>2. ~ UNCHANGED vars BY <1>1 DEF vars, work
<1>3. PICK q \in Requests : Ask(q) \/ Step(q) \/ Commit(q) \/ Fail(q) BY <1>2 DEF Next
<1>4. \E l, j, s, d : Move(q, l, j, s, d) /\ (l = "ok" => Commit(q))
  <2>1. CASE Fail(q) BY <2>1 DEF Fail, Reply
  <2>2. CASE Commit(q) BY <2>2 DEF Commit, RowCommit, Reply
  <2>3. CASE Step(q)
      BY <2>3 DEF Step, RowStep, Load, Insert, InsertCollides, Update, WriteNothing,
                  Loaded, Flushed, Reply
  <2>4. CASE Ask(q)
    <3>1. \E j : Arrive(q, j) \/ Move(q, "refused", Nothing, Nothing, Nothing)
        BY <2>4 DEF Ask, TriggerAction, SavePosition, SaveFurniture
    <3> QED BY <3>1 DEF Arrive
  <2> QED BY <1>3, <2>1, <2>2, <2>3, <2>4
<1>5. q = r BY <1>1, <1>4, OthersStay DEF Inv
<1>6. PICK l, j, s, d : Move(r, l, j, s, d) /\ (l = "ok" => Commit(r)) BY <1>4, <1>5
<1>7. l = "ok" BY <1>1, <1>6, OthersStay DEF Inv
<1> QED BY <1>6, <1>7

\* No write of one column disturbs another: see ChangesAreAsked.
THEOREM WritesAreLocal == Spec => ChangesAreAsked
<1>1. Inv /\ [Next]_vars =>
        [\A c \in Columns :
            Visible(c)' # Visible(c) =>
               \E r \in Requests : /\ Commits(r) /\ c \in Asked(r)
                                   /\ job[r].patch[c] = Visible(c)']_rowVars
  <2> SUFFICES ASSUME Inv, [Next]_vars, NEW c \in Columns, Visible(c)' # Visible(c)
               PROVE  \E r \in Requests : /\ Commits(r) /\ c \in Asked(r)
                                          /\ job[r].patch[c] = Visible(c)'
      OBVIOUS
  <2>1. ~ UNCHANGED row BY DEF Visible
  <2>2. PICK r \in Requests : Commit(r) BY <2>1, OnlyCommitsShow
  <2>3. RowCommit(r) BY <2>2 DEF Commit
  <2>4. Commits(r)
      BY <2>3, OthersStay DEF RowCommit, Reply, Commits, Inv
  <2> QED BY <2>3, <2>4, CommitShows
<1> QED BY <1>1, Invariance, PTL DEF Spec, ChangesAreAsked

\* A write that is committed is applied: see CommitsApply.
THEOREM WritesAreApplied == Spec => CommitsApply
<1>1. Inv /\ [Next]_vars =>
        [\A r \in Requests : Commits(r) =>
            \A c \in Asked(r) : \/ Visible(c)' = job[r].patch[c]
                                \/ seen[r] # Nothing /\ seen[r][c] = job[r].patch[c]]_rowVars
  <2> SUFFICES ASSUME Inv, [Next]_vars, NEW r \in Requests, Commits(r), NEW c \in Asked(r)
               PROVE  \/ Visible(c)' = job[r].patch[c]
                      \/ seen[r] # Nothing /\ seen[r][c] = job[r].patch[c]
      OBVIOUS
  <2>1. RowCommit(r) BY CommitterIsKnown DEF Commit
  <2> QED BY <2>1, CommitShows
<1> QED BY <1>1, Invariance, PTL DEF Spec, CommitsApply
=============================================================================
