--------------------------- MODULE CharacterRoom ---------------------------
(***************************************************************************)
(* The character of an idol, shared by everybody in the room               *)
(* (character/service.py): anybody triggers an action or drags the         *)
(* character, the idol furnishes the room.  They write columns of one row  *)
(* of character_states; an action is also put on record in                 *)
(* character_action_logs, in the same transaction.  hunger, happiness and  *)
(* energy are never written after the row is created and are left out, as  *)
(* are callers the backend refuses before it reads anything (401, 404).    *)
(***************************************************************************)
EXTENDS SharedRow
CONSTANTS Idol,         \* the idol whose room it is
          Fans,         \* others who are signed in
          Actions,      \* character_action_type
          Coordinates,  \* of the canvas
          Layouts,      \* arrangements of the furniture
          Null          \* coordinate or furniture never saved

VARIABLE logged   \* actions on record in character_action_logs

vars == <<row, logged, work>>

RoomColumns == {"action", "x", "y", "furniture"}
RoomValues == [action |-> Actions, furniture |-> Layouts \cup {Null},
               x |-> Coordinates \cup {Null}, y |-> Coordinates \cup {Null}]
RoomDefault == [action |-> "idle", x |-> Null, y |-> Null, furniture |-> Null]

ASSUME RoomConstants ==
    /\ Columns = RoomColumns /\ Values = RoomValues /\ Default = RoomDefault
    /\ AlwaysUpdates = FALSE
    /\ "idle" \in Actions /\ Idol \notin Fans

\* A request that writes the columns of the record v, and nothing else.
Write(v) == [patch |-> [c \in Columns |-> IF c \in DOMAIN v THEN v[c] ELSE Unset]]

ActionRequest(a)      == Write([action |-> a])
PositionRequest(c, d) == Write([x |-> c, y |-> d])
FurnitureRequest(l)   == Write([furniture |-> l])

Jobs == {ActionRequest(a) : a \in Actions}
        \cup {PositionRequest(c, d) : c \in Coordinates, d \in Coordinates}
        \cup {FurnitureRequest(l) : l \in Layouts}

ASSUME NothingIsNoJob == Nothing \notin Jobs

TypeOK == /\ row \in Rows \cup {Nothing}
          /\ logged \subseteq Actions
          /\ WorkTypes(Jobs, Rows, Rows)
          /\ \A r \in Requests : draft[r] # Nothing <=> pc[r] = "written"

Init == RowInit /\ IdleWork /\ logged = {}

-----------------------------------------------------------------------------
\* POST /character/{idol_id}/actions
TriggerAction(r, a) == Arrive(r, ActionRequest(a))

\* POST /character/{idol_id}/position
SavePosition(r, c, d) == Arrive(r, PositionRequest(c, d))

\* POST /character/{idol_id}/furniture: others are answered 403.
SaveFurniture(r, who, l) ==
    IF who = Idol THEN Arrive(r, FurnitureRequest(l))
    ELSE pc[r] \notin InFlight /\ Move(r, "refused", Nothing, Nothing, Nothing)

Ask(r) == /\ \/ \E a \in Actions : TriggerAction(r, a)
             \/ \E c, d \in Coordinates : SavePosition(r, c, d)
             \/ \E who \in Fans \cup {Idol}, l \in Layouts : SaveFurniture(r, who, l)
          /\ UNCHANGED <<row, logged>>

Step(r) == RowStep(r) /\ UNCHANGED logged

\* A wrong unit of work: the record of the action gets lost.
CommitUnlogged(r) == RowCommit(r) /\ UNCHANGED logged

\* The log row belongs to the same unit of work.
Commit(r) == /\ RowCommit(r)
             /\ logged' = logged \cup {job[r].patch[c] : c \in Asked(r) \cap {"action"}}

\* Any statement may raise: the session rolls back.
Fail(r) == Reply(r, "error") /\ UNCHANGED <<row, logged>>

Next == \E r \in Requests : Ask(r) \/ Step(r) \/ Commit(r) \/ Fail(r)

Spec == Init /\ [][Next]_vars

-----------------------------------------------------------------------------
\* What the character is shown doing is on record: no failure, lost race for the
\* first row or write of another column leaves an action without its log.
StateIsLogged == Visible("action") \in logged \cup {"idle"}
=============================================================================
