----------------------------- MODULE SharedRow -----------------------------
(***************************************************************************)
(* One row that several people write a few columns of at a time: the       *)
(* preferences of a user (notification_prefs) and the character of an idol *)
(* (character_states).  Both services load the row without a lock, create  *)
(* it if it is missing, assign the columns they were asked to, flush and   *)
(* commit.  SQLAlchemy writes only those columns whose value differs from  *)
(* the one it loaded.                                                      *)
(***************************************************************************)
EXTENDS Transactions
CONSTANTS Columns,         \* columns clients write
          Values,          \* the values of each column
          Default,         \* the row before anybody wrote it
          Unset,           \* a column left out of a request
          AlwaysUpdates    \* the handler also sets updated_at itself

VARIABLE row   \* the committed row, Nothing until it is created

rowVars == <<row, work>>

AnyValue == UNION {Values[c] : c \in Columns}
Rows     == {f \in [Columns -> AnyValue] : \A c \in Columns : f[c] \in Values[c]}
Patches  == {p \in [Columns -> AnyValue \cup {Unset}] :
                \A c \in Columns : p[c] \in Values[c] \cup {Unset}}

ASSUME SharedRowConstants == /\ Default \in Rows /\ Nothing \notin Rows
                             /\ Unset \notin AnyValue
                             /\ AlwaysUpdates \in BOOLEAN

RowInit == row = Nothing

\* What is shown of column c: the defaults stand in for a missing row.
Visible(c) == IF row = Nothing THEN Default[c] ELSE row[c]

-----------------------------------------------------------------------------
Asked(r) == {c \in Columns : job[r].patch[c] # Unset}

\* The columns SQLAlchemy finds changed.
Changed(r) == {c \in Asked(r) : job[r].patch[c] # seen[r][c]}

\* Whether the flush of r executes an INSERT or UPDATE at all.
Writes(r) == \/ seen[r] = Nothing
             \/ Changed(r) # {}
             \/ AlwaysUpdates /\ Asked(r) # {}

\* Requests about other tables have no patch.
HoldsRow(r) == pc[r] = "written" /\ "patch" \in DOMAIN job[r] /\ Writes(r)

RowIsFree(r) == \A q \in Requests \ {r} : ~HoldsRow(q)

\* A wrong patch: columns left out of the request are written as well.
PatchedRaw(base, p, cs) == p

Patched(base, p, cs) == [c \in Columns |-> IF c \in cs THEN p[c] ELSE base[c]]

Load(r) == Loaded(r, row) /\ UNCHANGED row

\* The row was missing: INSERT, which waits for an uncommitted INSERT of the same
\* key.  The IntegrityError of the loser is not handled.
Insert(r) == /\ pc[r] = "read" /\ seen[r] = Nothing /\ RowIsFree(r)
             /\ row = Nothing
             /\ Flushed(r, seen[r], Patched(Default, job[r].patch, Asked(r)))
             /\ UNCHANGED row

Collides(r) == pc[r] = "read" /\ seen[r] = Nothing /\ RowIsFree(r) /\ row # Nothing

\* Wrong collisions: ON CONFLICT DO NOTHING, answered with the row that is there;
\* the INSERT tried again.
InsertIgnoresCollision(r) == Collides(r) /\ Flushed(r, row, row) /\ UNCHANGED row
InsertIsRepeated(r) == Collides(r) /\ UNCHANGED rowVars

InsertCollides(r) == Collides(r) /\ Reply(r, "error") /\ UNCHANGED row

UpdateColumns(r, base) == /\ pc[r] = "read" /\ seen[r] # Nothing
                          /\ Writes(r) /\ RowIsFree(r)
                          /\ Flushed(r, seen[r], Patched(base, job[r].patch, Asked(r)))
                          /\ UNCHANGED row

\* A wrong UPDATE: all the columns, as they were loaded.
UpdateWholeRow(r) == UpdateColumns(r, seen[r])

\* UPDATE of the changed columns: waits for the row, keeps its other columns.
Update(r) == /\ pc[r] = "read" /\ seen[r] # Nothing
             /\ Writes(r) /\ RowIsFree(r)
             /\ Flushed(r, seen[r], Patched(row, job[r].patch, Changed(r)))
             /\ UNCHANGED row

\* Nothing to write, hence no statement and no lock; a write is answered with the
\* row as it is read again, a GET with the one it loaded.
WriteNothing(r) == /\ pc[r] = "read" /\ ~Writes(r)
                   /\ Flushed(r, seen[r], IF Asked(r) = {} THEN seen[r] ELSE row)
                   /\ UNCHANGED row

RowStep(r) == Load(r) \/ Insert(r) \/ InsertCollides(r) \/ Update(r) \/ WriteNothing(r)

RowCommit(r) == /\ pc[r] = "written"
                /\ row' = IF Writes(r) THEN draft[r] ELSE row
                /\ Reply(r, "ok")

-----------------------------------------------------------------------------
(* Properties, checked and proved for the two tables by the modules that   *)
(* use this one.                                                           *)

\* A column shows a new value only when a request that asked for this value
\* commits.  Writes of other columns, the creation of the row and two first
\* writes at a time change nothing else: no write is undone by the way.
ChangesAreAsked ==
    [][\A c \in Columns :
          Visible(c)' # Visible(c) =>
             \E r \in Requests : /\ Commits(r) /\ c \in Asked(r)
                                 /\ job[r].patch[c] = Visible(c)']_rowVars

\* A write that is committed has set every column it was asked to, save those
\* that had the value already when the session loaded the row.  (Such a column
\* may have changed since and is then not set: see README.)
CommitsApply ==
    [][\A r \in Requests : Commits(r) =>
          \A c \in Asked(r) : \/ Visible(c)' = job[r].patch[c]
                              \/ seen[r] # Nothing /\ seen[r][c] = job[r].patch[c]]_rowVars
=============================================================================
