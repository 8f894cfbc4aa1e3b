---------------------------- MODULE Transactions ----------------------------
(***************************************************************************)
(* What the request handlers of the backend have in common (core/db.py):   *)
(* a request is one SQLAlchemy session and one READ COMMITTED transaction. *)
(* It reads rows without locking them, flushes its writes, which locks the *)
(* rows and keys written, and commits after the handler returned; whatever *)
(* is raised before that rolls it back.                                    *)
(***************************************************************************)
CONSTANTS Requests,  \* concurrent requests the backend may be serving
          Nothing    \* no job, no row, nothing to write

VARIABLES pc,     \* how far each request has come, and its answer
          job,    \* what each request was asked to do
          seen,   \* the row each session holds as it was when it was loaded
          draft   \* the row as flushed, which the answer shows

work == <<pc, job, seen, draft>>

\* An answer that is lost on its way changes nothing here: its client asks again,
\* which it may do anyway.
InFlight == {"admitted", "checked", "read", "written"}
Answers  == {"ok", "refused", "error"}

\* The types: of jobs, of rows loaded and of rows flushed.
JobTypes(J) == /\ pc \in [Requests -> {"idle"} \cup InFlight \cup Answers]
               /\ job \in [Requests -> J \cup {Nothing}]
               /\ \A r \in Requests : pc[r] \in InFlight <=> job[r] # Nothing

WorkTypes(J, S, D) == /\ JobTypes(J)
                      /\ seen \in [Requests -> S \cup {Nothing}]
                      /\ draft \in [Requests -> D \cup {Nothing}]

IdleWork == /\ pc = [r \in Requests |-> "idle"]
            /\ job = [r \in Requests |-> Nothing]
            /\ seen = [r \in Requests |-> Nothing]
            /\ draft = [r \in Requests |-> Nothing]

Move(r, label, j, s, d) == /\ pc' = [pc EXCEPT ![r] = label]
                           /\ job' = [job EXCEPT ![r] = j]
                           /\ seen' = [seen EXCEPT ![r] = s]
                           /\ draft' = [draft EXCEPT ![r] = d]

\* A request arrives and its caller is admitted (core/auth.get_current_user).
Arrive(r, j) == pc[r] \notin InFlight /\ Move(r, "admitted", j, Nothing, Nothing)

\* A read that only decides whether the request goes on.
Checked(r) == pc[r] = "admitted" /\ Move(r, "checked", job[r], Nothing, Nothing)

\* The SELECT of the row the request is about.
Loaded(r, s) == pc[r] \in {"admitted", "checked"} /\ Move(r, "read", job[r], s, Nothing)

\* The flush, and the refresh that reads the row back.
Flushed(r, s, d) == pc[r] = "read" /\ Move(r, "written", job[r], s, d)

\* The answer.
Reply(r, a) == pc[r] \in InFlight /\ Move(r, a, Nothing, Nothing, Nothing)

\* r commits in this step.
Commits(r) == pc[r] = "written" /\ pc'[r] = "ok"
=============================================================================
