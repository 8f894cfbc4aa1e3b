----------------------------- MODULE Moderation -----------------------------
(***************************************************************************)
(* Reports of messages and suspension of users in the backend.             *)
(*                                                                         *)
(*   POST /reports                        report/service.create_report     *)
(*   POST /admin/reports/{id}/resolve     report/service.resolve_report    *)
(*   POST /admin/users/{id}/suspend       admin/service.suspend_user       *)
(*   POST /admin/users/{id}/unsuspend     admin/service.unsuspend_user     *)
(*                                                                         *)
(* As in IdolApplications a request is one READ COMMITTED transaction: the *)
(* tables below hold committed data, a writer keeps its row or key to      *)
(* itself until its commit.  Here the writes are not conditional: each     *)
(* handler reads, decides, and later updates by id alone.                  *)
(***************************************************************************)
CONSTANTS Fans,      \* fan accounts, the only ones that may report
          Idols,     \* idol accounts
          Admins,    \* administrator accounts
          Messages,  \* messages of the chat rooms
          Sender,    \* the account that sent each message
          Targets,   \* accounts the administrators suspend and release
          Requests,  \* concurrent requests the backend may be serving
          Nothing    \* no account, no message

People == Fans \cup Idols \cup Admins

ASSUME ModerationConstants ==
    /\ Sender \in [Messages -> Fans \cup Idols]
    /\ Targets \subseteq People
    /\ Nothing \notin People /\ Nothing \notin Messages
    /\ (Fans \cup Idols) \cap Admins = {}

VARIABLES suspended,  \* accounts whose profiles.status is 'suspended'
          reports,    \* the row of a message and its reporter
          pc,         \* how far each request has come, and its answer
          job         \* what each request was asked to do

tables == <<suspended, reports>>
vars   == <<suspended, reports, pc, job>>

\* "warned" stands for the three resolutions that touch only the report
\* ('dismissed', 'message_deleted' and 'warned').
Resolutions == {"warned", "suspended"}

\* The CHECK reports_handled_consistency.
NoReport == [status |-> "none", action |-> "none", by |-> Nothing]
Filed    == [status |-> "pending", action |-> "none", by |-> Nothing]
Rows     == {NoReport, Filed}
            \cup [status : {"handled"}, action : Resolutions, by : Admins]

NoJob == [op |-> "none", by |-> Nothing, target |-> Nothing, message |-> Nothing,
          reporter |-> Nothing, action |-> "none"]
Jobs  == [op : {"create"}, by : Fans, target : {Nothing}, message : Messages,
          reporter : Fans, action : {"none"}]
         \cup [op : {"resolve"}, by : Admins, target : Fans \cup Idols,
               message : Messages, reporter : Fans, action : Resolutions]
         \cup [op : {"suspend", "unsuspend"}, by : Admins, target : People,
               message : {Nothing}, reporter : {Nothing}, action : {"none"}]

\* admitted: authenticated; read: the report was pending, or was not there yet;
\* cleared: the profile was as required; profiled: the profile row is updated and
\* locked; written: so is the report row.
InFlight == {"admitted", "read", "cleared", "profiled", "written"}
Answers  == {"ok", "lost", "forbidden", "conflict", "invalid", "error"}

TypeOK == /\ suspended \subseteq People
          /\ reports \in [Messages -> [Fans -> Rows]]
          /\ pc \in [Requests -> {"idle"} \cup InFlight \cup Answers]
          /\ job \in [Requests -> Jobs \cup {NoJob}]

Init == /\ suspended = {}
        /\ reports = [m \in Messages |-> [f \in Fans |-> NoReport]]
        /\ pc = [r \in Requests |-> "idle"]
        /\ job = [r \in Requests |-> NoJob]

-----------------------------------------------------------------------------
(* Locks, and how a request moves on.                                      *)

Suspends(j) == j.op = "suspend" \/ (j.op = "resolve" /\ j.action = "suspended")

WritesProfile(j) == Suspends(j) \/ j.op = "unsuspend"

Row(j) == reports[j.message][j.reporter]

\* A wrong lock: taken when the profile is read, and shared among its readers.
HoldsProfileFromRead(r, u) ==
    /\ pc[r] \in {"cleared", "profiled", "written"}
    /\ WritesProfile(job[r]) /\ job[r].target = u

\* r keeps the profile row of u updated and locked.
HoldsProfile(r, u) == /\ pc[r] \in {"profiled", "written"}
                      /\ WritesProfile(job[r]) /\ job[r].target = u

\* r keeps the report row (or, while it is being created, its unique key).
HoldsReport(r, m, f) == /\ pc[r] = "written" /\ job[r].op \in {"create", "resolve"}
                        /\ job[r].message = m /\ job[r].reporter = f

Move(r, j, label) ==
    /\ pc' = [pc EXCEPT ![r] = label]
    /\ job' = [job EXCEPT ![r] = IF label \in InFlight \cup {"ok"} THEN j ELSE NoJob]

Goto(r, label) == Move(r, job[r], label)

\* A request arrives: get_current_user refuses a suspended caller.  It is not
\* asked again while the request runs.
Admit(r, j) == /\ pc[r] \notin InFlight
               /\ Move(r, j, IF j.by \in suspended THEN "forbidden" ELSE "admitted")
               /\ UNCHANGED tables

-----------------------------------------------------------------------------
(* POST /reports                                                           *)

AskCreate(r, f, m) ==
    Admit(r, [op |-> "create", by |-> f, target |-> Nothing, message |-> m,
              reporter |-> f, action |-> "none"])

CreateRead(r) == /\ job[r].op = "create" /\ pc[r] = "admitted"
                 /\ Goto(r, IF Sender[job[r].message] = job[r].by THEN "invalid"
                            ELSE IF Row(job[r]) # NoReport THEN "conflict" ELSE "read")
                 /\ UNCHANGED tables

CreateInsertIf(r, free) ==
    LET j == job[r]
    IN  /\ j.op = "create" /\ pc[r] = "read"
        /\ \A q \in Requests \ {r} : ~HoldsReport(q, j.message, j.reporter)
        /\ Goto(r, IF free THEN "written" ELSE "conflict")
        /\ UNCHANGED tables

\* A wrong insertion: an upsert that trusts the read before it.
CreateUpsert(r) == CreateInsertIf(r, TRUE)

\* The flush waits for an uncommitted insert of the same key; if the key is in
\* the table by then, the IntegrityError is answered 409.
CreateInsert(r) == CreateInsertIf(r, Row(job[r]) = NoReport)

StoreRow(j, row) == reports' = [reports EXCEPT ![j.message][j.reporter] = row]

CreateCommit(r, a) == /\ job[r].op = "create" /\ pc[r] = "written"
                      /\ Goto(r, a)
                      /\ StoreRow(job[r], Filed)
                      /\ UNCHANGED suspended

-----------------------------------------------------------------------------
(* POST /admin/reports/{id}/resolve, /admin/users/{id}/suspend, .../unsuspend *)

\* The console offers rows that exist; an unknown id is answered 404.
AskResolve(r, a, m, f, action) ==
    /\ reports[m][f] # NoReport
    /\ Admit(r, [op |-> "resolve", by |-> a, target |-> Sender[m], message |-> m,
                 reporter |-> f, action |-> action])

AskSuspension(r, op, a, u) ==
    Admit(r, [op |-> op, by |-> a, target |-> u, message |-> Nothing,
              reporter |-> Nothing, action |-> "none"])

\* The report is read without a lock; its status is not looked at again.
ReadReport(r) == /\ job[r].op = "resolve" /\ pc[r] = "admitted"
                 /\ Goto(r, IF Row(job[r]).status = "handled" THEN "conflict" ELSE "read")
                 /\ UNCHANGED tables

\* suspend_user and unsuspend_user read the profile without a lock.  Nobody
\* suspends himself; only an active user is suspended, a suspended one released.
ReadProfile(r) ==
    LET j == job[r]
    IN  /\ WritesProfile(j)
        /\ pc[r] = IF j.op = "resolve" THEN "read" ELSE "admitted"
        /\ Goto(r, IF IF Suspends(j) THEN j.target # j.by /\ j.target \notin suspended
                      ELSE j.target \in suspended
                   THEN "cleared" ELSE "invalid")
        /\ UNCHANGED tables

\* UPDATE profiles ... WHERE id = target: waits for the row, then overwrites it.
UpdateProfile(r) == /\ pc[r] = "cleared"
                    /\ \A q \in Requests \ {r} : ~HoldsProfile(q, job[r].target)
                    /\ Goto(r, "profiled")
                    /\ UNCHANGED tables

\* The flush of the report: UPDATE reports ... WHERE id = report, after the
\* sender's profile when the resolution suspends.
UpdateReport(r) ==
    LET j == job[r]
    IN  /\ j.op = "resolve" /\ pc[r] = IF Suspends(j) THEN "profiled" ELSE "read"
        /\ \A q \in Requests \ {r} : ~HoldsReport(q, j.message, j.reporter)
        /\ Goto(r, "written")
        /\ UNCHANGED tables

\* The committed profile update of job j.
StoreProfile(j) == suspended' = IF Suspends(j) THEN suspended \cup {j.target}
                                ELSE IF j.op = "unsuspend" THEN suspended \ {j.target}
                                ELSE suspended

ResolveStore(r, a, by) ==
    /\ job[r].op = "resolve" /\ pc[r] = "written"
    /\ Goto(r, a)
    /\ StoreRow(job[r], [status |-> "handled", action |-> job[r].action, by |-> by])

\* Wrong commits: the suspension is forgotten; handled_by is not filled in.
ResolveCommitReportOnly(r, a) == ResolveStore(r, a, job[r].by) /\ UNCHANGED suspended
ResolveCommitUnsigned(r, a) == ResolveStore(r, a, Nothing) /\ StoreProfile(job[r])

\* The report and the suspension are one unit of work.
ResolveCommit(r, a) == ResolveStore(r, a, job[r].by) /\ StoreProfile(job[r])

SuspensionCommit(r, a) == /\ job[r].op \in {"suspend", "unsuspend"} /\ pc[r] = "profiled"
                          /\ Goto(r, a)
                          /\ StoreProfile(job[r])
                          /\ UNCHANGED reports
-----------------------------------------------------------------------------
(* The session dependency, and the whole.                                  *)

\* Any statement may raise: the transaction is rolled back.
Fail(r) == /\ pc[r] \in InFlight
           /\ Goto(r, "error")
           /\ UNCHANGED tables

\* The commit after the handler returned; the answer may get lost.
Commit(r) == \E a \in {"ok", "lost"} :
                \/ CreateCommit(r, a)
                \/ ResolveCommit(r, a)
                \/ SuspensionCommit(r, a)

Ask(r) == \/ \E f \in Fans, m \in Messages : AskCreate(r, f, m)
          \/ \E a \in Admins, m \in Messages, f \in Fans, action \in Resolutions :
                AskResolve(r, a, m, f, action)
          \/ \E op \in {"suspend", "unsuspend"}, a \in Admins, u \in Targets :
                AskSuspension(r, op, a, u)

Step(r) == \/ CreateRead(r) \/ CreateInsert(r)
           \/ ReadReport(r) \/ ReadProfile(r)
           \/ UpdateProfile(r) \/ UpdateReport(r)

Next == \E r \in Requests : Ask(r) \/ Step(r) \/ Commit(r) \/ Fail(r)

Spec == Init /\ [][Next]_vars

\* A running request goes on; strong fairness because PostgreSQL queues the
\* waiters of a lock, so that none is passed over for ever.
Fairness == \A r \in Requests : SF_vars(Step(r)) /\ WF_vars(Commit(r))

FairSpec == Spec /\ Fairness

-----------------------------------------------------------------------------
(* Properties                                                              *)

\* A report, once filed, stays: it never disappears, and a handled one never
\* waits in the queue again, whatever late duplicate of the fan or late
\* resolution commits afterwards.
ReportsStay ==
    [][\A m \in Messages, f \in Fans :
          /\ reports[m][f] # NoReport => reports'[m][f] # NoReport
          /\ reports[m][f].status = "handled" => reports'[m][f].status = "handled"]_vars

\* The resolution "suspended" is stored by the very step that suspends the
\* sender (or finds the sender suspended by a request it waited for), never
\* without: a report that says so does not stand for a suspension that failed.
SuspensionComesWithReport ==
    [][\A m \in Messages, f \in Fans :
          reports'[m][f].action = "suspended" /\ reports[m][f].action # "suspended"
             => Sender[m] \in suspended']_vars

\* Callers told "ok" were told the truth: the report a fan filed is in the
\* table and no second request was told it filed the same one; the report an
\* administrator resolved is handled.
AnswersAreTrue ==
    \A r \in Requests :
        /\ pc[r] = "ok" /\ job[r].op = "create" =>
              /\ Row(job[r]) # NoReport
              /\ \A q \in Requests \ {r} : ~(pc[q] = "ok" /\ job[q] = job[r])
        /\ pc[r] = "ok" /\ job[r].op = "resolve" => Row(job[r]).status = "handled"

\* No request waits for ever: profiles are locked before reports everywhere.
RequestsAreAnswered ==
    \A r \in Requests : pc[r] \in InFlight ~> pc[r] \in Answers

\* What the console tells the administrator before resolving ("cannot be
\* undone") and the docstring of resolve_report ("409 if already handled"): a
\* handled report keeps its resolution and the administrator who chose it.
HandledIsFinal ==
    [][\A m \in Messages, f \in Fans :
          reports[m][f].status = "handled" => reports'[m][f] = reports[m][f]]_vars
=============================================================================
