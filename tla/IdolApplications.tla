-------------------------- MODULE IdolApplications --------------------------
(***************************************************************************)
(* Sign-up and the idol application workflow of the backend.               *)
(*                                                                         *)
(*   POST /auth/signup                        auth/service.create_signup   *)
(*   POST /admin/idol-applications/.../approve   admin/service             *)
(*   POST /admin/idol-applications/.../reject    admin/service             *)
(*   idol_profiles.stage_name edited by its idol (mobile, directly)        *)
(*                                                                         *)
(* Every request runs in one PostgreSQL transaction at READ COMMITTED      *)
(* (core/db.get_session): it reads what is committed, keeps its own writes *)
(* and their row and unique-key locks to itself until the commit after the *)
(* handler returned, and rolls everything back when the handler raises.    *)
(* The tables below hold committed data only.  The writes of a running     *)
(* transaction follow from its pc and job, so they are not stored twice.   *)
(* A statement that meets a lock waits: its action is not enabled.         *)
(***************************************************************************)
CONSTANTS Users,     \* supabase accounts that may sign up
          Admins,    \* active administrators calling the admin API
          Names,     \* stage names
          Requests,  \* concurrent requests the backend may be serving
          NoName,    \* no stage name
          Nobody     \* no user, no administrator

ASSUME NullsDistinct == /\ NoName \notin Names
                        /\ Nobody \notin Admins
                        /\ Nobody \notin Users

VARIABLES role,       \* profiles.role by user, "none" while there is no row
          app,        \* the user's idol_signup_applications row
          idols,      \* idol_profiles.stage_name by user, NoName while no row
          consented,  \* users with terms_agreements rows for tos and privacy
          pc,         \* how far each request has come, and its answer
          job         \* what each request was asked to do

tables == <<role, app, idols, consented>>
vars   == <<role, app, idols, consented, pc, job>>

NoJob       == [op |-> "none", user |-> Nobody, admin |-> Nobody, stage |-> NoName]
SignupJobs  == [op : {"signup"}, user : Users, admin : {Nobody},
                stage : Names \cup {NoName}]
ApproveJobs == [op : {"approve"}, user : Users, admin : Admins, stage : Names]
RejectJobs  == [op : {"reject"}, user : Users, admin : Admins, stage : Names]
Jobs        == SignupJobs \cup ApproveJobs \cup RejectJobs

InFlight == {"checked", "written", "inserted"}
Refusals == {"conflict", "invalid", "error"}
Answers  == {"ok", "lost"} \cup Refusals

\* stage_name is never null, and exactly the decided rows name who handled them
\* (the CHECK apps_handled_consistency).
NoApplication == [status |-> "none", stage |-> NoName, handledBy |-> Nobody]
Applications  == {NoApplication}
                 \cup [status : {"pending"}, stage : Names, handledBy : {Nobody}]
                 \cup [status : {"approved", "rejected"}, stage : Names,
                       handledBy : Admins]

TypeOK == /\ role \in [Users -> {"none", "fan", "idol"}]
          /\ app \in [Users -> Applications]
          /\ idols \in [Users -> Names \cup {NoName}]
          /\ consented \subseteq Users
          /\ pc \in [Requests -> {"idle"} \cup InFlight \cup Answers]
          /\ job \in [Requests -> Jobs \cup {NoJob}]

Init == /\ role = [u \in Users |-> "none"]
        /\ app = [u \in Users |-> NoApplication]
        /\ idols = [u \in Users |-> NoName]
        /\ consented = {}
        /\ pc = [r \in Requests |-> "idle"]
        /\ job = [r \in Requests |-> NoJob]

-----------------------------------------------------------------------------
(* Locks, and how a request moves on.                                      *)

\* r keeps an uncommitted profiles row with key u.
HoldsProfileKey(r, u) ==
    pc[r] = "written" /\ job[r].op = "signup" /\ job[r].user = u

\* r keeps the application row of user u updated and locked.
HoldsApplication(r, u) ==
    /\ pc[r] \in {"written", "inserted"}
    /\ job[r].op \in {"approve", "reject"} /\ job[r].user = u

\* r keeps an uncommitted idol_profiles row with stage name n.
HoldsName(r, n) == pc[r] = "inserted" /\ job[r].stage = n

\* Request r, doing j, comes to label.  Only a request that may still write, or
\* was told "ok", is remembered.
Move(r, j, label) ==
    /\ pc' = [pc EXCEPT ![r] = label]
    /\ job' = [job EXCEPT ![r] = IF label \in InFlight \cup {"ok"} THEN j ELSE NoJob]

Goto(r, label) == Move(r, job[r], label)

\* A request slot is reused once its last request was answered.
Begin(r, j, label) == pc[r] \notin InFlight /\ Move(r, j, label)

-----------------------------------------------------------------------------
(* POST /auth/signup                                                       *)

\* The handler up to the first write: an existing profile is answered with a
\* conflict before the request is validated.  "well" stands for the checks on
\* the request: an idol gives a stage name, tos and privacy agreed at their
\* current versions.
SignupRead(r, u, n, well) ==
    /\ Begin(r, [op |-> "signup", user |-> u, admin |-> Nobody, stage |-> n],
             IF role[u] # "none" THEN "conflict"
             ELSE IF ~well THEN "invalid" ELSE "checked")
    /\ UNCHANGED tables

\* The flush of the profile: waits for another insert of the same key, and
\* fails with an unhandled IntegrityError when that one was committed.
SignupInsertProfile(r) ==
    LET u == job[r].user
    IN  /\ job[r].op = "signup" /\ pc[r] = "checked"
        /\ \A q \in Requests \ {r} : ~HoldsProfileKey(q, u)
        /\ Goto(r, IF role[u] = "none" THEN "written" ELSE "error")
        /\ UNCHANGED tables

SignupStore(r, a, agreeing) ==
    LET u == job[r].user
        n == job[r].stage
    IN  /\ job[r].op = "signup" /\ pc[r] = "written"
        /\ Goto(r, a)
        /\ role' = [role EXCEPT ![u] = "fan"]
        /\ app' = IF n = NoName THEN app
                  ELSE [app EXCEPT ![u] = [status |-> "pending", stage |-> n,
                                           handledBy |-> Nobody]]
        /\ consented' = consented \cup agreeing
        /\ UNCHANGED idols

\* A wrong commit: the agreement rows are left to a later request.
SignupCommitPartly(r, a) == SignupStore(r, a, {})

\* The second flush adds the application of an idol and the agreement rows;
\* none of them can collide, the profile being new.  Then the commit.
SignupCommit(r, a) == SignupStore(r, a, {job[r].user})

-----------------------------------------------------------------------------
(* POST /admin/idol-applications/{id}/approve and .../reject               *)

\* The handler up to the conditional UPDATE: the row is read without a lock.
\* An id of no row is answered 404; the console only offers existing rows.
DecisionRead(r, op, u, a) ==
    /\ app[u].status # "none"
    /\ Begin(r, [op |-> op, user |-> u, admin |-> a, stage |-> app[u].stage],
             IF app[u].status # "pending" THEN "conflict" ELSE "checked")
    /\ UNCHANGED tables

ClaimIf(r, claimable) ==
    /\ job[r].op \in {"approve", "reject"} /\ pc[r] = "checked"
    /\ \A q \in Requests \ {r} : ~HoldsApplication(q, job[r].user)
    /\ Goto(r, IF claimable THEN "written" ELSE "conflict")
    /\ UNCHANGED tables

\* A wrong claim: UPDATE ... WHERE id = ... only.
ClaimWithoutRecheck(r) == ClaimIf(r, TRUE)

\* UPDATE ... WHERE id = ... AND status = 'pending': waits for the row lock,
\* then evaluates WHERE on the row as committed.  No row updated is a 409.
Claim(r) == ClaimIf(r, app[job[r].user].status = "pending")

\* The unique keys of idol_profiles refuse the row of request r.
Collides(r) == \/ idols[job[r].user] # NoName
               \/ \E v \in Users : idols[v] = job[r].stage

InsertIdolIf(r, collides, then) ==
    /\ job[r].op = "approve" /\ pc[r] = "written"
    /\ \A q \in Requests \ {r} : ~HoldsName(q, job[r].stage)
    /\ Goto(r, IF collides THEN then ELSE "inserted")
    /\ UNCHANGED tables

\* Wrong insertions: without the UNIQUE constraint, and trying again for ever.
InsertIdolUnchecked(r) == InsertIdolIf(r, FALSE, "conflict")
InsertIdolRetrying(r)  == InsertIdolIf(r, Collides(r), "written")

\* The UPDATE of profiles.role (no other statement here contends for that row)
\* and the flush of the idol_profiles row: it waits for an uncommitted row with
\* the same stage name; a committed one is an IntegrityError, which rolls the
\* whole transaction back and is answered 409.
InsertIdol(r) == InsertIdolIf(r, Collides(r), "conflict")

\* A wrong decision: handled_by is not filled in.
DecideUnsigned(r, status) == app' = [app EXCEPT ![job[r].user].status = status]

Decide(r, status) ==
    app' = [app EXCEPT ![job[r].user].status = status,
                       ![job[r].user].handledBy = job[r].admin]

ApproveCommit(r, a) ==
    LET u == job[r].user
    IN  /\ job[r].op = "approve" /\ pc[r] = "inserted"
        /\ Goto(r, a)
        /\ Decide(r, "approved")
        /\ idols' = [idols EXCEPT ![u] = job[r].stage]
        /\ role' = [role EXCEPT ![u] = "idol"]
        /\ UNCHANGED consented

RejectCommit(r, a) ==
    /\ job[r].op = "reject" /\ pc[r] = "written"
    /\ Goto(r, a)
    /\ Decide(r, "rejected")
    /\ UNCHANGED <<role, idols, consented>>

-----------------------------------------------------------------------------
(* The session dependency and the environment.                             *)

\* Any statement may raise (a lost connection, a cancelled request, a crash of
\* the server): the transaction is rolled back and the caller sees an error.
Fail(r) == /\ pc[r] \in InFlight
           /\ Goto(r, "error")
           /\ UNCHANGED tables

\* The commit after the handler returned.  The answer may be lost on the way.
Commit(r) == \E a \in {"ok", "lost"} :
                \/ SignupCommit(r, a)
                \/ ApproveCommit(r, a)
                \/ RejectCommit(r, a)

\* The idol edits its own stage name from the app: one UPDATE of its own row,
\* committed at once.  It waits for an uncommitted row with that name; when the
\* name is taken the update fails and nothing changes.
Rename(u, n) ==
    /\ idols[u] # NoName
    /\ \A q \in Requests : ~HoldsName(q, n)
    /\ \A v \in Users : idols[v] # n
    /\ idols' = [idols EXCEPT ![u] = n]
    /\ UNCHANGED <<role, app, consented, pc, job>>

Start(r) == \E u \in Users :
               \/ \E n \in Names \cup {NoName}, well \in BOOLEAN :
                     SignupRead(r, u, n, well)
               \/ \E op \in {"approve", "reject"}, a \in Admins :
                     DecisionRead(r, op, u, a)

Write(r) == SignupInsertProfile(r) \/ Claim(r) \/ InsertIdol(r)

Next == \/ \E r \in Requests : Start(r) \/ Write(r) \/ Commit(r) \/ Fail(r)
        \/ \E u \in Users, n \in Names : Rename(u, n)

Spec == Init /\ [][Next]_vars

\* A running request goes on.  Strong fairness for the statements that may wait:
\* PostgreSQL hands a row or key lock to its waiters in the order they came, so
\* one request is not passed over for ever.
Fairness == \A r \in Requests : SF_vars(Write(r)) /\ WF_vars(Commit(r))

FairSpec == Spec /\ Fairness

-----------------------------------------------------------------------------
(* Properties                                                              *)

\* A user is an idol exactly when an approved application and an idol profile
\* exist: the three tables approve_idol_application writes never disagree,
\* whichever statement of whichever request fails or races.
ApprovalIsAtomic ==
    \A u \in Users : /\ app[u].status = "approved" <=> role[u] = "idol"
                     /\ app[u].status = "approved" <=> idols[u] # NoName

\* Two idols never perform under one stage name, though approvals of two
\* applicants with the same name and renames run side by side.
StageNamesUnique ==
    \A u, v \in Users : u # v /\ idols[u] # NoName => idols[u] # idols[v]

\* A caller told "ok" was told the truth: the stored decision is the one this
\* administrator asked for, and no second request was told so as well.
AnsweredDecisionStands ==
    \A r \in Requests :
        pc[r] = "ok" /\ job[r].op # "signup" =>
            /\ app[job[r].user].status =
                  IF job[r].op = "approve" THEN "approved" ELSE "rejected"
            /\ app[job[r].user].handledBy = job[r].admin
            /\ \A q \in Requests \ {r} :
                  pc[q] = "ok" /\ job[q].op # "signup" => job[q].user # job[r].user

\* Nobody has a profile without the tos and privacy agreements, and nobody
\* applies without a profile: create_signup writes all of them or none.
SignupIsWhole ==
    \A u \in Users : /\ role[u] # "none" <=> u \in consented
                     /\ app[u].status # "none" => role[u] # "none"

\* A decided application is never decided again, reopened or overwritten.
DecisionIsFinal ==
    [][\A u \in Users : app[u].status \in {"approved", "rejected"} =>
                           app'[u] = app[u]]_vars

\* No request waits for ever: the lock waits of sign-ups, approvals, rejections
\* and renames contain no cycle.
RequestsAreAnswered ==
    \A r \in Requests : pc[r] \in InFlight ~> pc[r] \in Answers

\* The transactions implement the one-step decisions of ApplicationDecision.
Decisions == INSTANCE ApplicationDecision
             WITH decision  <- [u \in Users |-> app[u].status],
                  decidedBy <- [u \in Users |-> app[u].handledBy],
                  stageName <- idols

ImplementsDecisions == Decisions!Spec
=============================================================================
