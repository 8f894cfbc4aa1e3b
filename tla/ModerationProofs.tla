-------------------------- MODULE ModerationProofs --------------------------
(***************************************************************************)
(* For any number of people, messages and requests: the properties of      *)
(* Moderation that are not about fairness.                                 *)
(***************************************************************************)
EXTENDS Moderation, TLAPS

\* Whoever asks for a resolution names a report that is there, and its sender.  A
\* report that is being created is not in the table until its commit.
Remembered(r) ==
    /\ job[r].op = "resolve" => /\ Row(job[r]) # NoReport
                                /\ job[r].target = Sender[job[r].message]
    /\ job[r].op = "create" /\ pc[r] = "written" => Row(job[r]) = NoReport

\* The request that has written a report, or its key, holds it alone.
Exclusive ==
    \A r, q \in Requests, m \in Messages, f \in Fans :
        HoldsReport(r, m, f) /\ HoldsReport(q, m, f) => r = q

\* A request that runs has a job.
Asked == \A r \in Requests : pc[r] \in InFlight => job[r].op # "none"

Inv == /\ TypeOK /\ Asked
       /\ \A r \in Requests : Remembered(r)
       /\ Exclusive
       /\ AnswersAreTrue

-----------------------------------------------------------------------------
\* What a job names.
LEMMA JobFacts ==
    ASSUME NEW j \in Jobs
    PROVE  /\ j.op \in {"create", "resolve"} => j.message \in Messages /\ j.reporter \in Fans
           /\ j.op = "resolve" => j.by \in Admins /\ j.action \in Resolutions
           /\ j.target \in People \cup {Nothing}
           /\ Suspends(j) \/ j.op = "unsuspend" => j.target \in People
           /\ j.op # "none"
BY DEF Jobs, People, Suspends

\* The rows that are written.
LEMMA RowFacts ==
    /\ NoReport \in Rows /\ Filed \in Rows /\ Filed # NoReport
    /\ NoReport.status # "handled" /\ NoReport.action # "suspended"
    /\ Filed.action # "suspended"
    /\ \A a \in Resolutions, b \in Admins :
          LET row == [status |-> "handled", action |-> a, by |-> b]
          IN  row \in Rows /\ row # NoReport /\ row.status = "handled" /\ row.action = a
BY DEF NoReport, Filed, Rows

\* A step of r leaves the other requests alone.
LEMMA OthersStay ==
    ASSUME TypeOK, NEW r \in Requests, NEW j, NEW l, Move(r, j, l)
    PROVE  /\ pc'[r] = l
           /\ job'[r] = IF l \in InFlight \cup {"ok"} THEN j ELSE NoJob
           /\ \A q \in Requests \ {r} : pc'[q] = pc[q] /\ job'[q] = job[q]
BY DEF Move, TypeOK

LEMMA MoveKeepsTypes ==
    ASSUME TypeOK, NEW r \in Requests, NEW j \in Jobs \cup {NoJob},
           NEW l \in InFlight \cup Answers, Move(r, j, l)
    PROVE  /\ pc' \in [Requests -> {"idle"} \cup InFlight \cup Answers]
           /\ job' \in [Requests -> Jobs \cup {NoJob}]
BY DEF Move, TypeOK

\* A running request has a job.
LEMMA RunningHasJob ==
    ASSUME TypeOK, NEW r \in Requests, job[r].op # "none"
    PROVE  job[r] \in Jobs
BY DEF TypeOK, NoJob

\* The converse: only a request that is answered, or never came, has none.
LEMMA RunningIsAsked ==
    ASSUME Inv, NEW r \in Requests, pc[r] \in InFlight
    PROVE  job[r].op # "none"
BY DEF Inv, Asked

-----------------------------------------------------------------------------
(* The steps.                                                              *)

\* A step that writes no report keeps the invariant, if it comes to hold a report
\* only when nobody else does and reports success only about profiles.
LEMMA QuietStep ==
    ASSUME Inv, NEW r \in Requests, NEW j \in Jobs \cup {NoJob},
           NEW l \in InFlight \cup Answers, Move(r, j, l),
           UNCHANGED reports, suspended' \subseteq People,
           l \in InFlight => j.op # "none",
           j.op = "resolve" => Row(j) # NoReport /\ j.target = Sender[j.message],
           j.op = "create" /\ l = "written" => Row(j) = NoReport,
           j.op \in {"create", "resolve"} =>
              /\ l # "ok"
              /\ l = "written" =>
                    \A q \in Requests \ {r} : ~HoldsReport(q, j.message, j.reporter)
    PROVE  Inv'
<1>1. /\ pc'[r] = l
      /\ job'[r] = IF l \in InFlight \cup {"ok"} THEN j ELSE NoJob
      /\ \A q \in Requests \ {r} : pc'[q] = pc[q] /\ job'[q] = job[q]
    BY OthersStay DEF Inv
<1>2. NoJob.op = "none"
    BY DEF NoJob
<1>3. TypeOK'
    BY MoveKeepsTypes DEF Inv, TypeOK
<1>4. \A q \in Requests : Remembered(q)'
    <2>1. Remembered(r)'
        BY <1>1, <1>2 DEF Remembered, Row
    <2>2. ASSUME NEW q \in Requests \ {r} PROVE Remembered(q)'
        BY <1>1 DEF Inv, Remembered, Row
    <2> QED BY <2>1, <2>2
<1>5. Exclusive'
    <2>1. ASSUME NEW q \in Requests \ {r}, NEW m, NEW f
          PROVE  /\ HoldsReport(q, m, f)' <=> HoldsReport(q, m, f)
                 /\ HoldsReport(r, m, f)' => ~HoldsReport(q, m, f)
        BY <1>1, <1>2 DEF HoldsReport
    <2> QED BY <2>1 DEF Inv, Exclusive
<1>6. AnswersAreTrue'
    <2>1. ~(pc'[r] = "ok" /\ job'[r].op \in {"create", "resolve"})
        BY <1>1, <1>2
    <2> QED BY <1>1, <2>1 DEF Inv, AnswersAreTrue, Row
<1>7. Asked'
    BY <1>1 DEF Inv, Asked
<1> QED BY <1>3, <1>4, <1>5, <1>6, <1>7 DEF Inv

\* The commit of a report: one that is new, or a resolution.
LEMMA StoringStep ==
    ASSUME Inv, NEW r \in Requests, job[r].op \in {"create", "resolve"}, pc[r] = "written",
           NEW a \in {"ok", "lost"}, Goto(r, a),
           NEW row \in Rows \ {NoReport}, StoreRow(job[r], row), suspended' \subseteq People,
           job[r].op = "resolve" => row.status = "handled"
    PROVE  Inv'
<1> DEFINE j == job[r]
           m == j.message
           f == j.reporter
<1>1. /\ pc'[r] = a
      /\ job'[r] = IF a = "ok" THEN j ELSE NoJob
      /\ \A q \in Requests \ {r} : pc'[q] = pc[q] /\ job'[q] = job[q]
    BY OthersStay DEF Inv, Goto, InFlight
<1>2. j \in Jobs /\ m \in Messages /\ f \in Fans
    BY RunningHasJob, JobFacts DEF Inv
<1>3. NoJob.op = "none"
    BY DEF NoJob
<1>4. /\ reports'[m][f] = row
      /\ \A n \in Messages, g \in Fans : n # m \/ g # f => reports'[n][g] = reports[n][g]
      /\ reports' \in [Messages -> [Fans -> Rows]]
    BY <1>2 DEF Inv, TypeOK, StoreRow
<1>5. HoldsReport(r, m, f)
    BY DEF HoldsReport
<1>6. TypeOK'
    BY <1>2, <1>4, MoveKeepsTypes DEF Inv, TypeOK, Goto, Answers
<1>7. ASSUME NEW q \in Requests, job[q].op \in {"create", "resolve"}
      PROVE  job[q].message \in Messages /\ job[q].reporter \in Fans
    BY <1>7, RunningHasJob, JobFacts DEF Inv
<1>8. ASSUME NEW q \in Requests, job[q].op = "resolve"
      PROVE  reports'[job[q].message][job[q].reporter] # NoReport
    BY <1>4, <1>7, <1>8 DEF Inv, Remembered, Row
<1>9. ASSUME NEW q \in Requests \ {r}, job[q].op = "create", pc[q] = "written"
      PROVE  reports'[job[q].message][job[q].reporter] = NoReport
    <2>1. HoldsReport(q, job[q].message, job[q].reporter)
        BY <1>9 DEF HoldsReport
    <2>2. job[q].message # m \/ job[q].reporter # f
        BY <1>2, <1>5, <2>1 DEF Inv, Exclusive
    <2> QED BY <1>4, <1>7, <1>9, <2>2 DEF Inv, Remembered, Row
<1>10. \A q \in Requests : Remembered(q)'
    <2>1. Remembered(r)'
        BY <1>1, <1>3, <1>8 DEF Inv, Remembered, Row
    <2>2. ASSUME NEW q \in Requests \ {r} PROVE Remembered(q)'
        BY <1>1, <1>8, <1>9 DEF Inv, Remembered, Row
    <2> QED BY <2>1, <2>2
<1>11. Exclusive'
    <2>1. ASSUME NEW q \in Requests \ {r}, NEW n, NEW g
          PROVE  /\ HoldsReport(q, n, g)' <=> HoldsReport(q, n, g)
                 /\ ~HoldsReport(r, n, g)'
        BY <1>1 DEF HoldsReport
    <2> QED BY <2>1 DEF Inv, Exclusive
<1>12. ASSUME NEW q \in Requests, pc[q] = "ok"
       PROVE  /\ job[q].op = "create" =>
                    /\ reports'[job[q].message][job[q].reporter] # NoReport
                    /\ j.op = "create" => job[q] # j
              /\ job[q].op = "resolve" =>
                    reports'[job[q].message][job[q].reporter].status = "handled"
    <2>1. CASE job[q].op = "create"
        <3>1. Row(job[q]) # NoReport
            BY <1>12, <2>1 DEF Inv, AnswersAreTrue
        <3>2. j.op = "create" => Row(j) = NoReport
            BY DEF Inv, Remembered
        <3> QED BY <1>4, <1>7, <2>1, <3>1, <3>2 DEF Row
    <2>2. CASE job[q].op = "resolve"
        <3>1. Row(job[q]).status = "handled"
            BY <1>12, <2>2 DEF Inv, AnswersAreTrue
        <3>2. j.op = "create" => Row(j).status # "handled"
            BY RowFacts DEF Inv, Remembered
        <3> QED BY <1>4, <1>7, <2>2, <3>1, <3>2 DEF Row
    <2> QED BY <2>1, <2>2
<1>13. AnswersAreTrue'
    <2>1. pc'[r] = "ok" => job'[r] = j /\ reports'[m][f] # NoReport
                           /\ (j.op = "resolve" => reports'[m][f].status = "handled")
        BY <1>1, <1>4
    <2>2. ASSUME NEW p \in Requests, NEW q \in Requests \ {p},
                 pc'[p] = "ok", pc'[q] = "ok", job'[p].op = "create"
          PROVE  job'[p] # job'[q]
        <3>1. CASE p = r
            BY <1>1, <1>12, <2>1, <2>2, <3>1
        <3>2. CASE q = r
            BY <1>1, <1>12, <2>1, <2>2, <3>2
        <3>3. CASE p # r /\ q # r
            BY <1>1, <2>2, <3>3 DEF Inv, AnswersAreTrue
        <3> QED BY <3>1, <3>2, <3>3
    <2>3. ASSUME NEW p \in Requests, pc'[p] = "ok"
          PROVE  /\ job'[p].op = "create" =>
                       reports'[job'[p].message][job'[p].reporter] # NoReport
                 /\ job'[p].op = "resolve" =>
                       reports'[job'[p].message][job'[p].reporter].status = "handled"
        <3>1. CASE p = r
            BY <2>1, <2>3, <3>1
        <3>2. CASE p # r
            BY <1>1, <1>12, <2>3, <3>2
        <3> QED BY <3>1, <3>2
    <2> QED BY <2>2, <2>3 DEF AnswersAreTrue, Row
<1>14. Asked'
    BY <1>1 DEF Inv, Asked, InFlight
<1> QED BY <1>6, <1>10, <1>11, <1>13, <1>14 DEF Inv

-----------------------------------------------------------------------------
(* One lemma for each kind of step.                                        *)

LEMMA InitInv == Init => Inv
<1> SUFFICES ASSUME Init PROVE Inv
    OBVIOUS
<1>1. NoJob.op = "none"
    BY DEF NoJob
<1>2. TypeOK
    BY RowFacts DEF Init, TypeOK
<1>3. Asked
    BY DEF Init, Asked, InFlight
<1> QED BY <1>1, <1>2, <1>3 DEF Init, Inv, Remembered, Exclusive, HoldsReport, AnswersAreTrue

LEMMA AskInv ==
    ASSUME Inv, NEW r \in Requests, Ask(r)
    PROVE  Inv' /\ UNCHANGED tables
<1> USE ModerationConstants
<1>1. suspended \subseteq People
    BY DEF Inv, TypeOK
<1>2. ASSUME NEW j \in Jobs, Admit(r, j),
             j.op = "resolve" => Row(j) # NoReport /\ j.target = Sender[j.message]
      PROVE  Inv' /\ UNCHANGED tables
    <2>1. PICK l \in {"forbidden", "admitted"} : Move(r, j, l)
        BY <1>2 DEF Admit
    <2>2. UNCHANGED tables /\ suspended' \subseteq People /\ UNCHANGED reports
        BY <1>1, <1>2 DEF Admit, tables
    <2>3. l \in InFlight \cup Answers
        BY DEF InFlight, Answers
    <2> QED BY <1>2, <2>1, <2>2, <2>3, JobFacts, QuietStep
<1>3. ASSUME NEW f \in Fans, NEW m \in Messages, AskCreate(r, f, m)
      PROVE  Inv' /\ UNCHANGED tables
    <2> DEFINE j == [op |-> "create", by |-> f, target |-> Nothing, message |-> m,
                     reporter |-> f, action |-> "none"]
    <2>1. j \in Jobs /\ j.op = "create"
        BY DEF Jobs
    <2>2. Admit(r, j)
        BY <1>3 DEF AskCreate
    <2> QED BY <1>2, <2>1, <2>2
<1>4. ASSUME NEW a \in Admins, NEW m \in Messages, NEW f \in Fans,
             NEW action \in Resolutions, AskResolve(r, a, m, f, action)
      PROVE  Inv' /\ UNCHANGED tables
    <2> DEFINE j == [op |-> "resolve", by |-> a, target |-> Sender[m], message |-> m,
                     reporter |-> f, action |-> action]
    <2>1. j \in Jobs
        BY DEF Jobs
    <2>2. Admit(r, j)
        BY <1>4 DEF AskResolve
    <2>3. Row(j) # NoReport /\ j.target = Sender[j.message]
        BY <1>4 DEF AskResolve, Row
    <2> QED BY <1>2, <2>1, <2>2, <2>3
<1>5. ASSUME NEW op \in {"suspend", "unsuspend"}, NEW a \in Admins, NEW u \in Targets,
             AskSuspension(r, op, a, u)
      PROVE  Inv' /\ UNCHANGED tables
    <2> DEFINE j == [op |-> op, by |-> a, target |-> u, message |-> Nothing,
                     reporter |-> Nothing, action |-> "none"]
    <2>1. j \in Jobs /\ j.op # "resolve"
        BY DEF Jobs
    <2>2. Admit(r, j)
        BY <1>5 DEF AskSuspension
    <2> QED BY <1>2, <2>1, <2>2
<1> QED BY <1>3, <1>4, <1>5 DEF Ask

\* A request that goes on with its job.
LEMMA GotoInv ==
    ASSUME Inv, NEW r \in Requests, NEW l \in InFlight \cup Answers, Goto(r, l),
           UNCHANGED reports, suspended' \subseteq People, job[r].op # "none",
           l = "ok" => job[r].op \notin {"create", "resolve"},
           l = "written" =>
              /\ job[r].op = "create" => Row(job[r]) = NoReport
              /\ \A q \in Requests \ {r} : ~HoldsReport(q, job[r].message, job[r].reporter)
    PROVE  Inv'
<1>1. job[r] \in Jobs \cup {NoJob} /\ Move(r, job[r], l)
    BY DEF Inv, TypeOK, Goto
<1>2. job[r].op = "resolve" =>
         Row(job[r]) # NoReport /\ job[r].target = Sender[job[r].message]
    BY DEF Inv, Remembered
<1> QED BY <1>1, <1>2, QuietStep

LEMMA StepInv ==
    ASSUME Inv, NEW r \in Requests, Step(r)
    PROVE  Inv' /\ UNCHANGED tables
<1> USE DEF InFlight, Answers
<1>1. suspended \subseteq People
    BY DEF Inv, TypeOK
<1>2. CASE CreateRead(r)
    <2>1. PICK l \in {"invalid", "conflict", "read"} : Goto(r, l)
        BY <1>2 DEF CreateRead
    <2> QED BY <1>1, <1>2, <2>1, GotoInv DEF CreateRead, tables
<1>3. CASE CreateInsert(r)
    <2>1. /\ job[r].op = "create"
          /\ \A q \in Requests \ {r} : ~HoldsReport(q, job[r].message, job[r].reporter)
          /\ Goto(r, IF Row(job[r]) = NoReport THEN "written" ELSE "conflict")
          /\ UNCHANGED tables
        BY <1>3 DEF CreateInsert, CreateInsertIf
    <2>2. PICK l \in {"written", "conflict"} :
             Goto(r, l) /\ (l = "written" => Row(job[r]) = NoReport)
        BY <2>1
    <2> QED BY <1>1, <2>1, <2>2, GotoInv DEF tables
<1>4. CASE ReadReport(r)
    <2>1. PICK l \in {"conflict", "read"} : Goto(r, l)
        BY <1>4 DEF ReadReport
    <2> QED BY <1>1, <1>4, <2>1, GotoInv DEF ReadReport, tables
<1>5. CASE ReadProfile(r)
    <2>1. PICK l \in {"cleared", "invalid"} : Goto(r, l)
        BY <1>5 DEF ReadProfile
    <2>2. job[r].op # "none"
        BY <1>5 DEF ReadProfile, WritesProfile, Suspends
    <2> QED BY <1>1, <1>5, <2>1, <2>2, GotoInv DEF ReadProfile, tables
<1>6. CASE UpdateProfile(r)
    <2>1. job[r].op # "none"
        BY <1>6, RunningIsAsked DEF UpdateProfile
    <2> QED BY <1>1, <1>6, <2>1, GotoInv DEF UpdateProfile, tables
<1>7. CASE UpdateReport(r)
    <2>1. /\ job[r].op = "resolve" /\ Goto(r, "written") /\ UNCHANGED tables
          /\ \A q \in Requests \ {r} : ~HoldsReport(q, job[r].message, job[r].reporter)
        BY <1>7 DEF UpdateReport
    <2> QED BY <1>1, <2>1, GotoInv DEF tables
<1> QED BY <1>2, <1>3, <1>4, <1>5, <1>6, <1>7 DEF Step

LEMMA FailInv ==
    ASSUME Inv, NEW r \in Requests, Fail(r)
    PROVE  Inv' /\ UNCHANGED tables
<1>1. suspended \subseteq People
    BY DEF Inv, TypeOK
<1>2. job[r].op # "none"
    BY RunningIsAsked DEF Fail
<1> QED BY <1>1, <1>2, GotoInv DEF Fail, tables, Answers

\* What a commit does to the tables.
LEMMA CommitInv ==
    ASSUME Inv, NEW r \in Requests, Commit(r)
    PROVE  /\ Inv'
           /\ \A m \in Messages, f \in Fans : reports'[m][f] # reports[m][f] =>
                 /\ reports'[m][f] # NoReport
                 /\ reports[m][f] = NoReport \/ reports'[m][f].status = "handled"
                 /\ reports'[m][f].action = "suspended" => Sender[m] \in suspended'
<1>1. PICK a \in {"ok", "lost"} :
         CreateCommit(r, a) \/ ResolveCommit(r, a) \/ SuspensionCommit(r, a)
    BY DEF Commit
<1>2. job[r] \in Jobs /\ suspended \subseteq People
    BY <1>1, RunningHasJob DEF Inv, TypeOK, CreateCommit, ResolveCommit, ResolveStore,
       SuspensionCommit
<1>3. ASSUME StoreProfile(job[r]) PROVE suspended' \subseteq People
    BY <1>2, <1>3, JobFacts DEF StoreProfile
<1>4. ASSUME NEW row, StoreRow(job[r], row), NEW m \in Messages, NEW f \in Fans,
             reports'[m][f] # reports[m][f]
      PROVE  reports'[m][f] = row /\ m = job[r].message /\ f = job[r].reporter
    BY <1>4 DEF StoreRow, Inv, TypeOK
<1>5. CASE CreateCommit(r, a)
    <2>1. /\ job[r].op = "create" /\ pc[r] = "written" /\ Goto(r, a)
          /\ StoreRow(job[r], Filed) /\ suspended' = suspended
        BY <1>5 DEF CreateCommit
    <2>2. Row(job[r]) = NoReport
        BY <2>1 DEF Inv, Remembered
    <2> QED BY <1>2, <1>4, <2>1, <2>2, RowFacts, StoringStep DEF Row
<1>6. CASE ResolveCommit(r, a)
    <2> DEFINE row == [status |-> "handled", action |-> job[r].action, by |-> job[r].by]
    <2>1. /\ job[r].op = "resolve" /\ pc[r] = "written" /\ Goto(r, a)
          /\ StoreRow(job[r], row) /\ StoreProfile(job[r])
        BY <1>6 DEF ResolveCommit, ResolveStore
    <2>2. /\ row \in Rows /\ row # NoReport /\ row.status = "handled"
          /\ row.action = job[r].action
        BY <1>2, <2>1, JobFacts, RowFacts
    <2> HIDE DEF row
    <2>3. Inv'
        BY <1>3, <2>1, <2>2, StoringStep
    <2>4. job[r].target = Sender[job[r].message]
        BY <2>1 DEF Inv, Remembered
    <2>5. job[r].action = "suspended" => job[r].target \in suspended'
        BY <2>1 DEF StoreProfile, Suspends
    <2> QED BY <1>4, <2>1, <2>2, <2>3, <2>4, <2>5
<1>7. CASE SuspensionCommit(r, a)
    <2>1. /\ job[r].op \in {"suspend", "unsuspend"} /\ Goto(r, a)
          /\ StoreProfile(job[r]) /\ reports' = reports
        BY <1>7 DEF SuspensionCommit
    <2>2. a \in InFlight \cup Answers /\ a # "written"
        BY DEF Answers
    <2> QED BY <1>3, <2>1, <2>2, GotoInv
<1> QED BY <1>1, <1>5, <1>6, <1>7

-----------------------------------------------------------------------------
(* The theorems.                                                           *)

LEMMA NextInv == Inv /\ [Next]_vars => Inv'
<1> SUFFICES ASSUME Inv, [Next]_vars PROVE Inv'
    OBVIOUS
<1>1. CASE UNCHANGED vars
    BY <1>1 DEF vars, Inv, TypeOK, Asked, Remembered, Exclusive, HoldsReport,
                AnswersAreTrue, Row
<1>2. ASSUME NEW r \in Requests, Ask(r) \/ Step(r) \/ Commit(r) \/ Fail(r) PROVE Inv'
    BY <1>2, AskInv, StepInv, CommitInv, FailInv
<1> QED BY <1>1, <1>2 DEF Next

\* The inductive invariant holds.
THEOREM Invariance == Spec => []Inv
BY InitInv, NextInv, PTL DEF Spec

\* Every variable keeps its type.
THEOREM TypeCorrectness == Spec => []TypeOK
BY Invariance, PTL DEF Inv

\* Callers told "ok" were told the truth.
THEOREM TrueAnswers == Spec => []AnswersAreTrue
BY Invariance, PTL DEF Inv

\* A step writes a report only to file it or to handle it, and stores a suspension
\* together with the suspended sender.
LEMMA ReportChanges ==
    ASSUME Inv, [Next]_vars, NEW m \in Messages, NEW f \in Fans,
           reports'[m][f] # reports[m][f]
    PROVE  /\ reports'[m][f] # NoReport
           /\ reports[m][f] = NoReport \/ reports'[m][f].status = "handled"
           /\ reports'[m][f].action = "suspended" => Sender[m] \in suspended'
<1>1. CASE UNCHANGED vars
    BY <1>1 DEF vars
<1>2. ASSUME NEW r \in Requests, Ask(r) \/ Step(r) \/ Fail(r) PROVE FALSE
    BY <1>2, AskInv, StepInv, FailInv DEF tables
<1>3. CASE \E r \in Requests : Commit(r)
    BY <1>3, CommitInv
<1> QED BY <1>1, <1>2, <1>3 DEF Next

\* No report disappears, and no handled one is pending again.
THEOREM ReportsRemain == Spec => ReportsStay
<1>1. ASSUME Inv, [Next]_vars
      PROVE  \A m \in Messages, f \in Fans :
                /\ reports[m][f] # NoReport => reports'[m][f] # NoReport
                /\ reports[m][f].status = "handled" => reports'[m][f].status = "handled"
    BY <1>1, ReportChanges, RowFacts
<1> QED BY <1>1, Invariance, PTL DEF Spec, ReportsStay

\* A report is stored as resolved by suspension only together with the suspension.
THEOREM SuspensionsComeWithReports == Spec => SuspensionComesWithReport
<1>1. ASSUME Inv, [Next]_vars
      PROVE  \A m \in Messages, f \in Fans :
                reports'[m][f].action = "suspended" /\ reports[m][f].action # "suspended"
                   => Sender[m] \in suspended'
    BY <1>1, ReportChanges
<1> QED BY <1>1, Invariance, PTL DEF Spec, SuspensionComesWithReport
-----------------------------------------------------------------------------
(* Nobody is stuck: the part of RequestsAreAnswered that is not about      *)
(* fairness.                                                               *)

\* The report row r's next statement needs, if it is a write, is locked by q.
WaitsForReport(r, q) ==
    /\ \/ job[r].op = "create" /\ pc[r] = "read"
       \/ job[r].op = "resolve" /\ pc[r] = IF Suspends(job[r]) THEN "profiled" ELSE "read"
    /\ q # r /\ HoldsReport(q, job[r].message, job[r].reporter)

WaitsForProfile(r, q) ==
    pc[r] = "cleared" /\ q # r /\ HoldsProfile(q, job[r].target)

WaitsFor(r, q) == WaitsForReport(r, q) \/ WaitsForProfile(r, q)

\* The guards of the statements that wait for no lock (CreateRead, ReadReport and
\* ReadProfile), of those that do, and of the commits.
CanRead(r) ==
    \/ job[r].op \in {"create", "resolve"} /\ pc[r] = "admitted"
    \/ WritesProfile(job[r])
       /\ pc[r] = IF job[r].op = "resolve" THEN "read" ELSE "admitted"

CanWrite(r) ==
    /\ \/ job[r].op = "create" /\ pc[r] = "read"
       \/ pc[r] = "cleared"
       \/ job[r].op = "resolve" /\ pc[r] = IF Suspends(job[r]) THEN "profiled" ELSE "read"
    /\ \A q \in Requests : ~WaitsFor(r, q)

CanCommit(r) ==
    \/ job[r].op \in {"create", "resolve"} /\ pc[r] = "written"
    \/ job[r].op \in {"suspend", "unsuspend"} /\ pc[r] = "profiled"

CanGoOn(r) == CanRead(r) \/ CanWrite(r) \/ CanCommit(r)

NobodyIsStuck ==
    \A r \in Requests : pc[r] \in InFlight =>
        \/ CanGoOn(r)
        \/ \E q \in Requests :
              /\ WaitsFor(r, q)
              /\ CanGoOn(q) \/ \E p \in Requests : WaitsFor(q, p) /\ CanGoOn(p)

\* How far a request for job j may come.
Phase(j, l) == /\ l = "read" => j.op \in {"create", "resolve"}
               /\ l \in {"cleared", "profiled"} => WritesProfile(j)
               /\ l = "written" => j.op \in {"create", "resolve"}

InPhase == \A r \in Requests : Phase(job[r], pc[r])

LEMMA MoveKeepsPhases ==
    ASSUME TypeOK, InPhase, NEW r \in Requests, NEW j, NEW l, Move(r, j, l),
           l \in InFlight => Phase(j, l), l \in InFlight \cup Answers
    PROVE  InPhase'
<1>1. Phase(job'[r], pc'[r])
    <2>1. l \notin InFlight => Phase(job'[r], l)
        BY DEF Phase, InFlight, Answers
    <2> QED BY <2>1, OthersStay
<1>2. ASSUME NEW q \in Requests \ {r} PROVE Phase(job'[q], pc'[q])
    BY OthersStay DEF InPhase
<1> QED BY <1>1, <1>2 DEF InPhase

LEMMA PhasesKept ==
    ASSUME TypeOK, InPhase, [Next]_vars
    PROVE  InPhase'
<1>1. CASE UNCHANGED vars
    BY <1>1 DEF vars, InPhase
<1>2. ASSUME NEW r \in Requests, NEW l \in InFlight \cup Answers, Goto(r, l),
             l \in InFlight => Phase(job[r], l)
      PROVE  InPhase'
    BY <1>2, MoveKeepsPhases DEF Goto
<1>3. ASSUME NEW r \in Requests, NEW j, Admit(r, j) PROVE InPhase'
    <2>1. PICK l \in {"forbidden", "admitted"} : Move(r, j, l)
        BY <1>3 DEF Admit
    <2>2. l \in InFlight \cup Answers /\ Phase(j, l)
        BY DEF InFlight, Answers, Phase
    <2> QED BY <2>1, <2>2, MoveKeepsPhases
<1>4. ASSUME NEW r \in Requests, Ask(r) PROVE InPhase'
    BY <1>3, <1>4 DEF Ask, AskCreate, AskResolve, AskSuspension
<1>5. ASSUME NEW r \in Requests, CreateRead(r) \/ CreateInsert(r) PROVE InPhase'
    <2>1. PICK l \in {"invalid", "conflict", "read", "written"} : Goto(r, l)
        BY <1>5 DEF CreateRead, CreateInsert, CreateInsertIf
    <2>2. l \in InFlight \cup Answers /\ job[r].op = "create"
        BY <1>5 DEF CreateRead, CreateInsert, CreateInsertIf, InFlight, Answers
    <2> QED BY <1>2, <2>1, <2>2 DEF Phase
<1>6. ASSUME NEW r \in Requests, ReadReport(r) \/ UpdateReport(r) PROVE InPhase'
    <2>1. PICK l \in {"conflict", "read", "written"} : Goto(r, l)
        BY <1>6 DEF ReadReport, UpdateReport
    <2>2. l \in InFlight \cup Answers /\ job[r].op = "resolve"
        BY <1>6 DEF ReadReport, UpdateReport, InFlight, Answers
    <2> QED BY <1>2, <2>1, <2>2 DEF Phase
<1>7. ASSUME NEW r \in Requests, ReadProfile(r) \/ UpdateProfile(r) PROVE InPhase'
    <2>1. PICK l \in {"cleared", "invalid", "profiled"} : Goto(r, l)
        BY <1>7 DEF ReadProfile, UpdateProfile
    <2>2. l \in InFlight \cup Answers /\ WritesProfile(job[r])
        BY <1>7 DEF ReadProfile, UpdateProfile, InFlight, Answers, InPhase, Phase
    <2> QED BY <1>2, <2>1, <2>2 DEF Phase
<1>8. ASSUME NEW r \in Requests, Commit(r) \/ Fail(r) PROVE InPhase'
    <2>1. PICK l \in {"ok", "lost", "error"} : Goto(r, l)
        BY <1>8 DEF Commit, Fail, CreateCommit, ResolveCommit, ResolveStore,
                    SuspensionCommit
    <2> QED BY <1>2, <2>1 DEF InFlight, Answers, Phase
<1> QED BY <1>1, <1>4, <1>5, <1>6, <1>7, <1>8 DEF Next, Step

\* Whoever runs can go on, or waits for a request.
LEMMA GoesOnOrWaits ==
    ASSUME Inv, InPhase, NEW r \in Requests, pc[r] \in InFlight
    PROVE  CanGoOn(r) \/ \E q \in Requests : WaitsFor(r, q)
<1>1. job[r] \in Jobs
    BY RunningIsAsked, RunningHasJob DEF Inv
<1>2. job[r].op \in {"create", "resolve", "suspend", "unsuspend"}
    BY <1>1 DEF Jobs
<1>3. Phase(job[r], pc[r])
    BY DEF InPhase
<1>4. CASE pc[r] = "admitted"
    BY <1>2, <1>4 DEF CanGoOn, CanRead, WritesProfile, Suspends
<1>5. CASE pc[r] = "read"
    BY <1>3, <1>5 DEF CanGoOn, CanRead, CanWrite, Phase, WritesProfile
<1>6. CASE pc[r] = "cleared"
    BY <1>6 DEF CanGoOn, CanWrite
<1>7. CASE pc[r] = "profiled"
    BY <1>3, <1>7 DEF CanGoOn, CanWrite, CanCommit, Phase, WritesProfile, Suspends
<1>8. CASE pc[r] = "written"
    BY <1>3, <1>8 DEF CanGoOn, CanCommit, Phase
<1> QED BY <1>4, <1>5, <1>6, <1>7, <1>8 DEF InFlight

\* Whoever holds a report commits next; whoever holds a profile waits at most for
\* a report.
LEMMA LocksAreOrdered ==
    ASSUME Inv, InPhase, NEW r \in Requests, NEW q \in Requests, WaitsFor(r, q)
    PROVE  CanGoOn(q) \/ \E p \in Requests : WaitsFor(q, p) /\ CanGoOn(p)
<1>1. ASSUME NEW p \in Requests, NEW x \in Requests, WaitsForReport(x, p)
      PROVE  CanGoOn(p)
    BY <1>1 DEF WaitsForReport, HoldsReport, CanGoOn, CanCommit
<1>2. ASSUME WaitsForProfile(r, q), ~CanGoOn(q)
      PROVE  \E p \in Requests : WaitsFor(q, p) /\ CanGoOn(p)
    <2>1. pc[q] \in {"profiled", "written"}
        BY <1>2 DEF WaitsForProfile, HoldsProfile
    <2>2. PICK p \in Requests : WaitsFor(q, p)
        BY <1>2, <2>1, GoesOnOrWaits DEF InFlight
    <2>3. WaitsForReport(q, p)
        BY <2>1, <2>2 DEF WaitsFor, WaitsForProfile
    <2> QED BY <1>1, <2>2, <2>3
<1> QED BY <1>1, <1>2 DEF WaitsFor

\* Of any number of requests that resolve, suspend, release and report side by side
\* none waits in a circle: it can go on, or waits for one that can, or that waits
\* for one that can (resolve_report locks the profile before the report).
THEOREM DeadlockFreedom == Spec => []NobodyIsStuck
<1>1. Init => InPhase
    BY DEF Init, InPhase, Phase
<1>2. Inv /\ InPhase /\ [Next]_vars => InPhase'
    BY PhasesKept DEF Inv
<1>3. Inv /\ InPhase => NobodyIsStuck
    BY GoesOnOrWaits, LocksAreOrdered DEF NobodyIsStuck
<1> QED BY <1>1, <1>2, <1>3, Invariance, PTL DEF Spec
=============================================================================
