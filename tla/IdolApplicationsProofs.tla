----------------------- MODULE IdolApplicationsProofs -----------------------
(***************************************************************************)
(* Proofs about IdolApplications for every set of users, administrators,   *)
(* stage names and concurrent requests.                                    *)
(*                                                                         *)
(* The safety invariants are not inductive: whether an approval may commit *)
(* depends on what its transaction learnt before, and on the locks that    *)
(* keep this true until the commit.  Inv adds exactly these facts.         *)
(***************************************************************************)
EXTENDS IdolApplications, TLAPS

\* What a request that got this far must have been asked to do.
JobsFit ==
    \A r \in Requests :
        /\ pc[r] \in InFlight \cup {"ok"} => job[r] \in Jobs
        /\ pc[r] = "inserted" => job[r].op = "approve"

\* What a transaction that wrote knows of the committed tables.
WritersKnow ==
    \A r \in Requests, u \in Users :
        /\ HoldsProfileKey(r, u) => role[u] = "none"
        /\ HoldsApplication(r, u) => app[u].status = "pending"
        /\ pc[r] = "inserted" => idols[u] # job[r].stage

\* Two transactions never keep the same row or key.
LocksExclude ==
    \A r, q \in Requests :
        r # q =>
            /\ \A u \in Users : ~(HoldsProfileKey(r, u) /\ HoldsProfileKey(q, u))
            /\ \A u \in Users : ~(HoldsApplication(r, u) /\ HoldsApplication(q, u))
            /\ \A n \in Names : ~(HoldsName(r, n) /\ HoldsName(q, n))

Inv == /\ TypeOK
       /\ JobsFit
       /\ WritersKnow
       /\ LocksExclude
       /\ ApprovalIsAtomic
       /\ SignupIsWhole
       /\ StageNamesUnique
       /\ AnsweredDecisionStands

-----------------------------------------------------------------------------

LEMMA InitEstablishesInv == Init => Inv
<1> SUFFICES ASSUME Init PROVE Inv
  OBVIOUS
<1> USE NullsDistinct DEF Init
<1>1. TypeOK
  BY DEF TypeOK, Applications, NoApplication
<1>2. JobsFit /\ WritersKnow /\ LocksExclude
  BY DEF JobsFit, WritersKnow, LocksExclude, HoldsProfileKey, HoldsApplication,
         HoldsName, InFlight
<1>3. ApprovalIsAtomic /\ SignupIsWhole
  BY DEF ApprovalIsAtomic, SignupIsWhole, NoApplication
<1>4. StageNamesUnique /\ AnsweredDecisionStands
  BY DEF StageNamesUnique, AnsweredDecisionStands
<1> QED
  BY <1>1, <1>2, <1>3, <1>4 DEF Inv

\* The fields of the job of a request.
LEMMA JobFields ==
    ASSUME NEW r \in Requests, job[r] \in Jobs
    PROVE  /\ job[r].user \in Users
           /\ job[r].stage \in Names \cup {NoName}
           /\ job[r].op \in {"signup", "approve", "reject"}
           /\ job[r].op # "signup" => job[r].admin \in Admins /\ job[r].stage \in Names
BY DEF Jobs, SignupJobs, ApproveJobs, RejectJobs

\* The fields of an application row.
LEMMA ApplicationFields ==
    \A x \in Applications :
        /\ x.status \in {"none", "pending", "approved", "rejected"}
        /\ x.status # "none" => x.stage \in Names
        /\ x.status \in {"none", "pending"} => x.handledBy = Nobody
BY DEF Applications, NoApplication

\* What Move does to the two request variables.
LEMMA MoveEffect ==
    ASSUME TypeOK, NEW r \in Requests, NEW j, NEW label, Move(r, j, label)
    PROVE  /\ pc'[r] = label
           /\ \A q \in Requests : q # r => pc'[q] = pc[q] /\ job'[q] = job[q]
           /\ label \in InFlight \cup {"ok"} => job'[r] = j
           /\ label \notin InFlight \cup {"ok"} => job'[r] = NoJob
BY DEF TypeOK, Move

LEMMA MoveKeepsTypes ==
    ASSUME TypeOK, NEW r \in Requests, NEW j \in Jobs,
           NEW label \in InFlight \cup Answers, Move(r, j, label)
    PROVE  /\ pc' \in [Requests -> {"idle"} \cup InFlight \cup Answers]
           /\ job' \in [Requests -> Jobs \cup {NoJob}]
BY DEF TypeOK, Move

\* A request that only moves to a label at which it keeps no lock, and was not
\* told "ok", disturbs nothing as long as the tables stay.
LEMMA QuietMove ==
    ASSUME Inv, NEW r \in Requests, NEW j \in Jobs,
           NEW label \in {"checked", "lost"} \cup Refusals,
           Move(r, j, label), UNCHANGED tables
    PROVE  Inv'
<1> USE DEF Inv
<1>0. label \in InFlight \cup Answers
  BY DEF InFlight, Answers
<1>1. TypeOK'
  BY <1>0, MoveKeepsTypes DEF TypeOK, tables
<1>2. JobsFit'
  BY MoveEffect DEF JobsFit, InFlight, Refusals
<1>3. WritersKnow'
  BY MoveEffect DEF WritersKnow, HoldsProfileKey, HoldsApplication, tables, Refusals
<1>4. LocksExclude'
  BY MoveEffect DEF LocksExclude, HoldsProfileKey, HoldsApplication, HoldsName, Refusals
<1>5. ApprovalIsAtomic' /\ SignupIsWhole' /\ StageNamesUnique'
  BY DEF ApprovalIsAtomic, SignupIsWhole, StageNamesUnique, tables
<1>6. AnsweredDecisionStands'
  BY MoveEffect DEF AnsweredDecisionStands, tables, Refusals
<1> QED
  BY <1>1, <1>2, <1>3, <1>4, <1>5, <1>6

\* A transaction that gets a lock nobody else keeps, and learns what the lock
\* will keep true.
LEMMA LockingMove ==
    ASSUME Inv, NEW r \in Requests, NEW label \in {"written", "inserted"},
           pc[r] \in InFlight, Goto(r, label), UNCHANGED tables,
           label = "inserted" => job[r].op = "approve",
           \A u \in Users :
               job[r].user = u =>
                   /\ job[r].op = "signup" => role[u] = "none"
                   /\ job[r].op # "signup" => app[u].status = "pending",
           label = "inserted" => \A u \in Users : idols[u] # job[r].stage,
           \A q \in Requests :
               q # r =>
                   /\ \A u \in Users : job[r].user = u =>
                         /\ job[r].op = "signup" => ~HoldsProfileKey(q, u)
                         /\ job[r].op # "signup" => ~HoldsApplication(q, u)
                   /\ label = "inserted" => ~HoldsName(q, job[r].stage)
    PROVE  Inv'
<1> USE DEF Inv
<1>0. job[r] \in Jobs /\ Move(r, job[r], label)
  BY DEF JobsFit, Goto, InFlight
<1>1. TypeOK'
  BY <1>0, MoveKeepsTypes DEF TypeOK, tables, InFlight
<1>2. JobsFit'
  BY <1>0, MoveEffect DEF JobsFit, InFlight
<1>3. WritersKnow'
  BY <1>0, MoveEffect, JobFields
  DEF WritersKnow, HoldsProfileKey, HoldsApplication, tables, InFlight
<1>4. LocksExclude'
  BY <1>0, MoveEffect, JobFields
  DEF LocksExclude, HoldsProfileKey, HoldsApplication, HoldsName, InFlight
<1>5. ApprovalIsAtomic' /\ SignupIsWhole' /\ StageNamesUnique'
  BY DEF ApprovalIsAtomic, SignupIsWhole, StageNamesUnique, tables
<1>6. AnsweredDecisionStands'
  BY <1>0, MoveEffect DEF AnsweredDecisionStands, tables
<1> QED
  BY <1>1, <1>2, <1>3, <1>4, <1>5, <1>6

-----------------------------------------------------------------------------
(* One lemma per action.                                                   *)

LEMMA StartKeepsInv ==
    ASSUME Inv, NEW r \in Requests, Start(r) PROVE Inv'
<1>1. ASSUME NEW u \in Users, NEW n \in Names \cup {NoName}, NEW well \in BOOLEAN,
             SignupRead(r, u, n, well)
      PROVE  Inv'
  <2>1. [op |-> "signup", user |-> u, admin |-> Nobody, stage |-> n] \in Jobs
    BY DEF Jobs, SignupJobs
  <2> QED
    BY <1>1, <2>1, QuietMove DEF SignupRead, Begin, Refusals
<1>2. ASSUME NEW u \in Users, NEW op \in {"approve", "reject"}, NEW a \in Admins,
             DecisionRead(r, op, u, a)
      PROVE  Inv'
  <2>1. app[u].stage \in Names
    BY <1>2, ApplicationFields DEF DecisionRead, Inv, TypeOK
  <2>2. [op |-> op, user |-> u, admin |-> a, stage |-> app[u].stage] \in Jobs
    BY <2>1 DEF Jobs, ApproveJobs, RejectJobs
  <2> QED
    BY <1>2, <2>2, QuietMove DEF DecisionRead, Begin, Refusals
<1> QED
  BY <1>1, <1>2 DEF Start

LEMMA FailKeepsInv ==
    ASSUME Inv, NEW r \in Requests, Fail(r) PROVE Inv'
<1>1. job[r] \in Jobs /\ Move(r, job[r], "error")
  BY DEF Inv, JobsFit, Fail, Goto
<1> QED
  BY <1>1, QuietMove DEF Fail, Refusals

LEMMA WriteKeepsInv ==
    ASSUME Inv, NEW r \in Requests, Write(r) PROVE Inv'
<1>1. pc[r] \in InFlight /\ job[r] \in Jobs
  BY DEF Write, SignupInsertProfile, Claim, ClaimIf, InsertIdol, InsertIdolIf, InFlight,
         Inv, JobsFit
<1>2. CASE SignupInsertProfile(r)
  <2>1. CASE role[job[r].user] = "none"
    BY <1>1, <1>2, <2>1, LockingMove DEF SignupInsertProfile
  <2>2. CASE role[job[r].user] # "none"
    BY <1>1, <1>2, <2>2, QuietMove DEF SignupInsertProfile, Goto, Refusals
  <2> QED
    BY <2>1, <2>2
<1>3. CASE Claim(r)
  <2>1. CASE app[job[r].user].status = "pending"
    BY <1>1, <1>3, <2>1, LockingMove DEF Claim, ClaimIf
  <2>2. CASE app[job[r].user].status # "pending"
    BY <1>1, <1>3, <2>2, QuietMove DEF Claim, ClaimIf, Goto, Refusals
  <2> QED
    BY <2>1, <2>2
<1>4. CASE InsertIdol(r)
  <2>1. CASE ~Collides(r)
    <3>0. job[r].user \in Users /\ job[r].op = "approve"
      BY <1>1, <1>4, JobFields DEF InsertIdol, InsertIdolIf
    <3>h. HoldsApplication(r, job[r].user)
      BY <1>4, <3>0 DEF HoldsApplication, InsertIdol, InsertIdolIf
    <3>1. app[job[r].user].status = "pending"
      BY <3>0, <3>h DEF Inv, WritersKnow
    <3>2. \A q \in Requests : q # r => ~HoldsApplication(q, job[r].user)
      BY <3>0, <3>h DEF Inv, LocksExclude
    <3> QED
      BY <1>1, <1>4, <2>1, <3>0, <3>1, <3>2, LockingMove
      DEF InsertIdol, InsertIdolIf, Collides
  <2>2. CASE Collides(r)
    BY <1>1, <1>4, <2>2, QuietMove DEF InsertIdol, InsertIdolIf, Goto, Refusals
  <2> QED
    BY <2>1, <2>2
<1> QED
  BY <1>2, <1>3, <1>4 DEF Write

\* A commit gives the request its answer and lets all of its locks go.
LEMMA SignupCommitKeepsInv ==
    ASSUME Inv, NEW r \in Requests, NEW a \in {"ok", "lost"}, SignupCommit(r, a)
    PROVE  Inv'
<1> DEFINE u == job[r].user
           n == job[r].stage
           row == [status |-> "pending", stage |-> n, handledBy |-> Nobody]
<1> USE DEF Inv
<1>1. /\ job[r] \in Jobs /\ Move(r, job[r], a)
      /\ pc[r] = "written" /\ job[r].op = "signup"
  BY DEF SignupCommit, SignupStore, JobsFit, Goto, InFlight
<1>2. u \in Users /\ n \in Names \cup {NoName}
  BY <1>1, JobFields
<1>3. role[u] = "none" /\ u \notin consented /\ app[u].status = "none" /\ idols[u] = NoName
  BY <1>1, <1>2, ApplicationFields
  DEF WritersKnow, HoldsProfileKey, SignupIsWhole, ApprovalIsAtomic, TypeOK
<1>4. /\ role' = [role EXCEPT ![u] = "fan"]
      /\ app' = IF n = NoName THEN app ELSE [app EXCEPT ![u] = row]
      /\ consented' = consented \cup {u}
      /\ idols' = idols
  BY DEF SignupCommit, SignupStore
<1>5. \A v \in Users : v # u => app'[v] = app[v] /\ role'[v] = role[v]
  BY <1>4 DEF TypeOK
<1>6. role'[u] = "fan" /\ app'[u].status \in {"none", "pending"}
  BY <1>2, <1>3, <1>4 DEF TypeOK
<1>7. TypeOK'
  <2>1. n # NoName => row \in Applications
    BY <1>2 DEF Applications
  <2> QED
    BY <1>1, <1>2, <1>4, <2>1, MoveKeepsTypes DEF TypeOK, Answers
<1>8. JobsFit'
  BY <1>1, MoveEffect DEF JobsFit, InFlight
<1>9. WritersKnow'
  <2>1. \A q \in Requests : q # r => ~HoldsProfileKey(q, u)
    BY <1>1, <1>2 DEF LocksExclude, HoldsProfileKey
  <2>2. \A q \in Requests : ~HoldsApplication(q, u)
    BY <1>2, <1>3 DEF WritersKnow
  <2> QED
    BY <1>1, <1>4, <1>5, <2>1, <2>2, MoveEffect
    DEF WritersKnow, HoldsProfileKey, HoldsApplication
<1>10. LocksExclude'
  BY <1>1, MoveEffect DEF LocksExclude, HoldsProfileKey, HoldsApplication, HoldsName
<1>11. ApprovalIsAtomic' /\ SignupIsWhole' /\ StageNamesUnique'
  BY <1>2, <1>3, <1>4, <1>5, <1>6 DEF ApprovalIsAtomic, SignupIsWhole, StageNamesUnique
<1>12. AnsweredDecisionStands'
  <2>1. \A q \in Requests : pc[q] = "ok" /\ job[q].op # "signup" => job[q].user # u
    BY <1>3 DEF AnsweredDecisionStands
  <2>2. \A q \in Requests : pc[q] = "ok" /\ job[q].op # "signup" => job[q].user \in Users
    BY JobFields DEF JobsFit
  <2> QED
    BY <1>1, <1>5, <2>1, <2>2, MoveEffect DEF AnsweredDecisionStands
<1> QED
  BY <1>7, <1>8, <1>9, <1>10, <1>11, <1>12

\* What both decisions have in common: the row was pending and is decided now.
LEMMA DecideEffect ==
    ASSUME Inv, NEW r \in Requests, NEW a \in {"ok", "lost"},
           NEW s \in {"approved", "rejected"},
           HoldsApplication(r, job[r].user), pc[r] \in InFlight,
           Goto(r, a), Decide(r, s)
    PROVE  /\ job[r] \in Jobs /\ Move(r, job[r], a)
           /\ job[r].user \in Users /\ job[r].admin \in Admins /\ job[r].stage \in Names
           /\ app[job[r].user].status = "pending"
           /\ app' \in [Users -> Applications]
           /\ app'[job[r].user].status = s
           /\ app'[job[r].user].handledBy = job[r].admin
           /\ \A v \in Users : v # job[r].user => app'[v] = app[v]
           /\ \A q \in Requests : q # r => ~HoldsApplication(q, job[r].user)
<1> USE DEF Inv
<1>1. job[r] \in Jobs /\ Move(r, job[r], a)
  BY DEF JobsFit, Goto
<1>2. job[r].user \in Users /\ job[r].admin \in Admins /\ job[r].stage \in Names
  BY <1>1, JobFields DEF HoldsApplication
<1>3. app[job[r].user].status = "pending"
  BY <1>2 DEF WritersKnow
<1>4. app[job[r].user] \in Applications /\ app \in [Users -> Applications]
  BY <1>2 DEF TypeOK
<1> DEFINE row == [app[job[r].user] EXCEPT !.status = s, !.handledBy = job[r].admin]
<1>5. app' = [app EXCEPT ![job[r].user] = row]
  BY <1>2, <1>4 DEF Decide
<1>6. \A q \in Requests : q # r => ~HoldsApplication(q, job[r].user)
  BY <1>2 DEF LocksExclude
<1>7. row \in Applications /\ row.status = s /\ row.handledBy = job[r].admin
  <2>1. PICK x \in Applications : x = app[job[r].user]
    BY <1>4
  <2>2. PICK b \in Admins : b = job[r].admin
    BY <1>2
  <2>3. x.status = "pending" /\ row = [x EXCEPT !.status = s, !.handledBy = b]
    BY <1>3, <2>1, <2>2
  <2> HIDE DEF row
  <2>4. /\ [x EXCEPT !.status = s, !.handledBy = b] \in Applications
        /\ [x EXCEPT !.status = s, !.handledBy = b].status = s
        /\ [x EXCEPT !.status = s, !.handledBy = b].handledBy = b
    <3>1. x \in [status : {"pending"}, stage : Names, handledBy : {Nobody}]
      BY <2>3 DEF Applications, NoApplication
    <3>2. [x EXCEPT !.status = s, !.handledBy = b]
             \in [status : {"approved", "rejected"}, stage : Names, handledBy : Admins]
      BY <3>1
    <3> QED
      BY <3>1, <3>2 DEF Applications
  <2> QED
    BY <2>2, <2>3, <2>4
<1> HIDE DEF row
<1>8. /\ app' \in [Users -> Applications]
      /\ app'[job[r].user].status = s /\ app'[job[r].user].handledBy = job[r].admin
      /\ \A v \in Users : v # job[r].user => app'[v] = app[v]
  BY <1>2, <1>4, <1>5, <1>7
<1> QED
  BY <1>1, <1>2, <1>3, <1>6, <1>8


LEMMA ApproveCommitKeepsInv ==
    ASSUME Inv, NEW r \in Requests, NEW a \in {"ok", "lost"}, ApproveCommit(r, a)
    PROVE  Inv'
<1> DEFINE u == job[r].user
           n == job[r].stage
<1> USE DEF Inv
<1>1. HoldsApplication(r, u) /\ pc[r] = "inserted" /\ job[r].op = "approve"
  BY DEF ApproveCommit, HoldsApplication
<1>2. /\ job[r] \in Jobs /\ Move(r, job[r], a)
      /\ u \in Users /\ n \in Names
      /\ app[u].status = "pending"
      /\ app' \in [Users -> Applications]
      /\ app'[u].status = "approved" /\ app'[u].handledBy = job[r].admin
      /\ \A v \in Users : v # u => app'[v] = app[v]
      /\ \A q \in Requests : q # r => ~HoldsApplication(q, u)
  BY <1>1, DecideEffect DEF ApproveCommit, InFlight
<1>3. /\ idols' = [idols EXCEPT ![u] = n]
      /\ role' = [role EXCEPT ![u] = "idol"]
      /\ consented' = consented
  BY DEF ApproveCommit
<1>4. role[u] # "none" /\ \A v \in Users : idols[v] # n
  BY <1>1, <1>2 DEF SignupIsWhole, WritersKnow
<1>5. /\ idols'[u] = n /\ role'[u] = "idol"
      /\ \A v \in Users : v # u => idols'[v] = idols[v] /\ role'[v] = role[v]
  BY <1>2, <1>3 DEF TypeOK
<1>6. \A q \in Requests : q # r /\ pc[q] = "inserted" => job[q].stage # n
  BY <1>1, <1>2 DEF LocksExclude, HoldsName
<1>7. TypeOK'
  BY <1>2, <1>3, MoveKeepsTypes DEF TypeOK, Answers
<1>8. JobsFit'
  BY <1>2, MoveEffect DEF JobsFit, InFlight
<1>9. WritersKnow'
  <2>1. \A q \in Requests : ~HoldsProfileKey(q, u)
    BY <1>2, <1>4 DEF WritersKnow
  <2> QED
    BY <1>2, <1>5, <1>6, <2>1, MoveEffect
    DEF WritersKnow, HoldsProfileKey, HoldsApplication
<1>10. LocksExclude'
  BY <1>2, MoveEffect DEF LocksExclude, HoldsProfileKey, HoldsApplication, HoldsName
<1>11. ApprovalIsAtomic' /\ SignupIsWhole' /\ StageNamesUnique'
  BY NullsDistinct, <1>2, <1>3, <1>4, <1>5
  DEF ApprovalIsAtomic, SignupIsWhole, StageNamesUnique
<1>12. AnsweredDecisionStands'
  <2>1. \A q \in Requests : pc[q] = "ok" /\ job[q].op # "signup" => job[q].user # u
    BY <1>2 DEF AnsweredDecisionStands
  <2>2. \A q \in Requests : pc[q] = "ok" => job[q].user \in Users
    BY JobFields DEF JobsFit
  <2> QED
    BY <1>1, <1>2, <2>1, <2>2, MoveEffect DEF AnsweredDecisionStands
<1> QED
  BY <1>7, <1>8, <1>9, <1>10, <1>11, <1>12

LEMMA RejectCommitKeepsInv ==
    ASSUME Inv, NEW r \in Requests, NEW a \in {"ok", "lost"}, RejectCommit(r, a)
    PROVE  Inv'
<1> DEFINE u == job[r].user
<1> USE DEF Inv
<1>1. HoldsApplication(r, u) /\ pc[r] = "written" /\ job[r].op = "reject"
  BY DEF RejectCommit, HoldsApplication
<1>2. /\ job[r] \in Jobs /\ Move(r, job[r], a)
      /\ u \in Users
      /\ app[u].status = "pending"
      /\ app' \in [Users -> Applications]
      /\ app'[u].status = "rejected" /\ app'[u].handledBy = job[r].admin
      /\ \A v \in Users : v # u => app'[v] = app[v]
      /\ \A q \in Requests : q # r => ~HoldsApplication(q, u)
  BY <1>1, DecideEffect DEF RejectCommit, InFlight
<1>3. idols' = idols /\ role' = role /\ consented' = consented
  BY DEF RejectCommit
<1>4. TypeOK'
  BY <1>2, <1>3, MoveKeepsTypes DEF TypeOK, Answers
<1>5. JobsFit'
  BY <1>2, MoveEffect DEF JobsFit, InFlight
<1>6. WritersKnow'
  BY <1>2, <1>3, MoveEffect DEF WritersKnow, HoldsProfileKey, HoldsApplication
<1>7. LocksExclude'
  BY <1>2, MoveEffect DEF LocksExclude, HoldsProfileKey, HoldsApplication, HoldsName
<1>8. ApprovalIsAtomic' /\ SignupIsWhole' /\ StageNamesUnique'
  BY <1>2, <1>3 DEF ApprovalIsAtomic, SignupIsWhole, StageNamesUnique
<1>9. AnsweredDecisionStands'
  <2>1. \A q \in Requests : pc[q] = "ok" /\ job[q].op # "signup" => job[q].user # u
    BY <1>2 DEF AnsweredDecisionStands
  <2>2. \A q \in Requests : pc[q] = "ok" => job[q].user \in Users
    BY JobFields DEF JobsFit
  <2> QED
    BY <1>1, <1>2, <2>1, <2>2, MoveEffect DEF AnsweredDecisionStands
<1> QED
  BY <1>4, <1>5, <1>6, <1>7, <1>8, <1>9

LEMMA RenameKeepsInv ==
    ASSUME Inv, NEW u \in Users, NEW n \in Names, Rename(u, n) PROVE Inv'
<1> USE DEF Inv, Rename
<1>1. TypeOK'
  BY DEF TypeOK
<1>2. \A v \in Users : idols'[v] = IF v = u THEN n ELSE idols[v]
  BY DEF TypeOK
<1>3. JobsFit' /\ LocksExclude'
  BY DEF JobsFit, LocksExclude, HoldsProfileKey, HoldsApplication, HoldsName
<1>4. WritersKnow'
  BY <1>2 DEF WritersKnow, HoldsProfileKey, HoldsApplication, HoldsName
<1>5. ApprovalIsAtomic' /\ SignupIsWhole' /\ StageNamesUnique'
  BY NullsDistinct, <1>2 DEF ApprovalIsAtomic, SignupIsWhole, StageNamesUnique
<1>6. AnsweredDecisionStands'
  BY DEF AnsweredDecisionStands
<1> QED
  BY <1>1, <1>3, <1>4, <1>5, <1>6

LEMMA StutterKeepsInv == Inv /\ UNCHANGED vars => Inv'
BY DEF Inv, vars, TypeOK, JobsFit, WritersKnow, LocksExclude, HoldsProfileKey,
       HoldsApplication, HoldsName, ApprovalIsAtomic, SignupIsWhole,
       StageNamesUnique, AnsweredDecisionStands

-----------------------------------------------------------------------------
(* The theorems.                                                           *)

\* Inv is an inductive invariant of the specification.
THEOREM Invariance == Spec => []Inv
<1>1. Init => Inv
  BY InitEstablishesInv
<1>2. Inv /\ [Next]_vars => Inv'
  <2> SUFFICES ASSUME Inv, [Next]_vars PROVE Inv'
    OBVIOUS
  <2>1. ASSUME NEW r \in Requests, Start(r) PROVE Inv'
    BY <2>1, StartKeepsInv
  <2>2. ASSUME NEW r \in Requests, Write(r) PROVE Inv'
    BY <2>2, WriteKeepsInv
  <2>3. ASSUME NEW r \in Requests, Commit(r) PROVE Inv'
    BY <2>3, SignupCommitKeepsInv, ApproveCommitKeepsInv, RejectCommitKeepsInv DEF Commit
  <2>4. ASSUME NEW r \in Requests, Fail(r) PROVE Inv'
    BY <2>4, FailKeepsInv
  <2>5. ASSUME NEW u \in Users, NEW n \in Names, Rename(u, n) PROVE Inv'
    BY <2>5, RenameKeepsInv
  <2>6. CASE UNCHANGED vars
    BY <2>6, StutterKeepsInv
  <2> QED
    BY <2>1, <2>2, <2>3, <2>4, <2>5, <2>6 DEF Next
<1> QED
  BY <1>1, <1>2, PTL DEF Spec

\* Every variable keeps its type: no application row without a stage name, and
\* exactly the decided ones with an administrator.
THEOREM TypeCorrectness == Spec => []TypeOK
<1>1. Inv => TypeOK
  BY DEF Inv
<1> QED
  BY <1>1, Invariance, PTL

\* The tables approve_idol_application writes never disagree.
THEOREM ApprovalAtomicity == Spec => []ApprovalIsAtomic
<1>1. Inv => ApprovalIsAtomic
  BY DEF Inv
<1> QED
  BY <1>1, Invariance, PTL

\* No two idols share a stage name.
THEOREM StageNameUniqueness == Spec => []StageNamesUnique
<1>1. Inv => StageNamesUnique
  BY DEF Inv
<1> QED
  BY <1>1, Invariance, PTL

\* A decision acknowledged with "ok" is the stored one, and the only one.
THEOREM AcknowledgedDecisions == Spec => []AnsweredDecisionStands
<1>1. Inv => AnsweredDecisionStands
  BY DEF Inv
<1> QED
  BY <1>1, Invariance, PTL

\* Sign-up creates the profile, the agreements and the application together.
THEOREM SignupAtomicity == Spec => []SignupIsWhole
<1>1. Inv => SignupIsWhole
  BY DEF Inv
<1> QED
  BY <1>1, Invariance, PTL

\* The committed decision of a user changes in no step: only a commit writes
\* applications, and the transaction that commits found the row absent (sign-up)
\* or pending (a decision), and kept it locked.
LEMMA DecidedRowStays ==
    ASSUME Inv, Next, NEW u \in Users, app[u].status \in {"approved", "rejected"}
    PROVE  app'[u] = app[u]
<1> USE DEF Inv
<1>1. CASE \E r \in Requests : Start(r) \/ Write(r) \/ Fail(r)
  BY <1>1 DEF Start, Write, Fail, SignupRead, DecisionRead, SignupInsertProfile, Claim,
              ClaimIf, InsertIdol, InsertIdolIf, tables
<1>2. ASSUME NEW r \in Requests, NEW a \in {"ok", "lost"}, SignupCommit(r, a)
      PROVE  app'[u] = app[u]
  <2>1. HoldsProfileKey(r, job[r].user) /\ job[r].user \in Users
    BY <1>2, JobFields DEF SignupCommit, SignupStore, HoldsProfileKey, JobsFit, InFlight
  <2>2. u # job[r].user
    BY <2>1 DEF WritersKnow, SignupIsWhole
  <2> QED
    BY <1>2, <2>1, <2>2 DEF SignupCommit, SignupStore, TypeOK
<1>3. ASSUME NEW r \in Requests, NEW a \in {"ok", "lost"},
             ApproveCommit(r, a) \/ RejectCommit(r, a)
      PROVE  app'[u] = app[u]
  <2>1. HoldsApplication(r, job[r].user) /\ job[r].user \in Users
    BY <1>3, JobFields
    DEF ApproveCommit, RejectCommit, HoldsApplication, JobsFit, InFlight
  <2>2. u # job[r].user
    BY <2>1 DEF WritersKnow
  <2> QED
    BY <1>3, <2>1, <2>2 DEF ApproveCommit, RejectCommit, Decide, TypeOK
<1>4. CASE \E v \in Users, n \in Names : Rename(v, n)
  BY <1>4 DEF Rename
<1> QED
  BY <1>1, <1>2, <1>3, <1>4 DEF Next, Commit

\* A decided application is never decided again, reopened or overwritten.
THEOREM DecisionFinality == Spec => DecisionIsFinal
<1>1. Inv /\ [Next]_vars =>
        [\A u \in Users : app[u].status \in {"approved", "rejected"} =>
                             app'[u] = app[u]]_vars
  BY DecidedRowStays
<1> QED
  BY <1>1, Invariance, PTL DEF Spec, DecisionIsFinal

-----------------------------------------------------------------------------
(* The refinement: seen through Decisions, a commit of a sign-up of an idol *)
(* submits, the commit of a decision decides, and everything else stutters. *)

\* What the mapping makes of a step that touches the application of one user.
LEMMA MappedUpdate ==
    ASSUME TypeOK, NEW x \in Users, NEW status, NEW admin,
           app' \in [Users -> Applications],
           app'[x].status = status, app'[x].handledBy = admin,
           \A u \in Users : u # x => app'[u] = app[u]
    PROVE  /\ [u \in Users |-> app'[u].status]
                = [[u \in Users |-> app[u].status] EXCEPT ![x] = status]
           /\ [u \in Users |-> app'[u].handledBy]
                = [[u \in Users |-> app[u].handledBy] EXCEPT ![x] = admin]
OBVIOUS

\* The initial states agree.
LEMMA InitMaps == Init => Decisions!Init
BY DEF Init, Decisions!Init, NoApplication

\* A step that changes neither applications nor stage names is a stutter.
LEMMA SilentStep ==
    ASSUME app' = app, idols' = idols
    PROVE  UNCHANGED Decisions!vars
BY DEF Decisions!vars

\* The commit of a sign-up submits the application of an idol.
LEMMA SignupSubmits ==
    ASSUME Inv, Inv', NEW r \in Requests, NEW a \in {"ok", "lost"}, SignupCommit(r, a)
    PROVE  [Decisions!Next]_(Decisions!vars)
<1>0. PICK x \in Users : job[r].user = x
  BY JobFields DEF SignupCommit, SignupStore, JobsFit, InFlight, Inv
<1>1. HoldsProfileKey(r, x) /\ job[r].stage \in Names \cup {NoName}
  BY <1>0, JobFields DEF SignupCommit, SignupStore, HoldsProfileKey, JobsFit, InFlight, Inv
<1>2. app[x].status = "none" /\ app[x] \in Applications
  BY <1>1 DEF WritersKnow, SignupIsWhole, TypeOK, Inv
<1>3. app[x].handledBy = Nobody
  BY <1>2 DEF Applications, NoApplication
<1>4. CASE job[r].stage = NoName
  BY <1>4, SilentStep DEF SignupCommit, SignupStore
<1>5. CASE job[r].stage # NoName
  <2>1. /\ app'[x].status = "pending" /\ app'[x].handledBy = Nobody
        /\ \A u \in Users : u # x => app'[u] = app[u]
        /\ app' \in [Users -> Applications]
        /\ idols' = idols
    BY <1>0, <1>1, <1>5 DEF SignupCommit, SignupStore, TypeOK, Inv
  <2>2. [u \in Users |-> app'[u].status]
          = [[u \in Users |-> app[u].status] EXCEPT ![x] = "pending"]
    BY <1>1, <2>1
  <2>3. [u \in Users |-> app'[u].handledBy] = [u \in Users |-> app[u].handledBy]
    BY <1>1, <1>3, <2>1
  <2>4. Decisions!Submit(x)
    BY <1>1, <1>2, <2>1, <2>2, <2>3 DEF Decisions!Submit
  <2>5. Decisions!Next
    BY <2>4 DEF Decisions!Next
  <2> QED
    BY <2>5
<1> QED
  BY <1>4, <1>5

\* The commit of an approval approves, under a name nobody has.
LEMMA ApproveApproves ==
    ASSUME Inv, Inv', NEW r \in Requests, NEW a \in {"ok", "lost"}, ApproveCommit(r, a)
    PROVE  Decisions!Next
<1>0. PICK x \in Users, n \in Names, admin \in Admins :
         job[r].user = x /\ job[r].stage = n /\ job[r].admin = admin
  BY JobFields DEF ApproveCommit, JobsFit, InFlight, Inv
<1>1. HoldsApplication(r, x)
  BY <1>0 DEF ApproveCommit, HoldsApplication
<1>2. app[x].status = "pending"
  BY <1>1 DEF WritersKnow, Inv
<1>3. \A v \in Users : idols[v] # n
  BY <1>0 DEF WritersKnow, ApproveCommit, Inv
<1>4. /\ app'[x].status = "approved" /\ app'[x].handledBy = admin
      /\ \A u \in Users : u # x => app'[u] = app[u]
      /\ app' \in [Users -> Applications]
      /\ idols' = [idols EXCEPT ![x] = n]
  BY <1>0 DEF ApproveCommit, Decide, TypeOK, Inv, Applications
<1>5. Decisions!Approve(x, admin, n)
  BY <1>2, <1>3, <1>4, MappedUpdate DEF Decisions!Approve, Decisions!Taken, Inv
<1> QED
  BY <1>5 DEF Decisions!Next

\* The commit of a rejection rejects.
LEMMA RejectRejects ==
    ASSUME Inv, Inv', NEW r \in Requests, NEW a \in {"ok", "lost"}, RejectCommit(r, a)
    PROVE  Decisions!Next
<1>0. PICK x \in Users, admin \in Admins : job[r].user = x /\ job[r].admin = admin
  BY JobFields DEF RejectCommit, JobsFit, InFlight, Inv
<1>1. HoldsApplication(r, x)
  BY <1>0 DEF RejectCommit, HoldsApplication
<1>2. app[x].status = "pending"
  BY <1>1 DEF WritersKnow, Inv
<1>3. /\ app'[x].status = "rejected" /\ app'[x].handledBy = admin
      /\ \A u \in Users : u # x => app'[u] = app[u]
      /\ app' \in [Users -> Applications]
      /\ idols' = idols
  BY <1>0 DEF RejectCommit, Decide, TypeOK, Inv, Applications
<1>4. Decisions!Reject(x, admin)
  BY <1>2, <1>3, MappedUpdate DEF Decisions!Reject, Inv
<1> QED
  BY <1>4 DEF Decisions!Next

\* A rename of the app is a rename: only an approved user has a stage name.
LEMMA RenameRenames ==
    ASSUME Inv, NEW x \in Users, NEW n \in Names, Rename(x, n)
    PROVE  Decisions!Next
<1>1. app[x].status = "approved" /\ app' = app
  BY DEF Rename, ApprovalIsAtomic, Inv
<1>2. Decisions!Rename(x, n)
  BY <1>1 DEF Rename, Decisions!Rename, Decisions!Taken
<1> QED
  BY <1>2 DEF Decisions!Next

LEMMA StepMaps ==
    ASSUME Inv, Inv', [Next]_vars
    PROVE  [Decisions!Next]_(Decisions!vars)
<1>1. CASE UNCHANGED vars
  BY <1>1, SilentStep DEF vars
<1>2. CASE \E r \in Requests : Start(r) \/ Write(r) \/ Fail(r)
  <2>1. app' = app /\ idols' = idols
    BY <1>2 DEF Start, Write, Fail, SignupRead, DecisionRead, SignupInsertProfile, Claim,
                ClaimIf, InsertIdol, InsertIdolIf, tables
  <2> QED
    BY <2>1, SilentStep
<1>3. CASE \E r \in Requests : Commit(r)
  BY <1>3, SignupSubmits, ApproveApproves, RejectRejects DEF Commit
<1>4. CASE \E x \in Users, n \in Names : Rename(x, n)
  BY <1>4, RenameRenames
<1> QED
  BY <1>1, <1>2, <1>3, <1>4 DEF Next

\* The transactions of the backend implement decisions taken in one step:
\* whatever an administrator, an applicant or a fan can see of applications and
\* stage names, an execution of ApplicationDecision shows as well.
THEOREM Refinement == Spec => ImplementsDecisions
<1>1. Init => Decisions!Init
  BY InitMaps
<1>2. Inv /\ Inv' /\ [Next]_vars => [Decisions!Next]_(Decisions!vars)
  BY StepMaps
<1> QED
  BY <1>1, <1>2, Invariance, PTL DEF Spec, ImplementsDecisions, Decisions!Spec

-----------------------------------------------------------------------------
(* Nobody is stuck: the part of RequestsAreAnswered that is not about      *)
(* fairness.                                                               *)

\* The next statement of r needs a row or key that q keeps locked.
WaitsForName(r, q) ==
    /\ job[r].op = "approve" /\ pc[r] = "written"
    /\ q # r /\ HoldsName(q, job[r].stage)

WaitsForRow(r, q) ==
    /\ pc[r] = "checked" /\ q # r
    /\ IF job[r].op = "signup" THEN HoldsProfileKey(q, job[r].user)
                               ELSE HoldsApplication(q, job[r].user)

WaitsFor(r, q) == WaitsForName(r, q) \/ WaitsForRow(r, q)

\* The guards of SignupInsertProfile, Claim and InsertIdol, and of the commits.
CanWrite(r) ==
    /\ pc[r] = "checked" \/ (job[r].op = "approve" /\ pc[r] = "written")
    /\ \A q \in Requests : ~WaitsFor(r, q)

CanCommit(r) ==
    \/ job[r].op \in {"signup", "reject"} /\ pc[r] = "written"
    \/ job[r].op = "approve" /\ pc[r] = "inserted"

CanGoOn(r) == CanWrite(r) \/ CanCommit(r)

NobodyIsStuck ==
    \A r \in Requests : pc[r] \in InFlight =>
        \/ CanGoOn(r)
        \/ \E q \in Requests :
              /\ WaitsFor(r, q)
              /\ CanGoOn(q) \/ \E p \in Requests : WaitsFor(q, p) /\ CanGoOn(p)

\* Whoever runs can go on, or waits for a request.
LEMMA GoesOnOrWaits ==
    ASSUME Inv, NEW r \in Requests, pc[r] \in InFlight
    PROVE  CanGoOn(r) \/ \E q \in Requests : WaitsFor(r, q)
<1>1. job[r] \in Jobs
  BY DEF Inv, JobsFit
<1>2. job[r].op \in {"signup", "approve", "reject"}
  BY <1>1, JobFields
<1>3. pc[r] = "inserted" => job[r].op = "approve"
  BY DEF Inv, JobsFit
<1> QED
  BY <1>2, <1>3 DEF InFlight, CanGoOn, CanWrite, CanCommit

\* Whoever holds a stage name commits next, and so does whoever signs up; whoever
\* holds an application waits at most for a stage name.
LEMMA LocksAreOrdered ==
    ASSUME Inv, NEW r \in Requests, NEW q \in Requests, WaitsFor(r, q)
    PROVE  CanGoOn(q) \/ \E p \in Requests : WaitsFor(q, p) /\ CanGoOn(p)
<1>1. ASSUME NEW p \in Requests, NEW x \in Requests, WaitsForName(x, p)
      PROVE  CanGoOn(p)
  BY <1>1 DEF WaitsForName, HoldsName, CanGoOn, CanCommit, Inv, JobsFit
<1>2. ASSUME WaitsForRow(r, q), ~CanGoOn(q)
      PROVE  \E p \in Requests : WaitsFor(q, p) /\ CanGoOn(p)
  <2>1. pc[q] \in {"written", "inserted"}
    BY <1>2 DEF WaitsForRow, HoldsProfileKey, HoldsApplication
  <2>2. PICK p \in Requests : WaitsFor(q, p)
    BY <1>2, <2>1, GoesOnOrWaits DEF InFlight
  <2>3. WaitsForName(q, p)
    BY <2>1, <2>2 DEF WaitsFor, WaitsForRow
  <2> QED
    BY <1>1, <2>2, <2>3
<1> QED
  BY <1>1, <1>2 DEF WaitsFor

\* Of any number of sign-ups, approvals and rejections side by side none waits in a
\* circle: it can go on, or waits for one that can, or that waits for one that can
\* (approve_idol_application locks the application before the stage name).
THEOREM DeadlockFreedom == Spec => []NobodyIsStuck
<1>1. Inv => NobodyIsStuck
  BY GoesOnOrWaits, LocksAreOrdered DEF NobodyIsStuck
<1> QED
  BY <1>1, Invariance, PTL
=============================================================================
