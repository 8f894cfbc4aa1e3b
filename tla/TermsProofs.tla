---------------------------- MODULE TermsProofs ----------------------------
(***************************************************************************)
(* For any number of requests and versions: the properties of Terms.       *)
(***************************************************************************)
EXTENDS Terms, TLAPS

\* Requests that have written their rows hold their unique keys: nobody else has
\* stored or written them.  Versions are those that were deployed.
KeysInv ==
    /\ \A r \in Requests : pc[r] = "written" =>
          \A t \in job[r].yes : job[r].version[t] \notin Agreed(t)
    /\ \A r, q \in Requests : pc[r] = "written" /\ pc[q] = "written" /\ r # q =>
          \A t \in job[r].yes \cap job[q].yes : job[r].version[t] # job[q].version[t]

\* Nobody has agreed, or is about to, to documents that were not deployed yet.
DeployedInv ==
    /\ \A t \in Types : \A v \in Agreed(t) : v <= current[t]
    /\ \A r \in Requests : pc[r] \in InFlight =>
          \A t \in Types : job[r].version[t] <= current[t]

\* Of the versions agreed to, one is the latest.
LatestInv == \A t \in Types : history[t] # <<>> =>
                \E m \in Agreed(t) : \A v \in Agreed(t) : m >= v

Inv == TypeOK /\ KeysInv /\ DeployedInv /\ LatestInv /\ ConsentIsWhole

-----------------------------------------------------------------------------
\* A row is appended to what was agreed to.
LEMMA AppendAgrees ==
    ASSUME NEW S, NEW s \in Seq(S), NEW v \in S
    PROVE  /\ Append(s, v) \in Seq(S)
           /\ Len(Append(s, v)) = Len(s) + 1
           /\ ToSet(Append(s, v)) = ToSet(s) \cup {v}
           /\ IsInjective(s) /\ v \notin ToSet(s) => IsInjective(Append(s, v))
<1>1. /\ Append(s, v) \in Seq(S) /\ Len(Append(s, v)) = Len(s) + 1
      /\ DOMAIN s = 1 .. Len(s) /\ DOMAIN Append(s, v) = 1 .. Len(s) + 1
      /\ \A i \in 1 .. Len(s) : Append(s, v)[i] = s[i]
      /\ Append(s, v)[Len(s) + 1] = v
      /\ Len(s) \in Nat
    OBVIOUS
<1>2. ToSet(Append(s, v)) = ToSet(s) \cup {v}
    BY <1>1 DEF ToSet
<1>3. ASSUME IsInjective(s), v \notin ToSet(s)
      PROVE  IsInjective(Append(s, v))
    BY <1>1, <1>3 DEF ToSet, IsInjective
<1> QED BY <1>1, <1>2, <1>3

\* A step of r leaves the other requests alone.
LEMMA OthersStay ==
    ASSUME TypeOK, NEW r \in Requests, NEW l, NEW j, Move(r, l, j, Nothing, Nothing)
    PROVE  /\ pc'[r] = l /\ job'[r] = j
           /\ \A q \in Requests \ {r} : pc'[q] = pc[q] /\ job'[q] = job[q]
BY DEF Move, TypeOK, WorkTypes, JobTypes

\* The types, when r moves to a label with what belongs to it.
LEMMA MoveKeepsTypes ==
    ASSUME TypeOK, NEW r \in Requests, NEW l, NEW j, Move(r, l, j, Nothing, Nothing),
           l \in {"idle"} \cup InFlight \cup Answers,
           j \in Jobs \cup {Nothing}, j # Nothing <=> l \in InFlight
    PROVE  WorkTypes(Jobs, {}, {})'
<1>1. /\ pc' \in [Requests -> {"idle"} \cup InFlight \cup Answers]
      /\ job' \in [Requests -> Jobs \cup {Nothing}]
      /\ seen' \in [Requests -> {} \cup {Nothing}]
      /\ draft' \in [Requests -> {} \cup {Nothing}]
    BY DEF Move, TypeOK, WorkTypes, JobTypes
<1>2. \A q \in Requests : pc'[q] \in InFlight <=> job'[q] # Nothing
    BY OthersStay DEF TypeOK, WorkTypes, JobTypes
<1> QED BY <1>1, <1>2 DEF WorkTypes, JobTypes

\* The job of a running request.
LEMMA RunningHasJob ==
    ASSUME TypeOK, NEW r \in Requests, pc[r] \in InFlight
    PROVE  /\ job[r] \in Jobs /\ job[r].version \in [Types -> Versions]
           /\ Mandatory \subseteq job[r].yes /\ job[r].yes \subseteq Types
           /\ pc[r] \notin Answers
<1>1. job[r] \in Jobs
    BY DEF TypeOK, WorkTypes, JobTypes
<1> QED BY <1>1 DEF Jobs, Mandatory, Types, InFlight, Answers

-----------------------------------------------------------------------------
(* The invariant.                                                          *)

LEMMA InitInv == Init => Inv
<1> SUFFICES ASSUME Init PROVE Inv
    OBVIOUS
<1>1. PICK signed \in {Mandatory, Types} :
          history = [t \in Types |-> IF t \in signed THEN <<1>> ELSE <<>>]
    BY DEF Init
<1>2. /\ 1 \in Versions /\ MaxVersion \in Nat
      /\ Mandatory \subseteq signed /\ Mandatory \subseteq Types
    BY <1>1, TermsConstants DEF Versions, Mandatory, Types
<1>3. \A t \in Types : history[t] \in {<<1>>, <<>>}
    BY <1>1
<1>4. /\ <<1>> \in Seq(Versions) /\ <<>> \in Seq(Versions)
      /\ ToSet(<<1>>) = {1} /\ ToSet(<<>>) = {}
      /\ IsInjective(<<1>>) /\ IsInjective(<<>>)
    BY <1>2 DEF ToSet, IsInjective
<1>5. TypeOK
    BY <1>1, <1>2, <1>3, <1>4 DEF Init, TypeOK, IdleWork, WorkTypes, JobTypes, InFlight
<1>6. KeysInv /\ DeployedInv /\ LatestInv
    BY <1>2, <1>3, <1>4 DEF Init, KeysInv, DeployedInv, LatestInv, Agreed, IdleWork, InFlight
<1>7. ConsentIsWhole
    BY <1>1, <1>2 DEF ConsentIsWhole, Mandatory
<1> QED BY <1>5, <1>6, <1>7 DEF Inv

LEMMA DeployInv ==
    ASSUME Inv, NEW docs \in SUBSET Types, Deploy(docs)
    PROVE  Inv'
<1>1. \A t \in Types : current'[t] \in Versions /\ current'[t] >= current[t]
    BY TermsConstants DEF Inv, TypeOK, Deploy, Versions
<1>2. current' \in [Types -> Versions]
    BY <1>1 DEF Deploy
<1>3. TypeOK'
    BY <1>2 DEF Inv, TypeOK, Deploy, WorkTypes, JobTypes, work
<1>4. KeysInv' /\ LatestInv' /\ ConsentIsWhole'
    BY DEF Inv, KeysInv, LatestInv, ConsentIsWhole, Deploy, Agreed, work
<1>5. \A t \in Types : \A v \in Agreed(t) : v \in Versions
    BY DEF Inv, TypeOK, Agreed, ToSet
<1>6. \A t \in Types : \A v \in Agreed(t)' : v <= current'[t]
    BY <1>1, <1>5 DEF Inv, TypeOK, DeployedInv, Deploy, Agreed, Versions
<1>7. ASSUME NEW r \in Requests, pc'[r] \in InFlight, NEW t \in Types
      PROVE  job'[r].version[t] <= current'[t]
    <2>1. job[r].version[t] \in Versions /\ job[r].version[t] <= current[t]
        BY <1>7, RunningHasJob DEF Inv, DeployedInv, Deploy, work
    <2> QED BY <2>1, <1>1 DEF Inv, TypeOK, Deploy, work, Versions
<1> QED BY <1>3, <1>4, <1>6, <1>7 DEF Inv, DeployedInv

LEMMA ReagreeInv ==
    ASSUME Inv, NEW r \in Requests, NEW yes \in SUBSET Types, NEW fresh \in BOOLEAN,
           Reagree(r, yes, fresh)
    PROVE  Inv'
<1> DEFINE j == [yes |-> yes, version |-> current]
<1>1. CASE fresh /\ Mandatory \subseteq yes
    <2>1. Move(r, "admitted", j, Nothing, Nothing)
        BY <1>1 DEF Reagree, Arrive
    <2>2. yes \in {Mandatory, Types}
        BY <1>1 DEF Mandatory, Types
    <2>3. j \in Jobs /\ j # Nothing
        BY <2>2, TermsConstants DEF Jobs, Inv, TypeOK
    <2>4. WorkTypes(Jobs, {}, {})'
        BY <2>1, <2>3, MoveKeepsTypes DEF Inv, InFlight
    <2>5. /\ pc'[r] = "admitted" /\ job'[r] = j
          /\ \A q \in Requests \ {r} : pc'[q] = pc[q] /\ job'[q] = job[q]
        BY <2>1, OthersStay DEF Inv
    <2>6. j.version = current
        OBVIOUS
    <2>7. \A t \in Types : current[t] <= current[t]
        BY DEF Inv, TypeOK, Versions
    <2> HIDE DEF j
    <2>8. KeysInv' /\ DeployedInv'
        BY <2>5, <2>6, <2>7 DEF Inv, KeysInv, DeployedInv, Reagree, Agreed
    <2> QED BY <2>4, <2>8 DEF Inv, TypeOK, LatestInv, ConsentIsWhole, Reagree, Agreed
<1>2. CASE ~(fresh /\ Mandatory \subseteq yes)
    <2>1. Move(r, "refused", Nothing, Nothing, Nothing)
        BY <1>2 DEF Reagree
    <2>2. WorkTypes(Jobs, {}, {})'
        BY <2>1, MoveKeepsTypes DEF Inv, InFlight, Answers
    <2>3. /\ pc'[r] = "refused"
          /\ \A q \in Requests \ {r} : pc'[q] = pc[q] /\ job'[q] = job[q]
        BY <2>1, OthersStay DEF Inv
    <2>4. KeysInv' /\ DeployedInv'
        BY <2>3 DEF Inv, KeysInv, DeployedInv, Reagree, Agreed, InFlight
    <2> QED BY <2>2, <2>4 DEF Inv, TypeOK, LatestInv, ConsentIsWhole, Reagree, Agreed
<1> QED BY <1>1, <1>2

LEMMA InsertInv ==
    ASSUME Inv, NEW r \in Requests, Insert(r)
    PROVE  Inv'
<1>1. job[r] \in Jobs /\ job[r] # Nothing /\ pc[r] = "admitted"
    BY RunningHasJob DEF Inv, Insert, Inserts, InFlight, TypeOK, WorkTypes, JobTypes
<1>2. CASE \E t \in job[r].yes : IsDuplicate(t, job[r].version[t])
    <2>1. Move(r, "error", Nothing, Nothing, Nothing)
        BY <1>2 DEF Insert, Reply
    <2>2. WorkTypes(Jobs, {}, {})'
        BY <2>1, MoveKeepsTypes DEF Inv, InFlight, Answers
    <2>3. /\ pc'[r] = "error"
          /\ \A q \in Requests \ {r} : pc'[q] = pc[q] /\ job'[q] = job[q]
        BY <2>1, OthersStay DEF Inv
    <2>4. KeysInv' /\ DeployedInv'
        BY <2>3 DEF Inv, KeysInv, DeployedInv, Insert, Inserts, Agreed, InFlight
    <2> QED BY <2>2, <2>4 DEF Inv, TypeOK, LatestInv, ConsentIsWhole, Insert, Inserts, Agreed
<1>3. CASE ~\E t \in job[r].yes : IsDuplicate(t, job[r].version[t])
    <2>1. Move(r, "written", job[r], Nothing, Nothing)
        BY <1>3 DEF Insert
    <2>2. WorkTypes(Jobs, {}, {})'
        BY <2>1, <1>1, MoveKeepsTypes DEF Inv, InFlight
    <2>3. /\ pc'[r] = "written" /\ job'[r] = job[r]
          /\ \A q \in Requests \ {r} : pc'[q] = pc[q] /\ job'[q] = job[q]
        BY <2>1, OthersStay DEF Inv
    <2>4. \A t \in job[r].yes : job[r].version[t] \notin Agreed(t)
        BY <1>3 DEF IsDuplicate
    <2>5. ASSUME NEW q \in Requests \ {r}, pc[q] = "written",
                 NEW t \in job[r].yes \cap job[q].yes
          PROVE  job[r].version[t] # job[q].version[t]
        <3>1. Keys(q) \cap Keys(r) = {}
            BY <2>5 DEF Insert, Inserts, KeysAreFree
        <3>2. <<t, job[r].version[t]>> \in Keys(r) /\ <<t, job[q].version[t]>> \in Keys(q)
            BY DEF Keys
        <3> QED BY <3>1, <3>2
    <2>6. KeysInv'
        BY <2>3, <2>4, <2>5 DEF Inv, KeysInv, Insert, Inserts, Agreed
    <2>7. DeployedInv'
        BY <1>1, <2>3 DEF Inv, DeployedInv, Insert, Inserts, Agreed, InFlight
    <2> QED BY <2>2, <2>6, <2>7 DEF Inv, TypeOK, LatestInv, ConsentIsWhole, Insert, Inserts, Agreed
<1> QED BY <1>2, <1>3

\* What a commit adds to the record.
LEMMA CommitAgrees ==
    ASSUME Inv, NEW r \in Requests, Commit(r), NEW t \in Types
    PROVE  /\ history'[t] \in Seq(Versions) /\ IsInjective(history'[t])
           /\ t \in job[r].yes => /\ Agreed(t)' = Agreed(t) \cup {job[r].version[t]}
                                  /\ Len(history'[t]) = Len(history[t]) + 1
                                  /\ job[r].version[t] \in Versions
                                  /\ job[r].version[t] <= current[t]
           /\ t \notin job[r].yes => history'[t] = history[t] /\ Agreed(t)' = Agreed(t)
<1>1. /\ history[t] \in Seq(Versions) /\ IsInjective(history[t])
      /\ pc[r] = "written" /\ pc[r] \in InFlight
    BY DEF Inv, TypeOK, Commit, InFlight
<1>2. job[r].version[t] \in Versions /\ job[r].version[t] <= current[t]
    BY <1>1, RunningHasJob DEF Inv, DeployedInv
<1>3. CASE t \in job[r].yes
    <2>1. history'[t] = Append(history[t], job[r].version[t])
        BY <1>3 DEF Commit
    <2>2. job[r].version[t] \notin ToSet(history[t])
        BY <1>1, <1>3 DEF Inv, KeysInv, Agreed
    <2> QED BY <1>1, <1>2, <1>3, <2>1, <2>2, AppendAgrees DEF Agreed
<1>4. CASE t \notin job[r].yes
    BY <1>1, <1>4 DEF Commit, Agreed
<1> QED BY <1>3, <1>4

LEMMA CommitInv ==
    ASSUME Inv, NEW r \in Requests, Commit(r)
    PROVE  Inv'
<1>1. Move(r, "ok", Nothing, Nothing, Nothing) /\ pc[r] = "written"
    BY DEF Commit, Reply
<1>2. /\ pc'[r] = "ok"
      /\ \A q \in Requests \ {r} : pc'[q] = pc[q] /\ job'[q] = job[q]
    BY <1>1, OthersStay DEF Inv
<1>3. TypeOK'
    <2>1. WorkTypes(Jobs, {}, {})'
        BY <1>1, MoveKeepsTypes DEF Inv, InFlight, Answers
    <2>2. history' \in [Types -> Seq(Versions)]
        BY CommitAgrees DEF Commit
    <2> QED BY <2>1, <2>2, CommitAgrees DEF Inv, TypeOK, Commit
<1>4. KeysInv'
    <2>1. ASSUME NEW q \in Requests \ {r}, pc[q] = "written", NEW t \in job[q].yes
          PROVE  job[q].version[t] \notin Agreed(t)'
        <3>1. t \in Types
            BY <2>1, RunningHasJob DEF Inv, InFlight
        <3>2. job[q].version[t] \notin Agreed(t)
            BY <2>1 DEF Inv, KeysInv
        <3>3. t \in job[r].yes => job[q].version[t] # job[r].version[t]
            BY <1>1, <2>1 DEF Inv, KeysInv
        <3> QED BY <3>1, <3>2, <3>3, CommitAgrees
    <2> QED BY <1>2, <2>1 DEF Inv, KeysInv
<1>5. DeployedInv'
    <2>1. ASSUME NEW t \in Types, NEW v \in Agreed(t)'
          PROVE  v <= current'[t]
        BY <2>1, CommitAgrees DEF Inv, DeployedInv, Commit, Agreed
    <2>2. ASSUME NEW q \in Requests, pc'[q] \in InFlight, NEW t \in Types
          PROVE  job'[q].version[t] <= current'[t]
        BY <1>2, <2>2 DEF Inv, DeployedInv, Commit, InFlight
    <2> QED BY <2>1, <2>2 DEF DeployedInv
<1>6. LatestInv'
    <2> SUFFICES ASSUME NEW t \in Types, history'[t] # <<>>
                 PROVE  \E m \in Agreed(t)' : \A v \in Agreed(t)' : m >= v
        BY DEF LatestInv
    <2>1. CASE t \notin job[r].yes
        BY <2>1, CommitAgrees DEF Inv, LatestInv, Agreed
    <2>2. CASE t \in job[r].yes
        <3> DEFINE w == job[r].version[t]
        <3>1. Agreed(t)' = Agreed(t) \cup {w} /\ w \in Versions
            BY <2>2, CommitAgrees
        <3>2. Agreed(t) \subseteq Versions
            BY DEF Inv, TypeOK, Agreed, ToSet
        <3>3. CASE history[t] = <<>>
            <4>1. Agreed(t) = {}
                BY <3>3 DEF Agreed, ToSet
            <4> QED BY <3>1, <4>1 DEF Versions
        <3>4. CASE history[t] # <<>>
            <4>1. PICK m \in Agreed(t) : \A v \in Agreed(t) : m >= v
                BY <3>4 DEF Inv, LatestInv
            <4>2. CASE m >= w
                BY <3>1, <3>2, <4>1, <4>2
            <4>3. CASE ~(m >= w)
                BY <3>1, <3>2, <4>1, <4>3 DEF Versions
            <4> QED BY <4>2, <4>3
        <3> QED BY <3>3, <3>4
    <2> QED BY <2>1, <2>2
<1>7. ConsentIsWhole'
    <2>1. "tos" \in job[r].yes /\ "privacy" \in job[r].yes /\ {"tos", "privacy"} \subseteq Types
        BY <1>1, RunningHasJob DEF Inv, InFlight, Mandatory, Types
    <2> QED BY <2>1, CommitAgrees DEF Inv, ConsentIsWhole
<1> QED BY <1>3, <1>4, <1>5, <1>6, <1>7 DEF Inv

LEMMA NextInv == Inv /\ [Next]_vars => Inv'
<1> SUFFICES ASSUME Inv, [Next]_vars PROVE Inv'
    OBVIOUS
<1>1. CASE UNCHANGED vars
    BY <1>1 DEF vars, work, Inv, TypeOK, WorkTypes, JobTypes, KeysInv, DeployedInv,
                LatestInv, ConsentIsWhole, Agreed
<1>2. ASSUME NEW docs \in SUBSET Types, Deploy(docs) PROVE Inv'
    BY <1>2, DeployInv
<1>3. ASSUME NEW r \in Requests, NEW yes \in SUBSET Types, NEW fresh \in BOOLEAN,
             Reagree(r, yes, fresh)
      PROVE  Inv'
    BY <1>3, ReagreeInv
<1>4. ASSUME NEW r \in Requests, Insert(r) PROVE Inv'
    BY <1>4, InsertInv
<1>5. ASSUME NEW r \in Requests, Commit(r) PROVE Inv'
    BY <1>5, CommitInv
<1> QED BY <1>1, <1>2, <1>3, <1>4, <1>5 DEF Next

-----------------------------------------------------------------------------
(* Staleness.                                                              *)

\* An agreement is the latest one, of those to deployed versions, as soon as it is
\* one to the version deployed.
LEMMA LatestIsDeployed ==
    ASSUME NEW h \in Seq(Versions), NEW c \in Versions,
           \A v \in ToSet(h) : v <= c,
           h # <<>> => \E m \in ToSet(h) : \A v \in ToSet(h) : m >= v
    PROVE  (IF h = <<>> THEN 0 ELSE Max(ToSet(h))) = c <=> c \in ToSet(h)
<1>1. ToSet(h) \subseteq Versions /\ Versions \subseteq Nat /\ 0 \notin Versions
    BY TermsConstants DEF ToSet, Versions
<1>2. CASE h = <<>>
    BY <1>1, <1>2 DEF ToSet
<1>3. CASE h # <<>>
    <2> DEFINE M == Max(ToSet(h))
    <2>1. M \in ToSet(h) /\ \A v \in ToSet(h) : M >= v
        BY <1>3 DEF Max
    <2>2. c \in ToSet(h) => M = c
        <3> SUFFICES ASSUME c \in ToSet(h) PROVE M = c
            OBVIOUS
        <3>1. M <= c /\ M >= c /\ M \in Nat /\ c \in Nat
            BY <1>1, <2>1
        <3> HIDE DEF M
        <3> QED BY <3>1
    <2> QED BY <1>3, <2>1, <2>2
<1> QED BY <1>2, <1>3

\* A mandatory document is stale just until its deployed version is agreed to.
LEMMA StaleMandatory ==
    ASSUME Inv
    PROVE  Stale \cap Mandatory = {t \in Mandatory : current[t] \notin Agreed(t)}
<1>1. ASSUME NEW t \in Mandatory
      PROVE  /\ t \in Types
             /\ Latest(t) = current[t] <=> current[t] \in Agreed(t)
    <2>1. t \in Types
        BY DEF Mandatory, Types
    <2>2. history[t] \in Seq(Versions) /\ current[t] \in Versions
        BY <2>1 DEF Inv, TypeOK
    <2>3. /\ \A v \in ToSet(history[t]) : v <= current[t]
          /\ history[t] # <<>> => \E m \in ToSet(history[t]) :
                                      \A v \in ToSet(history[t]) : m >= v
        BY <2>1 DEF Inv, DeployedInv, LatestInv, Agreed
    <2> QED BY <2>1, <2>2, <2>3, LatestIsDeployed DEF Latest, Agreed
<1> QED BY <1>1 DEF Stale

\* The same, after a step.
LEMMA StaleMandatoryNext ==
    ASSUME Inv'
    PROVE  (Stale \cap Mandatory)' = {t \in Mandatory : current'[t] \notin Agreed(t)'}
<1>1. ASSUME NEW t \in Mandatory
      PROVE  /\ t \in Types
             /\ Latest(t)' = current'[t] <=> current'[t] \in Agreed(t)'
    <2>1. t \in Types
        BY DEF Mandatory, Types
    <2>2. history'[t] \in Seq(Versions) /\ current'[t] \in Versions
        BY <2>1 DEF Inv, TypeOK
    <2>3. /\ \A v \in ToSet(history'[t]) : v <= current'[t]
          /\ history'[t] # <<>> => \E m \in ToSet(history'[t]) :
                                      \A v \in ToSet(history'[t]) : m >= v
        BY <2>1 DEF Inv, DeployedInv, LatestInv, Agreed
    <2> QED BY <2>1, <2>2, <2>3, LatestIsDeployed DEF Latest, Agreed
<1> QED BY <1>1 DEF Stale

\* Whoever commits does so in Commit.
LEMMA OnlyCommits ==
    ASSUME Inv, Next, NEW r \in Requests, Commits(r)
    PROVE  Commit(r)
<1>1. pc[r] = "written" /\ pc'[r] = "ok"
    BY DEF Commits
<1>2. ASSUME NEW q \in Requests, NEW l, NEW j, Move(q, l, j, Nothing, Nothing),
             pc[q] # "written" \/ l # "ok"
      PROVE  FALSE
    BY <1>1, <1>2, OthersStay DEF Inv
<1>3. ASSUME NEW docs \in SUBSET Types, Deploy(docs) PROVE FALSE
    BY <1>1, <1>3 DEF Deploy, work
<1>4. ASSUME NEW q \in Requests, NEW yes \in SUBSET Types, NEW fresh \in BOOLEAN,
             Reagree(q, yes, fresh)
      PROVE  FALSE
    BY <1>2, <1>4 DEF Reagree, Arrive
<1>5. ASSUME NEW q \in Requests, Insert(q) PROVE FALSE
    BY <1>2, <1>5 DEF Insert, Reply
<1>6. ASSUME NEW q \in Requests, Commit(q) PROVE q = r
    <2>1. Move(q, "ok", Nothing, Nothing, Nothing)
        BY <1>6 DEF Commit, Reply
    <2> QED BY <2>1, <1>1, OthersStay DEF Inv
<1> QED BY <1>3, <1>4, <1>5, <1>6 DEF Next

\* The record grows; a commit agrees to what its request says yes to.
LEMMA RecordGrows ==
    ASSUME Inv, Next
    PROVE  /\ \A t \in Types : Agreed(t) \subseteq Agreed(t)'
           /\ \A r \in Requests : Commits(r) =>
                 \A t \in Mandatory : job[r].version[t] \in Agreed(t)'
<1>1. ASSUME NEW r \in Requests, Commit(r)
      PROVE  \A t \in Types : Agreed(t) \subseteq Agreed(t)'
    BY <1>1, CommitAgrees
<1>2. ASSUME UNCHANGED history
      PROVE  \A t \in Types : Agreed(t) \subseteq Agreed(t)'
    BY <1>2 DEF Agreed
<1>3. (\E r \in Requests : Commit(r)) \/ UNCHANGED history
    BY DEF Next, Deploy, Reagree, Insert, Inserts
<1>4. ASSUME NEW r \in Requests, Commits(r), NEW t \in Mandatory
      PROVE  job[r].version[t] \in Agreed(t)'
    <2>1. Commit(r)
        BY <1>4, OnlyCommits
    <2>2. t \in job[r].yes /\ t \in Types
        BY <1>4, RunningHasJob DEF Commits, Inv, InFlight
    <2> QED BY <2>1, <2>2, CommitAgrees
<1> QED BY <1>1, <1>2, <1>3, <1>4

-----------------------------------------------------------------------------
(* The theorems.                                                           *)

\* The inductive invariant holds.
THEOREM Invariance == Spec => []Inv
BY InitInv, NextInv, PTL DEF Spec

\* Every variable keeps its type; no document is on record twice in one version.
THEOREM TypeCorrectness == Spec => []TypeOK
BY Invariance, PTL DEF Inv

\* tos and privacy are agreed to together, whatever is refused, collides or races.
THEOREM ConsentWholeness == Spec => []ConsentIsWhole
BY Invariance, PTL DEF Inv

\* Who agreed is not asked again before a document changes: neither refused nor late
\* agreements make a mandatory document stale, and one to the deployed versions
\* leaves none stale.
THEOREM AgreementsLast == Spec => AgreedStaysAgreed
<1> DEFINE Lasts == current' = current =>
                       /\ (Stale \cap Mandatory)' \subseteq Stale
                       /\ \A r \in Requests : Commits(r) /\ job[r].version = current
                                                 => (Stale \cap Mandatory)' = {}
<1>1. ASSUME Inv, Inv', [Next]_vars
      PROVE  [Lasts]_vars
    <2>1. CASE UNCHANGED vars
        BY <2>1
    <2>2. ASSUME Next, current' = current
          PROVE  (Stale \cap Mandatory)' \subseteq Stale
        <3>1. \A t \in Mandatory : Agreed(t) \subseteq Agreed(t)'
            BY <1>1, <2>2, RecordGrows DEF Mandatory, Types
        <3> QED BY <1>1, <2>2, <3>1, StaleMandatory, StaleMandatoryNext
    <2>3. ASSUME Next, current' = current, NEW r \in Requests, Commits(r),
                 job[r].version = current
          PROVE  (Stale \cap Mandatory)' = {}
        BY <1>1, <2>3, RecordGrows, StaleMandatoryNext
    <2> QED BY <1>1, <2>1, <2>2, <2>3
<1> QED BY <1>1, Invariance, PTL DEF Spec, AgreedStaysAgreed
=============================================================================
