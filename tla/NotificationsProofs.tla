------------------------ MODULE NotificationsProofs ------------------------
(***************************************************************************)
(* For any number of accounts, devices and requests: the properties of     *)
(* Notifications that are not about fairness.                              *)
(***************************************************************************)
EXTENDS Notifications, FiniteSetTheorems, TLAPS

IsTokenJob(j) == j # Nothing /\ j.op \in {"register", "unregister"}
IsPrefsJob(j) == j # Nothing /\ j.op = "prefs"
AskedKinds(j) == {k \in Kinds : j.patch[k] # Unset}

\* A request at l about a token, with what its session holds: one that registers the
\* token will store a row of its account, unless it found it registered so; one that
\* signs off found its account's row, and still does once it holds the row.
TokenFacts(l, j, s, d) ==
    IsTokenJob(j) =>
        /\ j.op = "register" /\ l = "written" =>
              d # Nothing /\ (d.user = j.user \/ (s # Nothing /\ s.user = j.user))
        /\ j.op = "unregister" /\ l \in {"read", "written"} /\ s # Nothing =>
              s.user = j.user
        /\ j.op = "unregister" /\ l = "written" /\ s # Nothing =>
              tokens[j.token] # Nothing /\ tokens[j.token].id = s.id

\* A request at l about the settings: a row that was there when it was loaded still
\* is; the draft is the row as it is now but for the kinds that were asked for.
PrefsFacts(l, j, s, d) ==
    IsPrefsJob(j) =>
        /\ l \in {"read", "written"} /\ s # Nothing => row # Nothing
        /\ l = "written" => d # Nothing
        /\ l = "written" /\ s = Nothing =>
              /\ row = Nothing
              /\ \A k \in Kinds : \/ k \in AskedKinds(j) /\ d[k] = j.patch[k]
                                  \/ d[k] = DefaultPrefs[k]
        /\ l = "written" /\ s # Nothing /\ AskedKinds(j) # {} =>
              \A k \in Kinds : \/ k \in AskedKinds(j) /\ d[k] = j.patch[k]
                               \/ d[k] = row[k]

Remembered == \A r \in Requests : /\ TokenFacts(pc[r], job[r], seen[r], draft[r])
                                  /\ PrefsFacts(pc[r], job[r], seen[r], draft[r])

\* The requests that have written the row of token t, or the settings.
HoldToken(l, j, s, t) == /\ l = "written" /\ IsTokenJob(j) /\ j.token = t
                         /\ j.op = "unregister" => s # Nothing
HoldPrefs(l, j, s)    == /\ l = "written" /\ IsPrefsJob(j)
                         /\ s = Nothing \/ AskedKinds(j) # {}

Exclusive ==
    \A r, q \in Requests : r # q =>
        /\ \A t \in Tokens : ~(/\ HoldToken(pc[r], job[r], seen[r], t)
                               /\ HoldToken(pc[q], job[q], seen[q], t))
        /\ ~(HoldPrefs(pc[r], job[r], seen[r]) /\ HoldPrefs(pc[q], job[q], seen[q]))

Inv == TypeOK /\ Remembered /\ Exclusive

-----------------------------------------------------------------------------
(* Jobs and rows.                                                          *)

LEMMA JobFacts ==
    /\ \A j \in TokenJobs : /\ j.token \in Tokens /\ j.user \in Users
                            /\ j.op \in {"register", "unregister"} /\ j # Nothing
                            /\ "patch" \notin DOMAIN j
    /\ \A j \in PrefsJobs : /\ j.op = "prefs" /\ j # Nothing /\ "patch" \in DOMAIN j
                            /\ j.patch \in [Kinds -> BOOLEAN \cup {Unset}]
BY NotificationConstants DEF TokenJobs, PrefsJobs

LEMMA KindsOfJobs ==
    ASSUME NEW j \in TokenJobs \cup PrefsJobs
    PROVE  /\ IsTokenJob(j) <=> j \in TokenJobs
           /\ IsPrefsJob(j) <=> j \in PrefsJobs
           /\ IsTokenJob(j) <=> ~IsPrefsJob(j)
BY JobFacts DEF IsTokenJob, IsPrefsJob

LEMMA RowFacts ==
    /\ \A x \in TokenRows : x # Nothing /\ x.id \in Ids /\ x.user \in Users
    /\ \A x \in [Kinds -> BOOLEAN] : x # Nothing
BY NotificationConstants DEF TokenRows

\* What a request is about.
LEMMA RunningHasJob ==
    ASSUME TypeOK, NEW r \in Requests, pc[r] \in InFlight
    PROVE  job[r] \in TokenJobs \cup PrefsJobs /\ job[r] # Nothing
BY DEF TypeOK, WorkTypes, JobTypes

LEMMA JobIsTyped ==
    ASSUME TypeOK, NEW r \in Requests
    PROVE  /\ IsToken(r) <=> IsTokenJob(job[r])
           /\ IsPrefs(r) <=> IsPrefsJob(job[r])
           /\ IsToken(r) => job[r] \in TokenJobs /\ ~IsPrefs(r)
           /\ IsPrefs(r) => job[r] \in PrefsJobs /\ ~IsToken(r)
<1>1. job[r] \in TokenJobs \cup PrefsJobs \cup {Nothing}
    BY DEF TypeOK, WorkTypes, JobTypes
<1> QED BY <1>1, KindsOfJobs DEF IsToken, IsPrefs, IsTokenJob, IsPrefsJob

-----------------------------------------------------------------------------
(* The steps.                                                              *)

\* A step of r leaves the other requests alone.
LEMMA OthersStay ==
    ASSUME TypeOK, NEW r \in Requests, NEW l, NEW j, NEW s, NEW d, Move(r, l, j, s, d)
    PROVE  /\ pc'[r] = l /\ job'[r] = j /\ seen'[r] = s /\ draft'[r] = d
           /\ \A q \in Requests \ {r} : /\ pc'[q] = pc[q] /\ job'[q] = job[q]
                                         /\ seen'[q] = seen[q] /\ draft'[q] = draft[q]
BY DEF Move, TypeOK, WorkTypes, JobTypes

\* The rows a session holds are those of the table its request is about.
RowsOf(j) == IF IsPrefsJob(j) THEN [Kinds -> BOOLEAN] ELSE TokenRows

LEMMA MoveKeepsTypes ==
    ASSUME TypeOK, NEW r \in Requests, NEW l, NEW j, NEW s, NEW d, Move(r, l, j, s, d),
           l \in {"idle"} \cup InFlight \cup Answers,
           j \in TokenJobs \cup PrefsJobs \cup {Nothing}, j # Nothing <=> l \in InFlight,
           s \in RowsOf(j) \cup {Nothing}, d \in RowsOf(j) \cup {Nothing},
           tokens' \in [Tokens -> TokenRows \cup {Nothing}],
           row' \in [Kinds -> BOOLEAN] \cup {Nothing}
    PROVE  TypeOK'
<1> DEFINE All == TokenRows \cup [Kinds -> BOOLEAN] \cup {Nothing}
<1>1. s \in All /\ d \in All
    BY DEF RowsOf
<1>2. /\ pc' \in [Requests -> {"idle"} \cup InFlight \cup Answers]
      /\ job' \in [Requests -> TokenJobs \cup PrefsJobs \cup {Nothing}]
      /\ seen' \in [Requests -> All]
      /\ draft' \in [Requests -> All]
    <2>1. seen \in [Requests -> All] /\ draft \in [Requests -> All]
        BY DEF TypeOK, WorkTypes
    <2> HIDE DEF All
    <2> QED BY <1>1, <2>1 DEF Move, TypeOK, WorkTypes, JobTypes
<1>3. \A q \in Requests : pc'[q] \in InFlight <=> job'[q] # Nothing
    BY OthersStay DEF TypeOK, WorkTypes, JobTypes
<1>4. ASSUME NEW q \in Requests
      PROVE  {seen'[q], draft'[q]} \ {Nothing}
                 \subseteq IF IsPrefs(q)' THEN [Kinds -> BOOLEAN] ELSE TokenRows
    <2>1. CASE q = r
        BY <2>1, OthersStay DEF IsPrefs, IsPrefsJob, RowsOf
    <2>2. CASE q # r
        <3>1. job'[q] = job[q] /\ seen'[q] = seen[q] /\ draft'[q] = draft[q]
            BY <2>2, OthersStay
        <3>2. {seen[q], draft[q]} \ {Nothing}
                  \subseteq IF IsPrefs(q) THEN [Kinds -> BOOLEAN] ELSE TokenRows
            BY DEF TypeOK
        <3> QED BY <3>1, <3>2 DEF IsPrefs
    <2> QED BY <2>1, <2>2
<1> QED BY <1>2, <1>3, <1>4 DEF TypeOK, WorkTypes, JobTypes

\* A step that commits nothing keeps the invariant, if what its request holds then is
\* typed and remembered right, and it comes to hold a row only when nobody else does.
LEMMA QuietStep ==
    ASSUME Inv, NEW r \in Requests, NEW l, NEW j, NEW s, NEW d, Move(r, l, j, s, d),
           UNCHANGED <<tokens, row>>,
           l \in {"idle"} \cup InFlight \cup Answers,
           j \in TokenJobs \cup PrefsJobs \cup {Nothing}, j # Nothing <=> l \in InFlight,
           s \in RowsOf(j) \cup {Nothing}, d \in RowsOf(j) \cup {Nothing},
           TokenFacts(l, j, s, d), PrefsFacts(l, j, s, d),
           \A q \in Requests \ {r} :
              /\ \A t \in Tokens : HoldToken(l, j, s, t) =>
                                      ~HoldToken(pc[q], job[q], seen[q], t)
              /\ HoldPrefs(l, j, s) => ~HoldPrefs(pc[q], job[q], seen[q])
    PROVE  Inv'
<1>1. /\ pc'[r] = l /\ job'[r] = j /\ seen'[r] = s /\ draft'[r] = d
      /\ \A q \in Requests \ {r} : /\ pc'[q] = pc[q] /\ job'[q] = job[q]
                                    /\ seen'[q] = seen[q] /\ draft'[q] = draft[q]
    BY OthersStay DEF Inv
<1>2. TypeOK'
    BY MoveKeepsTypes DEF Inv, TypeOK
<1>3. ASSUME NEW q \in Requests
      PROVE  /\ TokenFacts(pc[q], job[q], seen[q], draft[q])'
             /\ PrefsFacts(pc[q], job[q], seen[q], draft[q])'
    <2>1. CASE q = r
        BY <1>1, <2>1 DEF TokenFacts, PrefsFacts
    <2>2. CASE q # r
        BY <1>1, <2>2 DEF Inv, Remembered, TokenFacts, PrefsFacts
    <2> QED BY <2>1, <2>2
<1>4. Exclusive'
    BY <1>1 DEF Inv, Exclusive
<1> QED BY <1>2, <1>3, <1>4 DEF Inv, Remembered

\* A step that ends a request without a commit.
LEMMA AnswerStep ==
    ASSUME Inv, NEW r \in Requests, NEW a \in Answers, Reply(r, a),
           UNCHANGED <<tokens, row>>
    PROVE  Inv'
<1>1. Move(r, a, Nothing, Nothing, Nothing)
    BY DEF Reply
<1>2. a \notin InFlight /\ a # "written"
    BY DEF InFlight, Answers
<1>3. TokenFacts(a, Nothing, Nothing, Nothing) /\ PrefsFacts(a, Nothing, Nothing, Nothing)
    BY DEF TokenFacts, PrefsFacts, IsTokenJob, IsPrefsJob
<1> QED BY <1>1, <1>2, <1>3, QuietStep DEF HoldToken, HoldPrefs

\* A request goes on with its job.
LEMMA GoOn ==
    ASSUME Inv, NEW r \in Requests, NEW l \in InFlight, NEW s, NEW d,
           Move(r, l, job[r], s, d), pc[r] \in InFlight, UNCHANGED <<tokens, row>>,
           s \in RowsOf(job[r]) \cup {Nothing}, d \in RowsOf(job[r]) \cup {Nothing},
           TokenFacts(l, job[r], s, d), PrefsFacts(l, job[r], s, d),
           \A q \in Requests \ {r} :
              /\ \A t \in Tokens : HoldToken(l, job[r], s, t) =>
                                      ~HoldToken(pc[q], job[q], seen[q], t)
              /\ HoldPrefs(l, job[r], s) => ~HoldPrefs(pc[q], job[q], seen[q])
    PROVE  Inv'
<1>1. job[r] \in TokenJobs \cup PrefsJobs /\ job[r] # Nothing
    BY RunningHasJob DEF Inv
<1> QED BY <1>1, QuietStep

-----------------------------------------------------------------------------
(* Requests arrive.                                                        *)

LEMMA AskInv ==
    ASSUME Inv, NEW r \in Requests, Ask(r)
    PROVE  Inv' /\ UNCHANGED <<tokens, row>> /\ pc'[r] = "admitted"
           /\ \A q \in Requests \ {r} : pc'[q] = pc[q]
<1>1. UNCHANGED <<tokens, row>>
    BY DEF Ask
<1>2. ASSUME NEW j \in TokenJobs \cup PrefsJobs, Arrive(r, j)
      PROVE  Inv' /\ pc'[r] = "admitted" /\ \A q \in Requests \ {r} : pc'[q] = pc[q]
    <2>1. Move(r, "admitted", j, Nothing, Nothing)
        BY <1>2 DEF Arrive
    <2>2. /\ j # Nothing /\ "admitted" \in InFlight
          /\ TokenFacts("admitted", j, Nothing, Nothing)
          /\ PrefsFacts("admitted", j, Nothing, Nothing)
        BY JobFacts DEF TokenFacts, PrefsFacts, InFlight
    <2> QED BY <1>1, <2>1, <2>2, QuietStep, OthersStay DEF HoldToken, HoldPrefs, Inv
<1>3. ASSUME NEW u \in Users, NEW t \in Tokens, Register(r, u, t) \/ Unregister(r, u, t)
      PROVE  \E j \in TokenJobs : Arrive(r, j)
    <2>1. /\ [op |-> "register", user |-> u, token |-> t] \in TokenJobs
          /\ [op |-> "unregister", user |-> u, token |-> t] \in TokenJobs
        BY DEF TokenJobs
    <2> QED BY <1>3, <2>1 DEF Register, Unregister
<1>4. ASSUME NEW patch \in [Kinds -> BOOLEAN \cup {Unset}]
      PROVE  [op |-> "prefs", patch |-> patch] \in PrefsJobs
    BY DEF PrefsJobs
<1>5. ASSUME GetPrefs(r)
      PROVE  \E j \in PrefsJobs : Arrive(r, j)
    BY <1>4, <1>5 DEF GetPrefs
<1>6. ASSUME NEW patch \in [Kinds -> BOOLEAN \cup {Unset}], PatchPrefs(r, patch)
      PROVE  \E j \in PrefsJobs : Arrive(r, j)
    BY <1>4, <1>6 DEF PatchPrefs
<1> QED BY <1>1, <1>2, <1>3, <1>5, <1>6 DEF Ask

-----------------------------------------------------------------------------
(* Requests about tokens.                                                  *)

\* Nobody else holds a token that is free for r; likewise the settings.
LEMMA TokenIsFreeOfOthers ==
    ASSUME Inv, NEW r \in Requests, IsToken(r), TokenIsFree(r)
    PROVE  \A q \in Requests \ {r}, t \in Tokens : \A s :
              HoldToken("written", job[r], s, t) => ~HoldToken(pc[q], job[q], seen[q], t)
BY JobIsTyped DEF TokenIsFree, HoldsToken, HoldToken, Inv

LEMMA TokenStepInv ==
    ASSUME Inv, NEW r \in Requests, TokenStep(r)
    PROVE  Inv' /\ UNCHANGED <<tokens, row>>
<1> DEFINE j == job[r]
           t == j.token
<1>1. IsToken(r) /\ UNCHANGED <<tokens, row>>
    BY DEF TokenStep
<1> SUFFICES Inv'
    BY <1>1
<1>2. /\ j \in TokenJobs /\ t \in Tokens /\ IsTokenJob(j) /\ ~IsPrefsJob(j)
      /\ RowsOf(j) = TokenRows /\ j.user \in Users
    BY <1>1, JobIsTyped, JobFacts DEF Inv, RowsOf
<1>3. /\ TokenRow(r) \in TokenRows \cup {Nothing}
      /\ seen[r] \in TokenRows \cup {Nothing}
    <2>1. ~IsPrefs(r)
        BY <1>1, JobIsTyped DEF Inv
    <2>2. {seen[r], draft[r]} \ {Nothing} \subseteq TokenRows
        BY <2>1 DEF Inv, TypeOK
    <2>3. tokens \in [Tokens -> TokenRows \cup {Nothing}]
        BY DEF Inv, TypeOK
    <2> QED BY <1>2, <2>2, <2>3 DEF TokenRow
<1>4. \A l, s, d : PrefsFacts(l, j, s, d) /\ ~HoldPrefs(l, j, s)
    BY <1>2 DEF PrefsFacts, HoldPrefs
<1>5. \A l \in {"admitted", "checked", "read", "written"} : l \in InFlight
    BY DEF InFlight
<1> HIDE DEF j, t
<1>6. ASSUME NEW s \in TokenRows \cup {Nothing}, Loaded(r, s),
             j.op = "unregister" /\ s # Nothing => s.user = j.user
      PROVE  Inv'
    <2>1. Move(r, "read", job[r], s, Nothing) /\ pc[r] \in InFlight
        BY <1>5, <1>6 DEF Loaded
    <2>2. TokenFacts("read", j, s, Nothing)
        BY <1>6 DEF TokenFacts
    <2>3. \A u \in Tokens : ~HoldToken("read", j, s, u)
        BY DEF HoldToken
    <2> QED BY <1>1, <1>2, <1>4, <1>5, <2>1, <2>2, <2>3, GoOn DEF j
<1>7. ASSUME NEW s \in TokenRows \cup {Nothing}, NEW d \in TokenRows \cup {Nothing},
             Flushed(r, s, d), TokenFacts("written", j, s, d),
             TokenIsFree(r) \/ (j.op = "unregister" /\ s = Nothing)
      PROVE  Inv'
    <2>1. Move(r, "written", job[r], s, d) /\ pc[r] \in InFlight
        BY <1>5, <1>7 DEF Flushed
    <2>2. ASSUME NEW q \in Requests \ {r}, NEW u \in Tokens, HoldToken("written", j, s, u)
          PROVE  ~HoldToken(pc[q], job[q], seen[q], u)
        BY <1>1, <1>7, <2>2, TokenIsFreeOfOthers DEF HoldToken, j
    <2>3. /\ "written" \in InFlight /\ PrefsFacts("written", j, s, d)
          /\ ~HoldPrefs("written", j, s)
          /\ s \in RowsOf(j) \cup {Nothing} /\ d \in RowsOf(j) \cup {Nothing}
        BY <1>2, <1>4, <1>5
    <2>4. TokenFacts("written", j, s, d)
        BY <1>7
    <2> QED BY <1>1, <2>1, <2>2, <2>3, <2>4, GoOn DEF j
<1>8. ASSUME Reply(r, "error") PROVE Inv'
    BY <1>1, <1>8, AnswerStep DEF Answers
<1>9. CASE RegisterRead(r)
    BY <1>3, <1>6, <1>9 DEF RegisterRead, j
<1>10. CASE RegisterInsert(r)
    <2>1. j.op = "register" /\ TokenIsFree(r)
        BY <1>10 DEF RegisterInsert, j
    <2>2. ASSUME NEW i \in Ids, Flushed(r, Nothing, [id |-> i, user |-> j.user])
          PROVE  Inv'
        <3> DEFINE d == [id |-> i, user |-> j.user]
        <3>1. d \in TokenRows /\ d # Nothing /\ d.user = j.user
            BY <1>2, JobFacts, RowFacts DEF TokenRows
        <3> HIDE DEF d
        <3>2. TokenFacts("written", j, Nothing, d)
            BY <2>1, <3>1 DEF TokenFacts
        <3>3. Flushed(r, Nothing, d)
            BY <2>2 DEF d
        <3> QED BY <1>7, <2>1, <3>1, <3>2, <3>3
    <2> QED BY <1>8, <1>10, <2>2 DEF RegisterInsert, j
<1>11. CASE RegisterUpdate(r)
    <2>1. j.op = "register" /\ TokenIsFree(r) /\ seen[r] # Nothing /\ seen[r] \in TokenRows
        BY <1>3, <1>11 DEF RegisterUpdate, j
    <2>2. ASSUME StillThere(r), Flushed(r, seen[r], Reassigned(r))
          PROVE  Inv'
        <3> DEFINE d == Reassigned(r)
        <3>1. TokenRow(r) \in TokenRows
            BY <1>3, <2>2 DEF StillThere
        <3>2. /\ d \in TokenRows /\ d # Nothing
              /\ d.user = j.user \/ seen[r].user = j.user
            BY <1>2, <3>1, JobFacts, RowFacts DEF Reassigned, TokenRows, j
        <3> HIDE DEF d
        <3>3. TokenFacts("written", j, seen[r], d)
            BY <2>1, <3>2 DEF TokenFacts
        <3>4. Flushed(r, seen[r], d)
            BY <2>2 DEF d
        <3> QED BY <1>7, <2>1, <3>2, <3>3, <3>4
    <2> QED BY <1>8, <1>11, <2>2 DEF RegisterUpdate
<1>12. CASE UnregisterRead(r)
    <2>1. /\ OwnRow(r) \in TokenRows \cup {Nothing}
          /\ OwnRow(r) # Nothing => OwnRow(r).user = j.user
        BY <1>3 DEF OwnRow, j
    <2> QED BY <1>6, <1>12, <2>1 DEF UnregisterRead
<1>13. CASE UnregisterDelete(r)
    <2> DEFINE s == IF seen[r] # Nothing /\ StillThere(r) THEN seen[r] ELSE Nothing
    <2>1. /\ j.op = "unregister" /\ pc[r] = "read" /\ Flushed(r, s, Nothing)
          /\ s # Nothing => TokenIsFree(r)
        BY <1>13 DEF UnregisterDelete, j
    <2>2. s # Nothing => /\ s = seen[r]
                         /\ tokens[t] # Nothing /\ tokens[t].id = s.id
        BY DEF StillThere, TokenRow, t, j
    <2>3. seen[r] # Nothing => seen[r].user = j.user
        BY <1>2, <2>1 DEF Inv, Remembered, TokenFacts, j
    <2>4. s \in TokenRows \cup {Nothing}
        BY <1>3
    <2> HIDE DEF s
    <2>5. TokenFacts("written", j, s, Nothing)
        BY <2>1, <2>2, <2>3 DEF TokenFacts, t
    <2> QED BY <1>7, <2>1, <2>4, <2>5
<1> QED BY <1>1, <1>9, <1>10, <1>11, <1>12, <1>13 DEF TokenStep
-----------------------------------------------------------------------------
(* Requests about the settings.                                            *)

\* The row base with the kinds ks set as job j asks.
DraftOf(base, j, ks) == [k \in Kinds |-> IF k \in ks THEN j.patch[k] ELSE base[k]]

\* What the instance calls by its own names.
LEMMA PrefsNames ==
    ASSUME NEW r \in Requests, IsPrefs(r)
    PROVE  /\ Prefs!Asked(r) = AskedKinds(job[r])
           /\ Prefs!Changed(r) \subseteq AskedKinds(job[r])
           /\ Prefs!Writes(r) <=> seen[r] = Nothing \/ AskedKinds(job[r]) # {}
           /\ \A base, ks : Prefs!Patched(base, job[r].patch, ks) = DraftOf(base, job[r], ks)
           /\ \A s : Prefs!Loaded(r, s) <=> Loaded(r, s)
           /\ \A s, d : Prefs!Flushed(r, s, d) <=> Flushed(r, s, d)
           /\ \A a : Prefs!Reply(r, a) <=> Reply(r, a)
<1>1. Prefs!Asked(r) = AskedKinds(job[r])
    BY DEF Prefs!Asked, AskedKinds
<1>2. Prefs!Changed(r) \subseteq AskedKinds(job[r])
    BY <1>1 DEF Prefs!Changed
<1>3. Prefs!Writes(r) <=> seen[r] = Nothing \/ AskedKinds(job[r]) # {}
    BY <1>1, <1>2 DEF Prefs!Writes
<1>4. \A base, ks : Prefs!Patched(base, job[r].patch, ks) = DraftOf(base, job[r], ks)
    BY DEF Prefs!Patched, DraftOf
<1>5. \A s : Prefs!Loaded(r, s) <=> Loaded(r, s)
    BY DEF Prefs!Loaded, Loaded, Prefs!Move, Move
<1>6. \A s, d : Prefs!Flushed(r, s, d) <=> Flushed(r, s, d)
    BY DEF Prefs!Flushed, Flushed, Prefs!Move, Move
<1>7. \A a : Prefs!Reply(r, a) <=> Reply(r, a)
    BY DEF Prefs!Reply, Reply, Prefs!Move, Move, Prefs!InFlight, InFlight
<1> QED BY <1>1, <1>2, <1>3, <1>4, <1>5, <1>6, <1>7

LEMMA PrefsAreFreeOfOthers ==
    ASSUME Inv, NEW r \in Requests, IsPrefs(r), Prefs!RowIsFree(r)
    PROVE  \A q \in Requests \ {r} : ~HoldPrefs(pc[q], job[q], seen[q])
<1> SUFFICES ASSUME NEW q \in Requests \ {r}, HoldPrefs(pc[q], job[q], seen[q])
             PROVE  FALSE
    OBVIOUS
<1>1. IsPrefs(q) /\ pc[q] = "written" /\ (seen[q] = Nothing \/ AskedKinds(job[q]) # {})
    BY JobIsTyped DEF HoldPrefs, Inv
<1>2. Prefs!Writes(q)
    BY <1>1, PrefsNames
<1>3. "patch" \in DOMAIN job[q]
    BY <1>1, JobIsTyped, JobFacts DEF Inv
<1> QED BY <1>1, <1>2, <1>3 DEF Prefs!RowIsFree, Prefs!HoldsRow

LEMMA DraftIsTyped ==
    ASSUME NEW j \in PrefsJobs, NEW base \in [Kinds -> BOOLEAN],
           NEW ks, ks \subseteq AskedKinds(j)
    PROVE  /\ DraftOf(base, j, ks) \in [Kinds -> BOOLEAN]
           /\ DraftOf(base, j, ks) # Nothing
           /\ \A k \in Kinds : \/ k \in AskedKinds(j) /\ DraftOf(base, j, ks)[k] = j.patch[k]
                               \/ DraftOf(base, j, ks)[k] = base[k]
<1>1. \A k \in ks : j.patch[k] \in BOOLEAN
    BY JobFacts, NotificationConstants DEF AskedKinds
<1>2. DraftOf(base, j, ks) \in [Kinds -> BOOLEAN]
    BY <1>1, Zenon DEF DraftOf
<1>3. \A k \in Kinds : \/ k \in AskedKinds(j) /\ DraftOf(base, j, ks)[k] = j.patch[k]
                       \/ DraftOf(base, j, ks)[k] = base[k]
    BY Zenon DEF DraftOf
<1> QED BY <1>2, <1>3, RowFacts
\* What a request about the settings works with.
LEMMA PrefsData ==
    ASSUME TypeOK, NEW r \in Requests, IsPrefs(r)
    PROVE  /\ job[r] \in PrefsJobs /\ IsPrefsJob(job[r]) /\ ~IsTokenJob(job[r])
           /\ RowsOf(job[r]) = [Kinds -> BOOLEAN]
           /\ {seen[r], draft[r], row} \subseteq [Kinds -> BOOLEAN] \cup {Nothing}
<1>1. job[r] \in PrefsJobs /\ IsPrefsJob(job[r]) /\ ~IsToken(r) /\ ~IsTokenJob(job[r])
    BY JobIsTyped
<1>2. {seen[r], draft[r]} \ {Nothing} \subseteq [Kinds -> BOOLEAN]
    BY DEF TypeOK
<1>3. row \in [Kinds -> BOOLEAN] \cup {Nothing}
    BY DEF TypeOK
<1> QED BY <1>1, <1>2, <1>3 DEF RowsOf

\* The defaults are settings.
LEMMA DefaultIsTyped == DefaultPrefs \in [Kinds -> BOOLEAN]
BY Zenon DEF DefaultPrefs

LEMMA PrefsStepInv ==
    ASSUME Inv, NEW r \in Requests, PrefsStep(r)
    PROVE  Inv' /\ UNCHANGED <<tokens, row>>
<1> DEFINE j == job[r]
<1>1. IsPrefs(r) /\ Prefs!RowStep(r) /\ UNCHANGED tokens
    BY DEF PrefsStep
<1>2. UNCHANGED <<tokens, row>>
    BY <1>1 DEF Prefs!RowStep, Prefs!Load, Prefs!Insert, Prefs!InsertCollides,
                Prefs!Update, Prefs!WriteNothing
<1> SUFFICES Inv'
    BY <1>2
<1>3. /\ j \in PrefsJobs /\ IsPrefsJob(j) /\ ~IsTokenJob(j)
      /\ RowsOf(j) = [Kinds -> BOOLEAN]
      /\ {seen[r], draft[r], row} \subseteq [Kinds -> BOOLEAN] \cup {Nothing}
    BY <1>1, PrefsData DEF Inv
<1>4. \A l, s, d : TokenFacts(l, j, s, d) /\ \A t \in Tokens : ~HoldToken(l, j, s, t)
    BY <1>3 DEF TokenFacts, HoldToken
<1>5. pc[r] = "read" /\ seen[r] # Nothing => row # Nothing
    BY <1>3 DEF Inv, Remembered, PrefsFacts
<1>6. "read" \in InFlight /\ "written" \in InFlight
    BY DEF InFlight
<1> HIDE DEF j
<1>7. ASSUME NEW s \in [Kinds -> BOOLEAN] \cup {Nothing},
             NEW d \in [Kinds -> BOOLEAN] \cup {Nothing},
             Flushed(r, s, d), PrefsFacts("written", j, s, d),
             Prefs!RowIsFree(r) \/ ~HoldPrefs("written", j, s)
      PROVE  Inv'
    <2>1. Move(r, "written", job[r], s, d) /\ pc[r] \in InFlight
        BY <1>6, <1>7 DEF Flushed
    <2>2. \A q \in Requests \ {r} : HoldPrefs("written", j, s)
                                       => ~HoldPrefs(pc[q], job[q], seen[q])
        BY <1>1, <1>7, PrefsAreFreeOfOthers
    <2>3. s \in RowsOf(j) \cup {Nothing} /\ d \in RowsOf(j) \cup {Nothing}
        BY <1>3
    <2>4. PrefsFacts("written", j, s, d)
        BY <1>7
    <2> QED BY <1>2, <1>4, <1>6, <2>1, <2>2, <2>3, <2>4, GoOn DEF j
<1>8. CASE Prefs!Load(r)
    <2>1. Loaded(r, row)
        BY <1>1, <1>8, PrefsNames DEF Prefs!Load
    <2>2. Move(r, "read", job[r], row, Nothing) /\ pc[r] \in InFlight
        BY <2>1 DEF Loaded, InFlight
    <2>3. PrefsFacts("read", j, row, Nothing) /\ ~HoldPrefs("read", j, row)
        BY DEF PrefsFacts, HoldPrefs
    <2>4. row \in RowsOf(j) \cup {Nothing} /\ Nothing \in RowsOf(j) \cup {Nothing}
        BY <1>3
    <2> QED BY <1>2, <1>4, <1>6, <2>2, <2>3, <2>4, GoOn DEF j
<1>9. CASE Prefs!Insert(r)
    <2> DEFINE d == DraftOf(DefaultPrefs, job[r], AskedKinds(job[r]))
    <2>1. /\ Prefs!RowIsFree(r) /\ seen[r] = Nothing /\ row = Nothing
          /\ Flushed(r, seen[r], d)
        BY <1>1, <1>9, PrefsNames DEF Prefs!Insert
    <2>2. /\ d \in [Kinds -> BOOLEAN] /\ d # Nothing
          /\ \A k \in Kinds : \/ k \in AskedKinds(job[r]) /\ d[k] = job[r].patch[k]
                              \/ d[k] = DefaultPrefs[k]
        BY <1>3, DraftIsTyped, DefaultIsTyped DEF j
    <2> HIDE DEF d
    <2>3. PrefsFacts("written", j, seen[r], d)
        BY <2>1, <2>2 DEF PrefsFacts, j
    <2> QED BY <1>3, <1>7, <2>1, <2>2, <2>3
<1>10. CASE Prefs!InsertCollides(r)
    <2>1. Reply(r, "error")
        BY <1>1, <1>10, PrefsNames DEF Prefs!InsertCollides
    <2> QED BY <1>2, <2>1, AnswerStep DEF Answers
<1>11. CASE Prefs!Update(r)
    <2> DEFINE d == DraftOf(row, job[r], Prefs!Changed(r))
    <2>1. /\ Prefs!RowIsFree(r) /\ seen[r] # Nothing /\ pc[r] = "read"
          /\ Flushed(r, seen[r], d)
        BY <1>1, <1>11, PrefsNames DEF Prefs!Update
    <2>2. row \in [Kinds -> BOOLEAN] /\ Prefs!Changed(r) \subseteq AskedKinds(job[r])
        BY <1>1, <1>3, <1>5, <2>1, PrefsNames
    <2>3. /\ d \in [Kinds -> BOOLEAN] /\ d # Nothing
          /\ \A k \in Kinds : \/ k \in AskedKinds(job[r]) /\ d[k] = job[r].patch[k]
                              \/ d[k] = row[k]
        BY <1>3, <2>2, DraftIsTyped DEF j
    <2> HIDE DEF d
    <2>4. PrefsFacts("written", j, seen[r], d)
        BY <1>5, <2>1, <2>3 DEF PrefsFacts, j
    <2> QED BY <1>3, <1>7, <2>1, <2>3, <2>4
<1>12. CASE Prefs!WriteNothing(r)
    <2>1. /\ pc[r] = "read" /\ seen[r] # Nothing /\ AskedKinds(job[r]) = {}
          /\ Flushed(r, seen[r], seen[r])
        BY <1>1, <1>12, PrefsNames DEF Prefs!WriteNothing
    <2>2. PrefsFacts("written", j, seen[r], seen[r]) /\ ~HoldPrefs("written", j, seen[r])
        BY <1>5, <2>1 DEF PrefsFacts, HoldPrefs, j
    <2> QED BY <1>3, <1>7, <2>1, <2>2
<1> QED BY <1>1, <1>8, <1>9, <1>10, <1>11, <1>12 DEF Prefs!RowStep
-----------------------------------------------------------------------------
(* Requests are committed and fail.                                        *)

LEMMA TokenCommitInv ==
    ASSUME Inv, NEW r \in Requests, TokenCommit(r)
    PROVE  Inv'
<1> DEFINE t == job[r].token
           d == draft[r]
           held == HoldToken(pc[r], job[r], seen[r], t)
<1>1. /\ IsToken(r) /\ pc[r] = "written" /\ Move(r, "ok", Nothing, Nothing, Nothing)
      /\ UNCHANGED row
    BY DEF TokenCommit, Reply
<1>2. /\ job[r] \in TokenJobs /\ t \in Tokens /\ IsTokenJob(job[r]) /\ ~IsPrefs(r)
    BY <1>1, JobIsTyped, JobFacts DEF Inv
<1>3. d \in TokenRows \cup {Nothing}
    BY <1>2 DEF Inv, TypeOK
<1>4. tokens \in [Tokens -> TokenRows \cup {Nothing}]
    BY DEF Inv, TypeOK
<1>5. tokens' = IF held THEN [tokens EXCEPT ![t] = d] ELSE tokens
    BY <1>1, <1>2 DEF TokenCommit, HoldsToken, HoldToken
<1>6. \A q \in Requests \ {r}, u \in Tokens :
          HoldToken(pc[q], job[q], seen[q], u) => tokens'[u] = tokens[u]
    <2> SUFFICES ASSUME NEW q \in Requests \ {r}, NEW u \in Tokens,
                        HoldToken(pc[q], job[q], seen[q], u), held
                 PROVE  u # t
        BY <1>4, <1>5
    <2> QED BY <1>2 DEF Inv, Exclusive
<1> HIDE DEF t, d, held
<1>7. tokens' \in [Tokens -> TokenRows \cup {Nothing}]
    BY <1>2, <1>3, <1>4, <1>5
<1>8. /\ pc'[r] = "ok" /\ job'[r] = Nothing
      /\ \A q \in Requests \ {r} : /\ pc'[q] = pc[q] /\ job'[q] = job[q]
                                    /\ seen'[q] = seen[q] /\ draft'[q] = draft[q]
    BY <1>1, OthersStay DEF Inv
<1>9. TypeOK'
    <2>1. "ok" \in Answers /\ "ok" \notin InFlight
        BY DEF Answers, InFlight
    <2>2. row' \in [Kinds -> BOOLEAN] \cup {Nothing}
        BY <1>1 DEF Inv, TypeOK
    <2> QED BY <1>1, <1>7, <2>1, <2>2, MoveKeepsTypes DEF Inv
<1>10. ASSUME NEW q \in Requests
       PROVE  /\ TokenFacts(pc[q], job[q], seen[q], draft[q])'
              /\ PrefsFacts(pc[q], job[q], seen[q], draft[q])'
    <2>1. CASE q = r
        BY <1>8, <2>1 DEF TokenFacts, PrefsFacts, IsTokenJob, IsPrefsJob
    <2>2. CASE q # r
        <3>1. PrefsFacts(pc[q], job[q], seen[q], draft[q])'
            BY <1>1, <1>8, <2>2 DEF Inv, Remembered, PrefsFacts
        <3>2. IsTokenJob(job[q]) => job[q].token \in Tokens
            BY JobIsTyped, JobFacts DEF Inv
        <3>3. TokenFacts(pc[q], job[q], seen[q], draft[q])'
            BY <1>6, <1>8, <2>2, <3>2 DEF Inv, Remembered, TokenFacts, HoldToken
        <3> QED BY <3>1, <3>3
    <2> QED BY <2>1, <2>2
<1>11. Exclusive'
    <2>1. \A s, u : ~HoldToken("ok", Nothing, s, u) /\ ~HoldPrefs("ok", Nothing, s)
        BY DEF HoldToken, HoldPrefs
    <2> QED BY <1>8, <2>1 DEF Inv, Exclusive
<1> QED BY <1>9, <1>10, <1>11 DEF Inv, Remembered

\* What the commit of a request about the settings does.
LEMMA PrefsCommitFacts ==
    ASSUME Inv, NEW r \in Requests, PrefsCommit(r)
    PROVE  /\ pc[r] = "written" /\ IsPrefs(r) /\ UNCHANGED tokens
           /\ Move(r, "ok", Nothing, Nothing, Nothing)
           /\ draft[r] \in [Kinds -> BOOLEAN] /\ draft[r] # Nothing
           /\ row' = IF HoldPrefs(pc[r], job[r], seen[r]) THEN draft[r] ELSE row
<1>1. IsPrefs(r) /\ Prefs!RowCommit(r) /\ UNCHANGED tokens
    BY DEF PrefsCommit
<1>2. pc[r] = "written" /\ Reply(r, "ok") /\ row' = IF Prefs!Writes(r) THEN draft[r] ELSE row
    BY <1>1, PrefsNames DEF Prefs!RowCommit
<1>3. IsPrefsJob(job[r]) /\ draft[r] \in [Kinds -> BOOLEAN] \cup {Nothing}
    BY <1>1, PrefsData DEF Inv
<1>4. draft[r] # Nothing
    BY <1>2, <1>3 DEF Inv, Remembered, PrefsFacts
<1>5. Prefs!Writes(r) <=> HoldPrefs(pc[r], job[r], seen[r])
    BY <1>1, <1>2, <1>3, PrefsNames DEF HoldPrefs
<1> QED BY <1>1, <1>2, <1>3, <1>4, <1>5 DEF Reply

LEMMA PrefsCommitInv ==
    ASSUME Inv, NEW r \in Requests, PrefsCommit(r)
    PROVE  Inv'
<1>1. /\ pc[r] = "written" /\ UNCHANGED tokens
      /\ Move(r, "ok", Nothing, Nothing, Nothing)
      /\ draft[r] \in [Kinds -> BOOLEAN] /\ draft[r] # Nothing
      /\ row' = IF HoldPrefs(pc[r], job[r], seen[r]) THEN draft[r] ELSE row
    BY PrefsCommitFacts
<1>2. /\ pc'[r] = "ok" /\ job'[r] = Nothing
      /\ \A q \in Requests \ {r} : /\ pc'[q] = pc[q] /\ job'[q] = job[q]
                                    /\ seen'[q] = seen[q] /\ draft'[q] = draft[q]
    BY <1>1, OthersStay DEF Inv
<1>3. TypeOK'
    <2>1. "ok" \in Answers /\ "ok" \notin InFlight
        BY DEF Answers, InFlight
    <2>2. /\ tokens' \in [Tokens -> TokenRows \cup {Nothing}]
          /\ row' \in [Kinds -> BOOLEAN] \cup {Nothing}
        BY <1>1 DEF Inv, TypeOK
    <2> QED BY <1>1, <2>1, <2>2, MoveKeepsTypes DEF Inv
<1>4. \A q \in Requests \ {r} : HoldPrefs(pc[q], job[q], seen[q]) => row' = row
    BY <1>1 DEF Inv, Exclusive
<1>5. row # Nothing => row' # Nothing
    BY <1>1
<1>6. ASSUME NEW q \in Requests
      PROVE  /\ TokenFacts(pc[q], job[q], seen[q], draft[q])'
             /\ PrefsFacts(pc[q], job[q], seen[q], draft[q])'
    <2>1. CASE q = r
        BY <1>2, <2>1 DEF TokenFacts, PrefsFacts, IsTokenJob, IsPrefsJob
    <2>2. CASE q # r
        <3>1. TokenFacts(pc[q], job[q], seen[q], draft[q])'
            BY <1>1, <1>2, <2>2 DEF Inv, Remembered, TokenFacts
        <3>2. PrefsFacts(pc[q], job[q], seen[q], draft[q])'
            BY <1>2, <1>4, <1>5, <2>2 DEF Inv, Remembered, PrefsFacts, HoldPrefs
        <3> QED BY <3>1, <3>2
    <2> QED BY <2>1, <2>2
<1>7. Exclusive'
    <2>1. \A s, u : ~HoldToken("ok", Nothing, s, u) /\ ~HoldPrefs("ok", Nothing, s)
        BY DEF HoldToken, HoldPrefs
    <2> QED BY <1>2, <2>1 DEF Inv, Exclusive
<1> QED BY <1>3, <1>6, <1>7 DEF Inv, Remembered

LEMMA InitInv == Init => Inv
<1> SUFFICES ASSUME Init PROVE Inv
    OBVIOUS
<1>1. /\ tokens = [t \in Tokens |-> Nothing] /\ row = Nothing
      /\ \A r \in Requests : /\ pc[r] = "idle" /\ job[r] = Nothing
                             /\ seen[r] = Nothing /\ draft[r] = Nothing
    BY DEF Init, IdleWork, Prefs!RowInit
<1>2. TypeOK
    BY <1>1 DEF Init, IdleWork, TypeOK, WorkTypes, JobTypes, InFlight
<1>3. Remembered
    BY <1>1 DEF Remembered, TokenFacts, PrefsFacts, IsTokenJob, IsPrefsJob
<1>4. Exclusive
    BY <1>1 DEF Exclusive, HoldToken, HoldPrefs
<1> QED BY <1>2, <1>3, <1>4 DEF Inv

LEMMA NextInv == Inv /\ [Next]_vars => Inv'
<1> SUFFICES ASSUME Inv, [Next]_vars PROVE Inv'
    OBVIOUS
<1>1. CASE UNCHANGED vars
    BY <1>1 DEF vars, work, Inv, TypeOK, WorkTypes, JobTypes, Remembered, Exclusive,
                TokenFacts, PrefsFacts, HoldToken, HoldPrefs, IsPrefs
<1>2. ASSUME NEW r \in Requests, Ask(r) \/ Step(r) \/ Commit(r) \/ Fail(r)
      PROVE  Inv'
    <2>1. Fail(r) => Inv'
        BY AnswerStep DEF Fail, Answers
    <2> QED BY <1>2, <2>1, AskInv, TokenStepInv, PrefsStepInv, TokenCommitInv, PrefsCommitInv
            DEF Step, Commit
<1> QED BY <1>1, <1>2 DEF Next
\* Only Commit changes what is committed, and only it answers ok.
LEMMA OnlyCommits ==
    ASSUME Inv, NEW r \in Requests, Ask(r) \/ Step(r) \/ Fail(r)
    PROVE  UNCHANGED <<tokens, row>> /\ \A q \in Requests : ~Commits(q)
<1>1. UNCHANGED <<tokens, row>>
    BY AskInv, TokenStepInv, PrefsStepInv DEF Step, Fail
<1>2. \E l \in {"admitted", "read", "written", "error"} : pc' = [pc EXCEPT ![r] = l]
    <2>1. CASE Ask(r)
        BY <2>1 DEF Ask, Register, Unregister, GetPrefs, PatchPrefs, Arrive, Move
    <2>2. CASE TokenStep(r)
        BY <2>2 DEF TokenStep, RegisterRead, RegisterInsert, RegisterUpdate,
                    UnregisterRead, UnregisterDelete, Loaded, Flushed, Reply, Move
    <2>3. CASE PrefsStep(r)
        <3>1. \/ \E s : Loaded(r, s)
              \/ \E s, d : Flushed(r, s, d)
              \/ Reply(r, "error")
            BY <2>3, PrefsNames DEF PrefsStep, Prefs!RowStep, Prefs!Load, Prefs!Insert,
                                    Prefs!InsertCollides, Prefs!Update, Prefs!WriteNothing
        <3> QED BY <3>1 DEF Loaded, Flushed, Reply, Move
    <2>4. CASE Fail(r)
        BY <2>4 DEF Fail, Reply, Move
    <2> QED BY <2>1, <2>2, <2>3, <2>4 DEF Step
<1>3. pc \in [Requests -> {"idle"} \cup InFlight \cup Answers]
    BY DEF Inv, TypeOK, WorkTypes, JobTypes
<1>4. \A q \in Requests : ~Commits(q)
    BY <1>2, <1>3 DEF Commits
<1> QED BY <1>1, <1>4

\* A step that changes what is committed, or answers ok, is the commit of one request.
LEMMA CommitOfOne ==
    ASSUME Inv, [Next]_vars
    PROVE  \/ UNCHANGED <<tokens, row>> /\ \A q \in Requests : ~Commits(q)
           \/ \E r \in Requests : /\ Commit(r) /\ Commits(r)
                                  /\ \A q \in Requests \ {r} : ~Commits(q)
<1>1. CASE UNCHANGED vars
    BY <1>1 DEF vars, work, Commits
<1>2. ASSUME NEW r \in Requests, Commit(r)
      PROVE  Commits(r) /\ \A q \in Requests \ {r} : ~Commits(q)
    <2>1. pc[r] = "written" /\ Move(r, "ok", Nothing, Nothing, Nothing)
        BY <1>2, PrefsCommitFacts DEF Commit, TokenCommit, Reply
    <2> QED BY <2>1, OthersStay DEF Inv, Commits
<1> QED BY <1>1, <1>2, OnlyCommits DEF Next

-----------------------------------------------------------------------------
(* Theorems.                                                               *)

\* The invariant.
THEOREM Invariance == Spec => []Inv
BY InitInv, NextInv, PTL DEF Spec

\* Every row, job and remembered row has its type.
THEOREM TypeCorrectness == Spec => []TypeOK
<1>1. Inv => TypeOK
    BY DEF Inv
<1> QED BY <1>1, Invariance, PTL

\* The commit of a registration stores a row of its account.
LEMMA RegisteredStep ==
    ASSUME Inv, [Next]_vars, NEW r \in Requests, NEW u \in Users, NEW t \in Tokens,
           Commits(r), job[r] = [op |-> "register", user |-> u, token |-> t]
    PROVE  t \in Pushed(u)' \/ (seen[r] # Nothing /\ seen[r].user = u)
<1>1. Commit(r)
    BY CommitOfOne
<1>2. /\ job[r].op = "register" /\ job[r].user = u /\ job[r].token = t
      /\ job[r] # Nothing /\ IsTokenJob(job[r]) /\ IsToken(r) /\ ~IsPrefs(r)
    <2>1. job[r].op = "register" /\ job[r].user = u /\ job[r].token = t
        OBVIOUS
    <2>2. job[r] # Nothing
        BY RunningHasJob DEF Inv, Commits, InFlight
    <2> QED BY <2>1, <2>2 DEF IsTokenJob, IsToken, IsPrefs
<1>3. TokenCommit(r) /\ pc[r] = "written"
    BY <1>1, <1>2 DEF Commit, PrefsCommit, Commits
<1>4. HoldsToken(r, t)
    BY <1>2, <1>3 DEF HoldsToken
<1>5. tokens' = [tokens EXCEPT ![t] = draft[r]] /\ t \in DOMAIN tokens
    BY <1>2, <1>3, <1>4 DEF TokenCommit, Inv, TypeOK
<1>6. draft[r] # Nothing /\ (draft[r].user = u \/ (seen[r] # Nothing /\ seen[r].user = u))
    BY <1>2, <1>3 DEF Inv, Remembered, TokenFacts
<1> QED BY <1>5, <1>6 DEF Pushed

\* An account that is told its token is registered gets the pushes of this device,
\* unless it owned the token before and lost it meanwhile (register_device_token).
THEOREM RegistrationsArePushed == Spec => RegisteredIsPushed
<1>1. Inv /\ [Next]_vars =>
          \A r \in Requests, u \in Users, t \in Tokens :
             Commits(r) /\ job[r] = [op |-> "register", user |-> u, token |-> t]
                => t \in Pushed(u)' \/ (seen[r] # Nothing /\ seen[r].user = u)
    BY RegisteredStep
<1> QED BY <1>1, Invariance, PTL DEF Spec, RegisteredIsPushed

\* The commit that empties a token is that of a sign-off.
LEMMA SignOffStep ==
    ASSUME Inv, [Next]_vars, NEW t \in Tokens, tokens[t] # Nothing, tokens'[t] = Nothing
    PROVE  \E r \in Requests : /\ Commits(r) /\ job[r].op = "unregister"
                               /\ seen[r] # Nothing
                               /\ seen[r].id = tokens[t].id
                               /\ seen[r].user = job[r].user
<1>1. PICK r \in Requests : Commit(r) /\ Commits(r)
    BY CommitOfOne
<1>2. TokenCommit(r)
    BY <1>1 DEF Commit, PrefsCommit
<1>3. /\ job[r].token = t /\ HoldsToken(r, t) /\ draft[r] = Nothing
    BY <1>2 DEF TokenCommit, Inv, TypeOK
<1>4. IsTokenJob(job[r]) /\ pc[r] = "written"
    BY <1>2, JobIsTyped DEF TokenCommit, Inv
<1>5. job[r].op = "unregister"
    BY <1>3, <1>4 DEF Inv, Remembered, TokenFacts, IsTokenJob
<1>6. seen[r] # Nothing
    BY <1>3, <1>5 DEF HoldsToken
<1>7. seen[r].user = job[r].user /\ tokens[t].id = seen[r].id
    BY <1>3, <1>4, <1>5, <1>6 DEF Inv, Remembered, TokenFacts
<1> QED BY <1>1, <1>5, <1>6, <1>7

\* A token loses its row only by a sign-off of the account whose row it was.
THEOREM SignOffs == Spec => OwnersSignOff
<1>1. Inv /\ [Next]_vars =>
          \A t \in Tokens : tokens[t] # Nothing /\ tokens'[t] = Nothing
             => \E r \in Requests : /\ Commits(r) /\ job[r].op = "unregister"
                                    /\ seen[r] # Nothing
                                    /\ seen[r].id = tokens[t].id
                                    /\ seen[r].user = job[r].user
    BY SignOffStep
<1> QED BY <1>1, Invariance, PTL DEF Spec, OwnersSignOff

\* The commit that changes what a sender is told of a kind was asked to.
LEMMA SettingsStep ==
    ASSUME Inv, [Next]_vars, NEW k \in Kinds, Enabled(k)' # Enabled(k)
    PROVE  \E r \in Requests : /\ Commits(r) /\ job[r].op = "prefs"
                               /\ job[r].patch[k] = Enabled(k)'
<1>1. row' # row
    BY DEF Enabled
<1>2. PICK r \in Requests : Commit(r) /\ Commits(r)
    BY <1>1, CommitOfOne
<1>3. PrefsCommit(r)
    BY <1>1, <1>2 DEF Commit, TokenCommit
<1>4. /\ pc[r] = "written" /\ IsPrefs(r) /\ HoldPrefs(pc[r], job[r], seen[r])
      /\ draft[r] # Nothing /\ row' = draft[r]
    BY <1>1, <1>3, PrefsCommitFacts
<1>5. IsPrefsJob(job[r]) /\ job[r].op = "prefs"
    BY <1>4 DEF HoldPrefs, IsPrefsJob
<1>6. Enabled(k)' = draft[r][k]
    BY <1>4 DEF Enabled
<1>7. \/ k \in AskedKinds(job[r]) /\ draft[r][k] = job[r].patch[k]
      \/ draft[r][k] = Enabled(k)
    <2>1. CASE seen[r] = Nothing
        <3>1. row = Nothing
            BY <1>4, <1>5, <2>1 DEF Inv, Remembered, PrefsFacts
        <3>2. \/ k \in AskedKinds(job[r]) /\ draft[r][k] = job[r].patch[k]
              \/ draft[r][k] = DefaultPrefs[k]
            BY <1>4, <1>5, <2>1 DEF Inv, Remembered, PrefsFacts
        <3>3. DefaultPrefs[k] = (k # "marketing")
            BY DEF DefaultPrefs
        <3>4. (k # "marketing") = (k \in {"new_message", "idol_reply"})
            BY NotificationConstants
        <3>5. Enabled(k) = (k \in {"new_message", "idol_reply"})
            BY <3>1 DEF Enabled
        <3> QED BY <3>2, <3>3, <3>4, <3>5, Zenon
    <2>2. CASE seen[r] # Nothing
        <3>1. row # Nothing
            BY <1>4, <1>5, <2>2 DEF Inv, Remembered, PrefsFacts
        <3>2. AskedKinds(job[r]) # {}
            BY <1>4, <2>2 DEF HoldPrefs
        <3>3. \/ k \in AskedKinds(job[r]) /\ draft[r][k] = job[r].patch[k]
              \/ draft[r][k] = row[k]
            BY <1>4, <1>5, <2>2, <3>2 DEF Inv, Remembered, PrefsFacts
        <3> QED BY <3>1, <3>3 DEF Enabled
    <2> QED BY <2>1, <2>2
<1> QED BY <1>2, <1>5, <1>6, <1>7

\* What a sender is told about a setting changes only when a PATCH of this setting
\* commits: a GET that creates the row, a PATCH of other kinds, two first requests at
\* a time change nothing (get_or_create_prefs, update_prefs, is_notification_enabled).
THEOREM SettingsKept == Spec => SettingsAreHonoured
<1>1. Inv /\ [Next]_vars =>
          \A k \in Kinds : Enabled(k)' # Enabled(k)
             => \E r \in Requests : /\ Commits(r) /\ job[r].op = "prefs"
                                    /\ job[r].patch[k] = Enabled(k)'
    BY SettingsStep
<1> QED BY <1>1, Invariance, PTL DEF Spec, SettingsAreHonoured
-----------------------------------------------------------------------------
(* Nobody is stuck: the part of RequestsAreAnswered that is not about      *)
(* fairness.                                                               *)

\* The row or key that r writes next is written by q and not yet committed.
WaitsFor(r, q) ==
    /\ pc[r] = "read" /\ q # r
    /\ \/ /\ IsToken(r) /\ (job[r].op = "unregister" => seen[r] # Nothing)
          /\ HoldsToken(q, job[r].token)
       \/ IsPrefs(r) /\ Prefs!Writes(r) /\ Prefs!HoldsRow(q)

\* The guards of the SELECTs, of the flushes and of the commits.  A registration that
\* finds no row needs a key.
CanRead(r) == pc[r] \in {"admitted", "checked"} /\ (IsToken(r) \/ IsPrefs(r))

CanWrite(r) ==
    /\ pc[r] = "read" /\ \A q \in Requests : ~WaitsFor(r, q)
    /\ \/ IsPrefs(r)
       \/ /\ IsToken(r)
          /\ job[r].op = "register" /\ seen[r] = Nothing /\ TokenRow(r) = Nothing
                => \E i \in Ids : FreshId(i)

CanCommit(r) == pc[r] = "written" /\ (IsToken(r) \/ IsPrefs(r))

CanGoOn(r) == CanRead(r) \/ CanWrite(r) \/ CanCommit(r)

NobodyIsStuck ==
    \A r \in Requests : pc[r] \in InFlight =>
        CanGoOn(r) \/ \E q \in Requests : WaitsFor(r, q) /\ CanGoOn(q)

\* Keys are never used up by finitely many tokens and requests.
LEMMA KeysRemain ==
    ASSUME IsFiniteSet(Tokens), IsFiniteSet(Requests), ~IsFiniteSet(Ids)
    PROVE  \E i \in Ids : FreshId(i)
<1> DEFINE Rows == {tokens[t].id : t \in Tokens}
           Seen == {seen[q].id : q \in Requests}
           Drawn == {draft[q].id : q \in Requests}
<1>1. ASSUME NEW S, IsFiniteSet(S), NEW f, f = [x \in S |-> f[x]]
      PROVE  IsFiniteSet({f[x] : x \in S})
  <2>1. f \in Surjection(S, {f[x] : x \in S})
      BY <1>1 DEF Surjection
  <2> QED BY <1>1, <2>1, FS_Surjection
<1>2. IsFiniteSet(Rows)
  <2> DEFINE f == [t \in Tokens |-> tokens[t].id]
  <2>0. f = [x \in Tokens |-> f[x]]
      OBVIOUS
  <2>1. IsFiniteSet({f[x] : x \in Tokens})
    <3> HIDE DEF f
    <3> QED BY <1>1, <2>0
  <2>2. Rows = {f[t] : t \in Tokens}
      OBVIOUS
  <2> QED BY <2>1, <2>2
<1>3. IsFiniteSet(Seen)
  <2> DEFINE f == [q \in Requests |-> seen[q].id]
  <2>0. f = [x \in Requests |-> f[x]]
      OBVIOUS
  <2>1. IsFiniteSet({f[x] : x \in Requests})
    <3> HIDE DEF f
    <3> QED BY <1>1, <2>0
  <2>2. Seen = {f[q] : q \in Requests}
      OBVIOUS
  <2> QED BY <2>1, <2>2
<1>4. IsFiniteSet(Drawn)
  <2> DEFINE f == [q \in Requests |-> draft[q].id]
  <2>0. f = [x \in Requests |-> f[x]]
      OBVIOUS
  <2>1. IsFiniteSet({f[x] : x \in Requests})
    <3> HIDE DEF f
    <3> QED BY <1>1, <2>0
  <2>2. Drawn = {f[q] : q \in Requests}
      OBVIOUS
  <2> QED BY <2>1, <2>2
<1> HIDE DEF Rows, Seen, Drawn
<1>5. IsFiniteSet((Rows \cup Seen) \cup Drawn)
  <2>1. IsFiniteSet(Rows \cup Seen)
      BY <1>2, <1>3, FS_Union
  <2> QED BY <1>4, <2>1, FS_Union
<1>6. ~(Ids \subseteq (Rows \cup Seen) \cup Drawn)
    BY <1>5, FS_Subset
<1>7. PICK i \in Ids : i \notin Rows /\ i \notin Seen /\ i \notin Drawn
    BY <1>6
<1>8. FreshId(i)
    BY <1>7 DEF FreshId, Rows, Seen, Drawn
<1> QED BY <1>8

\* Of any number of requests about tokens and settings none waits in a circle: it can
\* go on, or waits for one that commits next, since a request writes one row only.
\* gen_random_uuid is taken to find a key whenever one is needed.
THEOREM DeadlockFreedom ==
    ASSUME IsFiniteSet(Tokens), IsFiniteSet(Requests), ~IsFiniteSet(Ids)
    PROVE  Spec => []NobodyIsStuck
<1>1. ASSUME Inv, NEW r \in Requests, pc[r] \in InFlight PROVE IsToken(r) \/ IsPrefs(r)
  <2>1. job[r] \in TokenJobs \cup PrefsJobs
      BY <1>1, RunningHasJob DEF Inv
  <2> QED BY <1>1, <2>1, JobFacts DEF IsToken, IsPrefs
<1>2. ASSUME Inv, NEW r \in Requests, pc[r] \in InFlight, ~CanGoOn(r)
      PROVE  \E q \in Requests : WaitsFor(r, q) /\ CanGoOn(q)
  <2>1. pc[r] = "read"
      BY <1>1, <1>2 DEF CanGoOn, CanRead, CanCommit, InFlight
  <2>2. PICK q \in Requests : WaitsFor(r, q)
      BY <1>1, <1>2, <2>1, KeysRemain DEF CanGoOn, CanWrite
  <2>3. pc[q] = "written"
      BY <2>2 DEF WaitsFor, HoldsToken, Prefs!HoldsRow
  <2> QED BY <1>1, <1>2, <2>2, <2>3 DEF CanGoOn, CanCommit, InFlight
<1>3. Inv => NobodyIsStuck
    BY <1>2 DEF NobodyIsStuck
<1> QED BY <1>3, Invariance, PTL
=============================================================================
