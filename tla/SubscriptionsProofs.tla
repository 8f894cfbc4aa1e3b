------------------------ MODULE SubscriptionsProofs ------------------------
(***************************************************************************)
(* For any number of requests and fans: reading, deciding and writing in   *)
(* several statements implements Cheering, and leavers are out.            *)
(***************************************************************************)
EXTENDS Subscriptions, FiniteSetTheorems, TLAPS

\* What a request remembers is what it read, or what it asks for; a row once
\* there stays.
Right(label, j, s, d) ==
    /\ label \in {"admitted", "checked"} => s = Nothing
    /\ label = "checked" => j.op \in {"on", "detail"}
    /\ label \in {"read", "written"} => s # Nothing
    /\ label \in {"read", "written"} /\ j.op = "off" => s # "never" /\ subs[j.by] # "never"
    /\ label = "read" /\ j.op = "detail" => \E n \in 0 .. Cardinality(Fans) : s = <<n>>
    /\ label = "written" => d # Nothing
    /\ label = "written" /\ j.op # "detail" => d = j.op

Remembered == \A r \in Requests : Right(pc[r], job[r], seen[r], draft[r])

\* Nobody who left cheers, or has a request to start under way.
Left ==
    /\ \A f \in left : subs[f] # "on" /\ Asking("on", f) = {}
    /\ \A r \in leaving :
          /\ job[r] # Nothing /\ job[r].op = "off" /\ Asking("on", job[r].by) = {}
          /\ pc[r] \in {"read", "written"} /\ seen[r] = "off" => subs[job[r].by] = "off"

Inv == TypeOK /\ Remembered /\ Left

-----------------------------------------------------------------------------
LEMMA CheerersAreFans ==
    ASSUME TypeOK
    PROVE  Cheerers \subseteq Fans /\ Cardinality(Cheerers) \in 0 .. Cardinality(Fans)
<1>1. Cheerers \subseteq Fans
    BY SubscriptionConstants DEF TypeOK, Cheerers, People
<1>2. /\ IsFiniteSet(Cheerers) /\ Cardinality(Cheerers) <= Cardinality(Fans)
    BY <1>1, FS_Subset, SubscriptionConstants
<1>3. Cardinality(Cheerers) \in Nat /\ Cardinality(Fans) \in Nat
    BY <1>2, FS_CardinalityType, SubscriptionConstants
<1> QED BY <1>1, <1>2, <1>3

\* A step of r leaves the other requests alone.
LEMMA OthersStay ==
    ASSUME TypeOK, NEW r \in Requests, NEW l, NEW j, NEW s, NEW d, Move(r, l, j, s, d)
    PROVE  /\ pc'[r] = l /\ job'[r] = j /\ seen'[r] = s /\ draft'[r] = d
           /\ \A q \in Requests \ {r} : /\ pc'[q] = pc[q] /\ job'[q] = job[q]
                                         /\ seen'[q] = seen[q] /\ draft'[q] = draft[q]
BY DEF Move, TypeOK, JobTypes

\* The types, when r moves to a label with what belongs to it.
LEMMA MoveKeepsTypes ==
    ASSUME TypeOK, NEW r \in Requests, NEW l, NEW j, NEW s, NEW d, Move(r, l, j, s, d),
           l \in {"idle"} \cup InFlight \cup Answers,
           j \in Jobs \cup {Nothing}, j # Nothing <=> l \in InFlight,
           s = Nothing \/ (j # Nothing /\ s \in IF j.op = "detail" THEN Pages ELSE States),
           d = Nothing \/ (j # Nothing /\ d \in IF j.op = "detail" THEN Pages ELSE States),
           subs' \in [People -> States], subs'[Idol] = "never", active' \in BOOLEAN,
           newest' \in People \cup {Nothing},
           leaving' \subseteq Requests, left' \subseteq Fans
    PROVE  TypeOK'
<1>1. JobTypes(Jobs)'
  <2>1. /\ pc' \in [Requests -> {"idle"} \cup InFlight \cup Answers]
        /\ job' \in [Requests -> Jobs \cup {Nothing}]
      BY DEF Move, TypeOK, JobTypes
  <2>2. \A q \in Requests : pc'[q] \in InFlight <=> job'[q] # Nothing
      BY OthersStay DEF TypeOK, JobTypes
  <2> QED BY <2>1, <2>2 DEF JobTypes
<1>2. seen' = [q \in Requests |-> seen'[q]] /\ draft' = [q \in Requests |-> draft'[q]]
    BY DEF Move, TypeOK
<1>3. \A q \in Requests : {seen'[q], draft'[q]} \ {Nothing}
                             \subseteq IF IsPage(q)' THEN Pages ELSE States
  <2>1. ASSUME NEW q \in Requests \ {r}
        PROVE  {seen'[q], draft'[q]} \ {Nothing} \subseteq IF IsPage(q)' THEN Pages ELSE States
      BY <2>1, OthersStay DEF IsPage, TypeOK
  <2>2. {seen'[r], draft'[r]} \ {Nothing} \subseteq IF IsPage(r)' THEN Pages ELSE States
      BY OthersStay DEF IsPage
  <2> QED BY <2>1, <2>2
<1> QED BY <1>1, <1>2, <1>3 DEF TypeOK

\* What requests remember stays right as long as no row vanishes.
LEMMA RememberedStays ==
    ASSUME TypeOK, Remembered, NEW r \in Requests, NEW l, NEW j, NEW s, NEW d,
           Move(r, l, j, s, d),
           \A p \in People : subs[p] # "never" => subs'[p] # "never",
           Right(l, j, s, d)'
    PROVE  Remembered'
<1>1. ASSUME NEW q \in Requests \ {r} PROVE Right(pc[q], job[q], seen[q], draft[q])'
  <2>1. /\ pc'[q] = pc[q] /\ job'[q] = job[q] /\ seen'[q] = seen[q] /\ draft'[q] = draft[q]
      BY OthersStay
  <2>2. Right(pc[q], job[q], seen[q], draft[q]) BY DEF Remembered
  <2>3. pc[q] \in {"read", "written"} => job[q].by \in People
      BY DEF TypeOK, JobTypes, Jobs, Asks, InFlight
  <2> QED BY <2>1, <2>2, <2>3 DEF Right
<1>2. Right(pc[r], job[r], seen[r], draft[r])'
    BY OthersStay DEF Right
<1> QED BY <1>1, <1>2 DEF Remembered

\* Who left stays away when no row and no intention changes and nobody arrives.
LEMMA LeftStays ==
    ASSUME TypeOK, Left, NEW r \in Requests, NEW l, NEW j, NEW s, NEW d,
           Move(r, l, j, s, d), j = job[r] \/ j = Nothing,
           UNCHANGED <<subs, left>>, leaving' \subseteq leaving,
           r \in leaving' => j = job[r],
           r \in leaving' /\ l \in {"read", "written"} /\ s = "off"
              => subs[job[r].by] = "off"
    PROVE  Left'
<1>1. /\ pc'[r] = l /\ job'[r] = j /\ seen'[r] = s
      /\ \A q \in Requests \ {r} : pc'[q] = pc[q] /\ job'[q] = job[q] /\ seen'[q] = seen[q]
    BY OthersStay
<1>2. \A q \in Requests : job'[q] = job[q] \/ job'[q] = Nothing BY <1>1
<1>3. \A p \in People : Asking("on", p)' \subseteq Asking("on", p)
  <2>1. \A p \in People : Nothing # [op |-> "on", by |-> p]
      BY SubscriptionConstants DEF Asks
  <2> QED BY <1>2, <2>1 DEF Asking
<1>4. \A f \in left : f \in People BY DEF TypeOK, People
<1>5. \A q \in leaving : job[q].by \in People BY DEF TypeOK, JobTypes, Jobs, Asks, Left
<1>6. ASSUME NEW q \in leaving'
      PROVE  /\ job'[q] # Nothing /\ job'[q].op = "off" /\ Asking("on", job[q].by)' = {}
             /\ pc'[q] \in {"read", "written"} /\ seen'[q] = "off" => subs'[job'[q].by] = "off"
  <2>1. q \in Requests /\ q \in leaving /\ job'[q] = job[q] BY <1>1, <1>6 DEF TypeOK
  <2>2. Asking("on", job[q].by) = {} BY <2>1 DEF Left
  <2>3. Asking("on", job[q].by)' = {} BY <1>3, <1>5, <2>1, <2>2
  <2> QED BY <1>1, <1>6, <2>1, <2>3 DEF Left
<1>7. \A f \in left' : subs'[f] # "on" /\ Asking("on", f)' = {}
    BY <1>3, <1>4 DEF Left
<1> QED BY <1>6, <1>7 DEF Left

-----------------------------------------------------------------------------
(* Every action keeps the invariant.                                       *)

LEMMA Distinct ==
    /\ \A x \in Asks : x # Nothing
    /\ \A x \in Pages : x # Nothing
    /\ \A x \in States : x # Nothing
BY SubscriptionConstants

\* A request under way has a job; the page it looks at or the row it saw, typed.
LEMMA InFlightTypes ==
    ASSUME Inv, NEW r \in Requests, pc[r] \in InFlight
    PROVE  /\ job[r] \in Jobs /\ job[r] # Nothing
           /\ job[r].op \in {"on", "off", "detail"} /\ job[r].by \in People
           /\ IsPage(r) <=> job[r].op = "detail"
           /\ seen[r] # Nothing => seen[r] \in IF IsPage(r) THEN Pages ELSE States
           /\ draft[r] # Nothing => draft[r] \in IF IsPage(r) THEN Pages ELSE States
           /\ job[r].op = "on" => job[r].by \in Fans
<1>1. job[r] \in Jobs /\ job[r] # Nothing BY DEF Inv, TypeOK, JobTypes
<1>2. {seen[r], draft[r]} \ {Nothing} \subseteq IF IsPage(r) THEN Pages ELSE States
    BY DEF Inv, TypeOK
<1>3. job[r].op = "on" => job[r].by # Idol BY <1>1 DEF Jobs, Asks
<1> QED BY <1>1, <1>2, <1>3 DEF Jobs, Asks, IsPage, People

LEMMA AskKeeps ==
    ASSUME Inv, NEW r \in Requests, NEW op \in {"on", "off", "detail"}, NEW p \in People,
           Ask(r, op, p)
    PROVE  Inv'
<1> DEFINE j == [op |-> op, by |-> p]
<1>1. pc[r] \notin InFlight /\ UNCHANGED <<subs, active, newest>>
    BY DEF Ask, Arrive, Intends
<1>2. /\ left' = IF op = "on" THEN left \ {p} ELSE left
      /\ leaving' = IF op = "on" THEN leaving \ Asking("off", p)
                    ELSE IF op = "off" /\ Asking("on", p) = {} THEN leaving \cup {r}
                    ELSE leaving
    BY DEF Ask, Intends
<1>3. leaving' \subseteq Requests /\ left' \subseteq Fans BY <1>2 DEF Inv, TypeOK
<1>4. r \notin leaving
    BY <1>1 DEF Inv, TypeOK, JobTypes, Left
<1>5. CASE op = "on" /\ p = Idol
  <2>1. Move(r, "refused", Nothing, Nothing, Nothing) BY <1>5 DEF Ask
  <2>2. TypeOK'
    BY <1>1, <1>3, <2>1, MoveKeepsTypes DEF Inv, TypeOK, Answers, InFlight
  <2>3. Remembered'
    BY <1>1, <2>1, RememberedStays DEF Inv, Right
  <2>4. left' = left BY <1>2, <1>5, SubscriptionConstants DEF Inv, TypeOK
  <2>5. leaving' \subseteq leaving BY <1>2, <1>5
  <2>6. Left' BY <1>1, <1>4, <2>1, <2>4, <2>5, LeftStays DEF Inv
  <2> QED BY <2>2, <2>3, <2>6 DEF Inv
<1>6. CASE ~ (op = "on" /\ p = Idol)
  <2>1. j \in Jobs /\ j \in Asks BY <1>6 DEF Jobs, Asks
  <2>2. j # Nothing BY <2>1, Distinct
  <2>3. Move(r, "admitted", j, Nothing, Nothing) BY <1>6 DEF Ask, Arrive
  <2>4. TypeOK'
    BY <1>1, <1>3, <2>1, <2>2, <2>3, MoveKeepsTypes DEF Inv, TypeOK, InFlight
  <2>5. Remembered'
    BY <1>1, <2>3, RememberedStays DEF Inv, Right
  <2>6. /\ pc'[r] = "admitted" /\ job'[r] = j
        /\ \A q \in Requests \ {r} : pc'[q] = pc[q] /\ job'[q] = job[q] /\ seen'[q] = seen[q]
    BY <2>3, OthersStay DEF Inv
  <2>7. \A x \in People : Asking("on", x)'
                             \subseteq Asking("on", x) \cup (IF op = "on" /\ x = p THEN {r} ELSE {})
    BY <2>6 DEF Asking
  <2>8. \A f \in left' : subs'[f] # "on" /\ Asking("on", f)' = {}
    <3>1. \A f \in left' : f \in left /\ f \in People /\ ~(op = "on" /\ f = p)
        BY <1>2, <1>3 DEF People
    <3> QED BY <1>1, <2>7, <3>1 DEF Inv, Left
  <2>9. ASSUME NEW q \in leaving'
        PROVE  /\ job'[q] # Nothing /\ job'[q].op = "off" /\ Asking("on", job[q].by)' = {}
               /\ pc'[q] \in {"read", "written"} /\ seen'[q] = "off"
                     => subs'[job'[q].by] = "off"
    <3>1. CASE q = r
      <4>1. op = "off" /\ Asking("on", p) = {} BY <1>2, <1>4, <3>1
      <4>2. job'[q] = j /\ j.by = p /\ j.op = "off" /\ pc'[q] = "admitted"
          BY <2>6, <3>1, <4>1
      <4>3. Asking("on", p)' = {} BY <2>7, <4>1
      <4>4. Asking("on", job[q].by)' = {} BY <4>2, <4>3 DEF Asking
      <4> QED BY <2>2, <4>2, <4>4
    <3>2. CASE q # r
      <4>1. q \in leaving /\ q \in Requests \ {r} BY <1>2, <1>3, <3>2
      <4>2. job'[q] = job[q] /\ pc'[q] = pc[q] /\ seen'[q] = seen[q] BY <2>6, <4>1
      <4>3. job[q] # Nothing /\ job[q].op = "off" /\ Asking("on", job[q].by) = {}
          BY <4>1 DEF Inv, Left
      <4>4. job[q] \in Asks /\ job[q].by \in People
          BY <4>1, <4>3 DEF Inv, TypeOK, JobTypes, Jobs, Asks
      <4>5. ~(op = "on" /\ job[q].by = p)
        <5>1. SUFFICES ASSUME op = "on", job[q].by = p PROVE FALSE OBVIOUS
        <5>2. job[q] = [op |-> "off", by |-> p] BY <4>3, <4>4, <5>1 DEF Asks
        <5> QED BY <1>2, <4>1, <5>1, <5>2 DEF Asking
      <4>6. Asking("on", job[q].by)' = {}
        <5>1. PICK x \in People : x = job[q].by BY <4>4
        <5>2. Asking("on", x)' = {} BY <2>7, <4>3, <4>5, <5>1
        <5> QED BY <4>2, <5>1, <5>2 DEF Asking
      <4> QED BY <1>1, <4>1, <4>2, <4>3, <4>6 DEF Inv, Left
    <3> QED BY <3>1, <3>2
  <2> QED BY <2>4, <2>5, <2>8, <2>9 DEF Inv, Left
<1> QED BY <1>5, <1>6

\* Step and Fail leave the committed state alone and forget who failed to leave.
Aside(r, l) == /\ UNCHANGED <<subs, active, newest, left>>
               /\ leaving' = leaving \ {q \in {r} : l \in Answers}

LEMMA MoveAside ==
    ASSUME Inv, NEW r \in Requests, NEW l, NEW j, NEW s, NEW d,
           pc[r] \in InFlight, Move(r, l, j, s, d), Aside(r, l),
           l \in InFlight \cup Answers,
           j = IF l \in InFlight THEN job[r] ELSE Nothing,
           s = Nothing \/ (l \in InFlight /\ s \in IF IsPage(r) THEN Pages ELSE States),
           d = Nothing \/ (l \in InFlight /\ d \in IF IsPage(r) THEN Pages ELSE States),
           Right(l, j, s, d),
           r \in leaving /\ l \in {"read", "written"} /\ s = "off"
              => subs[job[r].by] = "off"
    PROVE  Inv'
<1>1. job[r] \in Jobs /\ job[r] # Nothing /\ (IsPage(r) <=> job[r].op = "detail")
    BY InFlightTypes
<1>2. InFlight \cap Answers = {} BY DEF InFlight, Answers
<1>3. /\ subs' \in [People -> States] /\ subs'[Idol] = "never" /\ active' \in BOOLEAN
      /\ newest' \in People \cup {Nothing} /\ leaving' \subseteq Requests /\ left' \subseteq Fans
    BY DEF Aside, Inv, TypeOK
<1>4. TypeOK' BY <1>1, <1>2, <1>3, MoveKeepsTypes DEF Inv
<1>5. Right(l, j, s, d)' BY DEF Right, Aside
<1>6. Remembered' BY <1>5, RememberedStays DEF Inv, Aside
<1>7. r \in leaving' => r \in leaving /\ l \in InFlight BY DEF Aside
<1>9. /\ UNCHANGED <<subs, left>> /\ leaving' \subseteq leaving
      /\ j = job[r] \/ j = Nothing
      /\ r \in leaving' => j = job[r]
    BY <1>2, <1>7 DEF Aside
<1>10. Left' BY <1>7, <1>9, LeftStays DEF Inv
<1> QED BY <1>4, <1>6, <1>10 DEF Inv

LEMMA ReplyAside ==
    ASSUME Inv, NEW r \in Requests, NEW a \in Answers, Reply(r, a), Aside(r, a)
    PROVE  Inv'
<1>1. InFlight \cap Answers = {} /\ a \notin {"admitted", "checked", "read", "written"}
    BY DEF InFlight, Answers
<1>2. Right(a, Nothing, Nothing, Nothing) BY <1>1 DEF Right
<1> QED BY <1>1, <1>2, MoveAside DEF Reply

\* What a step does to the ghosts, once its label is known.
LEMMA StepAside ==
    ASSUME Inv, NEW r \in Requests, Step(r), NEW l, NEW j, NEW s, NEW d, Move(r, l, j, s, d)
    PROVE  Aside(r, l)
<1>1. pc'[r] = l BY OthersStay DEF Inv
<1> QED BY <1>1 DEF Step, Aside

LEMMA StepKeeps ==
    ASSUME Inv, NEW r \in Requests, Step(r)
    PROVE  Inv'
<1> DEFINE j == job[r]
<1>1. ASSUME NEW a \in Answers, Reply(r, a) PROVE Inv'
    BY <1>1, StepAside, ReplyAside DEF Reply
<1>2. "refused" \in Answers /\ "error" \in Answers BY DEF Answers
<1>3. CASE FindIdol(r)
  <2>1. CASE Checked(r)
    <3>1. pc[r] = "admitted" /\ Move(r, "checked", j, Nothing, Nothing) BY <2>1 DEF Checked
    <3>2. Right("checked", j, Nothing, Nothing) BY <1>3 DEF FindIdol, Right
    <3> QED BY <3>1, <3>2, StepAside, MoveAside DEF InFlight, Answers
  <2> QED BY <1>1, <1>2, <1>3, <2>1 DEF FindIdol
<1>4. CASE ReadOwn(r)
  <2>1. CASE Loaded(r, Own(r)) /\ ~(j.op = "off" /\ Own(r) = "never")
    <3>1. /\ pc[r] \in {"admitted", "checked"} /\ j.op \in {"on", "off"}
          /\ Move(r, "read", j, Own(r), Nothing)
        BY <1>4, <2>1 DEF ReadOwn, Loaded
    <3>2. ~IsPage(r) /\ j.by \in People BY <3>1, InFlightTypes DEF InFlight
    <3>3. Own(r) \in States /\ Own(r) # Nothing
        BY <3>2, Distinct DEF Own, Inv, TypeOK
    <3>4. Right("read", j, Own(r), Nothing) BY <2>1, <3>1, <3>3 DEF Right, Own
    <3> QED BY <3>1, <3>2, <3>3, <3>4, StepAside, MoveAside DEF InFlight, Answers, Own
  <2> QED BY <1>1, <1>2, <1>4, <2>1 DEF ReadOwn
<1>5. ASSUME HasRead(r), NEW d, Flushed(r, seen[r], d), d = j.op
      PROVE Inv'
  <2>1. /\ pc[r] = "read" /\ ~IsPage(r) /\ Move(r, "written", j, seen[r], d)
      BY <1>5 DEF HasRead, Flushed
  <2>2. seen[r] \in States /\ seen[r] # Nothing
      BY <2>1, InFlightTypes DEF InFlight, Inv, Remembered, Right
  <2>3. j.op \in {"on", "off"} BY <2>1, InFlightTypes DEF InFlight
  <2>4. d \in States /\ d # Nothing BY <1>5, <2>3, Distinct DEF States
  <2>5. Right("read", j, seen[r], draft[r]) BY <2>1 DEF Inv, Remembered
  <2>6. Right("written", j, seen[r], d) BY <1>5, <2>2, <2>3, <2>4, <2>5 DEF Right
  <2>7. r \in leaving /\ seen[r] = "off" => subs[j.by] = "off" BY <2>1 DEF Inv, Left
  <2> QED BY <2>1, <2>2, <2>4, <2>6, <2>7, StepAside, MoveAside DEF InFlight, Answers
<1>6. HasRead(r) => /\ j.op \in {"on", "off"} /\ (seen[r] = "never" => j.op = "on")
    BY InFlightTypes DEF HasRead, InFlight, Inv, Remembered, Right
<1>7. CASE Insert(r)
  <2>1. CASE Flushed(r, seen[r], "on")
    BY <1>5, <1>6, <1>7, <2>1 DEF Insert
  <2> QED BY <1>1, <1>2, <1>7, <2>1 DEF Insert
<1>8. CASE Update(r) BY <1>5, <1>8 DEF Update
<1>9. CASE LeaveIt(r) BY <1>5, <1>9 DEF LeaveIt
<1>10. CASE CountFans(r)
  <2> DEFINE n == Cardinality(Cheerers)
  <2>1. pc[r] = "checked" /\ IsPage(r) /\ Move(r, "read", j, <<n>>, Nothing)
      BY <1>10 DEF CountFans, Loaded
  <2>2. n \in 0 .. Cardinality(Fans) BY CheerersAreFans DEF Inv
  <2>3. <<n>> \in Pages /\ <<n>> # Nothing BY <2>2, Distinct DEF Pages
  <2>4. j.op = "detail" BY <2>1 DEF IsPage
  <2>5. Right("read", j, <<n>>, Nothing) BY <2>2, <2>3, <2>4 DEF Right
  <2>6. r \notin leaving BY <2>4 DEF Inv, Left
  <2> QED BY <2>1, <2>3, <2>5, <2>6, StepAside, MoveAside DEF InFlight, Answers
<1>11. CASE LookUp(r)
  <2> DEFINE b == j.by # Idol /\ Own(r) = "on"
             d == <<seen[r][1], b>>
  <2>1. pc[r] = "read" /\ IsPage(r) /\ Move(r, "written", j, seen[r], d)
      BY <1>11 DEF LookUp, Flushed
  <2>2. j.op = "detail" BY <2>1 DEF IsPage
  <2>3. PICK n \in 0 .. Cardinality(Fans) : seen[r] = <<n>>
      BY <2>1, <2>2 DEF Inv, Remembered, Right
  <2>4. b \in BOOLEAN /\ d = <<n, b>> BY <2>3
  <2>5. d \in Pages /\ seen[r] \in Pages /\ d # Nothing /\ seen[r] # Nothing
    <3>1. <<n>> \in Pages /\ \A c \in BOOLEAN : <<n, c>> \in Pages BY DEF Pages
    <3>2. d \in Pages BY <2>4, <3>1
    <3> QED BY <2>3, <3>1, <3>2, Distinct
  <2>6. Right("written", j, seen[r], d) BY <2>2, <2>5 DEF Right
  <2>7. r \notin leaving BY <2>2 DEF Inv, Left
  <2> QED BY <2>1, <2>5, <2>6, <2>7, StepAside, MoveAside DEF InFlight, Answers
<1> QED BY <1>3, <1>4, <1>7, <1>8, <1>9, <1>10, <1>11 DEF Step

\* What a commit leaves in the row of its fan.
LEMMA CommitSets ==
    ASSUME Inv, NEW r \in Requests, Commit(r)
    PROVE  /\ job[r].by \in People /\ subs' \in [People -> States] /\ subs'[Idol] = "never"
           /\ \A p \in People : subs'[p] # subs[p] =>
                 p = job[r].by /\ job[r].op = subs'[p] /\ subs'[p] \in {"on", "off"}
           /\ r \in leaving => subs'[job[r].by] = "off"
<1>1. /\ pc[r] = "written" /\ Move(r, "ok", Nothing, Nothing, Nothing)
      /\ subs' = IF Writes(r) THEN [subs EXCEPT ![job[r].by] = draft[r]] ELSE subs
    BY DEF Commit, Reply
<1>2. /\ job[r].op \in {"on", "off", "detail"} /\ job[r].by \in People
      /\ job[r].op = "on" => job[r].by \in Fans
    BY <1>1, InFlightTypes DEF InFlight
<1>3. Right("written", job[r], seen[r], draft[r]) BY <1>1 DEF Inv, Remembered
<1>4. Writes(r) => draft[r] = job[r].op /\ job[r].op \in {"on", "off"}
    BY <1>2, <1>3 DEF Writes, Right
<1>5. subs \in [People -> States] /\ subs[Idol] = "never" BY DEF Inv, TypeOK
<1>6. Writes(r) => job[r].by \in Fans
    BY <1>2, <1>3, <1>4, <1>5 DEF Right, People
<1>7. subs' \in [People -> States] BY <1>1, <1>2, <1>4, <1>5 DEF States
<1>8. \A p \in People : subs'[p] = IF Writes(r) /\ p = job[r].by THEN job[r].op ELSE subs[p]
    BY <1>1, <1>2, <1>4, <1>5
<1>9. subs'[Idol] = "never"
    BY <1>5, <1>6, <1>8, SubscriptionConstants DEF People
<1>10. \A p \in People : subs'[p] # subs[p] =>
          p = job[r].by /\ job[r].op = subs'[p] /\ subs'[p] \in {"on", "off"}
    BY <1>4, <1>8
<1>11. r \in leaving => subs'[job[r].by] = "off"
  <2>1. r \in leaving => job[r].op = "off" /\ (seen[r] = "off" => subs[job[r].by] = "off")
      BY <1>1 DEF Inv, Left
  <2> QED BY <1>2, <1>8, <2>1 DEF Writes
<1> QED BY <1>2, <1>7, <1>9, <1>10, <1>11

LEMMA CommitKeeps ==
    ASSUME Inv, NEW r \in Requests, Commit(r)
    PROVE  Inv'
<1>1. /\ pc[r] = "written" /\ Move(r, "ok", Nothing, Nothing, Nothing)
      /\ UNCHANGED <<active, newest>> /\ leaving' = leaving \ {r}
      /\ left' = IF r \in leaving THEN left \cup {job[r].by} ELSE left
    BY DEF Commit, Reply
<1>2. left' \subseteq Fans
  <2>1. r \in leaving => job[r].op = "off" /\ seen[r] # "never" /\ subs[job[r].by] # "never"
      BY <1>1 DEF Inv, Left, Remembered, Right
  <2>2. r \in leaving => job[r].by \in Fans
      BY <2>1, CommitSets DEF Inv, TypeOK, People
  <2> QED BY <1>1, <2>2 DEF Inv, TypeOK
<1>3. TypeOK'
    BY <1>1, <1>2, CommitSets, MoveKeepsTypes DEF Inv, TypeOK, Answers, InFlight
<1>4. Remembered'
  <2>1. \A p \in People : subs[p] # "never" => subs'[p] # "never" BY CommitSets
  <2>2. Right("ok", Nothing, Nothing, Nothing)' BY DEF Right
  <2> QED BY <1>1, <2>1, <2>2, RememberedStays DEF Inv
<1>5. /\ pc'[r] = "ok" /\ job'[r] = Nothing /\ seen'[r] = Nothing
      /\ \A q \in Requests \ {r} : pc'[q] = pc[q] /\ job'[q] = job[q] /\ seen'[q] = seen[q]
    BY <1>1, OthersStay DEF Inv
<1>6. \A p \in People : Nothing # [op |-> "on", by |-> p] BY Distinct DEF Asks
<1>7. \A p \in People : Asking("on", p)' \subseteq Asking("on", p) BY <1>5, <1>6 DEF Asking
<1>8. job[r] \in Asks BY <1>1, InFlightTypes DEF InFlight, Jobs
\* Who has nobody asking to start is not started.
<1>9. ASSUME NEW p \in People, Asking("on", p) = {}, subs[p] # "on" PROVE subs'[p] # "on"
  <2>1. SUFFICES ASSUME subs'[p] = "on" PROVE FALSE OBVIOUS
  <2>2. p = job[r].by /\ job[r].op = "on" BY <1>9, <2>1, CommitSets
  <2>3. job[r] = [op |-> "on", by |-> p] BY <1>8, <2>2 DEF Asks
  <2> QED BY <1>9, <2>3 DEF Asking
<1>10. ASSUME NEW f \in left' PROVE subs'[f] # "on" /\ Asking("on", f)' = {}
  <2>1. CASE f \in left
    <3>1. f \in People /\ Asking("on", f) = {} /\ subs[f] # "on"
        BY <2>1 DEF Inv, Left, TypeOK, People
    <3> QED BY <1>7, <1>9, <3>1
  <2>2. CASE f \notin left
    <3>1. r \in leaving /\ f = job[r].by BY <1>1, <1>10, <2>2
    <3>2. subs'[f] = "off" /\ f \in People BY <3>1, CommitSets
    <3>3. Asking("on", f) = {} BY <3>1 DEF Inv, Left
    <3> QED BY <1>7, <3>2, <3>3
  <2> QED BY <2>1, <2>2
<1>11. ASSUME NEW q \in leaving'
       PROVE  /\ job'[q] # Nothing /\ job'[q].op = "off" /\ Asking("on", job[q].by)' = {}
              /\ pc'[q] \in {"read", "written"} /\ seen'[q] = "off" => subs'[job'[q].by] = "off"
  <2>1. q \in leaving /\ q \in Requests \ {r} BY <1>1, <1>11 DEF Inv, TypeOK
  <2>2. job'[q] = job[q] /\ pc'[q] = pc[q] /\ seen'[q] = seen[q] BY <1>5, <2>1
  <2>3. job[q] # Nothing /\ job[q].op = "off" /\ Asking("on", job[q].by) = {}
      BY <2>1 DEF Inv, Left
  <2>4. job[q].by \in People BY <2>1, <2>3 DEF Inv, TypeOK, JobTypes, Jobs, Asks
  <2>5. PICK p \in People : p = job[q].by BY <2>4
  <2>6. Asking("on", p)' = {} BY <1>7, <2>3, <2>5
  <2>7. Asking("on", job[q].by)' = {} BY <2>2, <2>5, <2>6 DEF Asking
  <2>8. ASSUME pc[q] \in {"read", "written"}, seen[q] = "off" PROVE subs'[p] = "off"
    <3>1. subs[p] = "off" BY <2>1, <2>5, <2>8 DEF Inv, Left
    <3>2. subs'[p] # "on" BY <1>9, <2>3, <2>5, <3>1
    <3> QED BY <3>1, <3>2, CommitSets
  <2> QED BY <2>2, <2>3, <2>5, <2>7, <2>8
<1>12. Left' BY <1>10, <1>11 DEF Left
<1> QED BY <1>3, <1>4, <1>12 DEF Inv

LEMMA RoomKeeps ==
    ASSUME Inv, SuspendOrRelease \/ Broadcast \/ \E f \in Fans : WriteIn(f)
    PROVE  Inv'
<1>1. /\ UNCHANGED <<subs, leaving, left, work>>
      /\ active' \in BOOLEAN /\ newest' \in People \cup {Nothing}
    BY DEF SuspendOrRelease, Broadcast, WriteIn, Inv, TypeOK, People
<1>2. TypeOK' BY <1>1 DEF work, Inv, TypeOK, JobTypes, IsPage
<1>3. Remembered' BY <1>1 DEF work, Inv, Remembered, Right
<1>4. Left' BY <1>1 DEF work, Inv, Left, Asking
<1> QED BY <1>2, <1>3, <1>4 DEF Inv

-----------------------------------------------------------------------------
\* Rows, requests and what they remember are typed; requests are right about the
\* past and leavers stay away.
THEOREM Invariance == Spec => []Inv
<1>1. Init => Inv
    BY SubscriptionConstants
    DEF Init, IdleWork, Inv, TypeOK, JobTypes, IsPage, Remembered, Right, Left, InFlight,
        Answers, States, People
<1>2. Inv /\ [Next]_vars => Inv'
  <2> SUFFICES ASSUME Inv, [Next]_vars PROVE Inv'
      OBVIOUS
  <2>1. CASE SuspendOrRelease \/ Broadcast \/ \E f \in Fans : WriteIn(f) BY <2>1, RoomKeeps
  <2>2. ASSUME NEW r \in Requests, NEW op \in {"on", "off", "detail"}, NEW p \in People,
               Ask(r, op, p)
        PROVE  Inv'
      BY <2>2, AskKeeps
  <2>3. ASSUME NEW r \in Requests, Step(r) PROVE Inv' BY <2>3, StepKeeps
  <2>4. ASSUME NEW r \in Requests, Commit(r) PROVE Inv' BY <2>4, CommitKeeps
  <2>5. ASSUME NEW r \in Requests, Fail(r) PROVE Inv'
    <3>1. Reply(r, "error") /\ Aside(r, "error") BY <2>5 DEF Fail, Aside, Answers
    <3> QED BY <3>1, ReplyAside DEF Answers
  <2>6. CASE UNCHANGED vars
      BY <2>6 DEF vars, roomVars, work, Inv, TypeOK, JobTypes, IsPage, Remembered, Right,
                  Left, Asking
  <2> QED BY <2>1, <2>2, <2>3, <2>4, <2>5, <2>6 DEF Next
<1> QED BY <1>1, <1>2, PTL DEF Spec

\* Every variable keeps its type.
THEOREM TypeCorrectness == Spec => []TypeOK
<1>1. Inv => TypeOK BY DEF Inv
<1> QED BY <1>1, Invariance, PTL

\* The policy of the room asks for a row that is on: nobody who left writes.
THEOREM LeaversStayOut == Spec => LeaversAreOut
<1>1. Inv /\ [Next]_vars => [newest' # newest => newest' \notin left]_vars
  <2> SUFFICES ASSUME Inv, Next, newest' # newest PROVE newest' \notin left
      BY DEF vars, roomVars
  <2>1. Idol \notin left BY SubscriptionConstants DEF Inv, TypeOK
  <2>2. \A f \in Fans : WriteIn(f) => newest' \notin left BY DEF WriteIn, Inv, Left
  <2>3. Broadcast => newest' \notin left BY <2>1 DEF Broadcast
  <2> QED BY <2>2, <2>3 DEF Next, SuspendOrRelease, Ask, Intends, Step, Commit, Fail
<1> QED BY <1>1, Invariance, PTL DEF Spec, LeaversAreOut

-----------------------------------------------------------------------------
(* The refinement: every step is a step of Cheering or changes nothing     *)
(* Cheering speaks of.                                                     *)

\* Where a request stands, told by its label.
LEMMA Outcomes ==
    ASSUME Inv, NEW r \in Requests
    PROVE  /\ pc[r] \notin InFlight => OutcomeOf(r) = pc[r] /\ ToldOf(r) = Nothing
           /\ pc[r] \in InFlight => OutcomeOf(r) \in {"pending", "met"}
           /\ pc[r] \in {"admitted", "checked"} => OutcomeOf(r) = "pending" /\ ToldOf(r) = Nothing
           /\ HasRead(r) => /\ ToldOf(r) = Nothing
                            /\ OutcomeOf(r) = IF seen[r] = job[r].op THEN "met" ELSE "pending"
           /\ pc[r] = "read" /\ IsPage(r) => OutcomeOf(r) = "pending" /\ ToldOf(r) = seen[r]
           /\ pc[r] = "written" => OutcomeOf(r) = IF Writes(r) THEN "pending" ELSE "met"
<1>1. pc[r] \in InFlight <=> job[r] # Nothing BY DEF Inv, TypeOK, JobTypes
<1>2. Right(pc[r], job[r], seen[r], draft[r]) BY DEF Inv, Remembered
<1> QED BY <1>1, <1>2 DEF OutcomeOf, ToldOf, Found, HasRead, IsPage, Writes, InFlight, Right

\* A move of r changes the outcome of r alone.
LEMMA MovesMap ==
    ASSUME TypeOK, NEW r \in Requests, NEW l, NEW j, NEW s, NEW d, Move(r, l, j, s, d)
    PROVE  Abstract!Outcome(r, OutcomeOf(r)', j, ToldOf(r)')
<1>1. \A q \in Requests \ {r} : OutcomeOf(q)' = OutcomeOf(q) /\ ToldOf(q)' = ToldOf(q)
    BY OthersStay DEF OutcomeOf, ToldOf, Found, IsPage, Writes
<1>2. job' = [job EXCEPT ![r] = j] BY DEF Move
<1> QED BY <1>1, <1>2 DEF Abstract!Outcome

LEMMA StaysMap ==
    ASSUME TypeOK, NEW r \in Requests, NEW l, NEW s, NEW d, Move(r, l, job[r], s, d),
           UNCHANGED <<subs, active>>,
           OutcomeOf(r)' = OutcomeOf(r), ToldOf(r)' = ToldOf(r)
    PROVE  UNCHANGED Abstract!vars
<1>1. \A q \in Requests : OutcomeOf(q)' = OutcomeOf(q) /\ ToldOf(q)' = ToldOf(q)
    BY OthersStay DEF OutcomeOf, ToldOf, Found, IsPage, Writes
<1>2. job' = job BY DEF Move, TypeOK, JobTypes
<1> QED BY <1>1, <1>2 DEF Abstract!vars

LEMMA ReplyMaps ==
    ASSUME Inv, NEW r \in Requests, NEW a \in Answers, Reply(r, a)
    PROVE  Abstract!Outcome(r, a, Nothing, Nothing)
<1>1. Move(r, a, Nothing, Nothing, Nothing) BY DEF Reply
<1>2. pc'[r] = a /\ job'[r] = Nothing BY <1>1, OthersStay DEF Inv
<1>3. OutcomeOf(r)' = a /\ ToldOf(r)' = Nothing
    BY <1>2 DEF OutcomeOf, ToldOf, Found, IsPage, InFlight, Answers
<1> QED BY <1>1, <1>3, MovesMap DEF Inv

LEMMA AskMaps ==
    ASSUME Inv, NEW r \in Requests, NEW op \in {"on", "off", "detail"}, NEW p \in People,
           Ask(r, op, p)
    PROVE  Abstract!Ask(r, [op |-> op, by |-> p])
<1> DEFINE j == [op |-> op, by |-> p]
<1>1. pc[r] \notin InFlight /\ UNCHANGED <<subs, active>> BY DEF Ask, Arrive, Intends
<1>2. pc[r] \in {"idle"} \cup Answers BY <1>1 DEF Inv, TypeOK, JobTypes
<1>3. ~Abstract!Pending(r) BY <1>1, <1>2, Outcomes DEF Abstract!Pending, Answers
<1>4. j = [op |-> "on", by |-> Idol] <=> op = "on" /\ p = Idol OBVIOUS
<1>5. CASE op = "on" /\ p = Idol
  <2>1. Move(r, "refused", Nothing, Nothing, Nothing) BY <1>5 DEF Ask
  <2>2. pc'[r] = "refused" /\ job'[r] = Nothing BY <2>1, OthersStay DEF Inv
  <2>3. OutcomeOf(r)' = "refused" /\ ToldOf(r)' = Nothing
      BY <2>2 DEF OutcomeOf, ToldOf, Found, IsPage, InFlight
  <2>4. Abstract!Outcome(r, "refused", Nothing, Nothing) BY <2>1, <2>3, MovesMap DEF Inv
  <2> QED BY <1>1, <1>3, <1>4, <1>5, <2>4 DEF Abstract!Ask
<1>6. CASE ~(op = "on" /\ p = Idol)
  <2>1. Move(r, "admitted", j, Nothing, Nothing) BY <1>6 DEF Ask, Arrive
  <2>2. pc'[r] = "admitted" /\ seen'[r] = Nothing BY <2>1, OthersStay DEF Inv
  <2>3. OutcomeOf(r)' = "pending" /\ ToldOf(r)' = Nothing
      BY <2>2 DEF OutcomeOf, ToldOf, Found, IsPage, InFlight
  <2>4. Abstract!Outcome(r, "pending", j, Nothing) BY <2>1, <2>3, MovesMap DEF Inv
  <2> QED BY <1>1, <1>3, <1>4, <1>6, <2>4 DEF Abstract!Ask
<1> QED BY <1>5, <1>6

LEMMA StepMaps ==
    ASSUME Inv, NEW r \in Requests, Step(r)
    PROVE  \/ Abstract!Find(r) \/ Abstract!Count(r) \/ Abstract!LookUp(r)
           \/ Abstract!Refuse(r) \/ Abstract!Fail(r) \/ UNCHANGED Abstract!vars
<1> DEFINE j == job[r]
<1>1. UNCHANGED <<subs, active>> BY DEF Step
<1>2. pc[r] \in InFlight => j.op \in {"on", "off", "detail"} /\ j.by \in People
    BY InFlightTypes
<1>3. CASE FindIdol(r)
  <2>1. OutcomeOf(r) = "pending" /\ ToldOf(r) = Nothing /\ pc[r] = "admitted"
      BY <1>3, Outcomes DEF FindIdol
  <2>2. CASE Checked(r)
    <3>1. Move(r, "checked", j, Nothing, Nothing) BY <2>2 DEF Checked
    <3>2. pc'[r] = "checked" /\ job'[r] = j /\ seen'[r] = Nothing
        BY <3>1, OthersStay DEF Inv
    <3>3. OutcomeOf(r)' = "pending" /\ ToldOf(r)' = Nothing
        BY <3>2 DEF OutcomeOf, ToldOf, Found, IsPage, InFlight
    <3> QED BY <1>1, <2>1, <3>1, <3>3, StaysMap DEF Inv
  <2>3. CASE Reply(r, "refused") /\ ~active
    <3>1. Abstract!Outcome(r, "refused", Nothing, Nothing) BY <2>3, ReplyMaps DEF Answers
    <3> QED BY <1>1, <1>3, <2>1, <2>3, <3>1 DEF FindIdol, Abstract!Refuse
  <2> QED BY <1>3, <2>2, <2>3 DEF FindIdol
<1>4. CASE ReadOwn(r)
  <2>1. /\ OutcomeOf(r) = "pending" /\ ToldOf(r) = Nothing /\ j.op \in {"on", "off"}
        /\ pc[r] \in {"admitted", "checked"}
      BY <1>4, Outcomes DEF ReadOwn
  <2>2. CASE Loaded(r, Own(r))
    <3>1. Move(r, "read", j, Own(r), Nothing) BY <2>2 DEF Loaded
    <3>2. pc'[r] = "read" /\ job'[r] = j /\ seen'[r] = Own(r)
        BY <3>1, OthersStay DEF Inv
    <3>3. OutcomeOf(r)' = (IF Own(r) = j.op THEN "met" ELSE "pending") /\ ToldOf(r)' = Nothing
        BY <2>1, <3>2 DEF OutcomeOf, ToldOf, Found, IsPage, Writes, InFlight
    <3>4. CASE Own(r) = j.op
      <4>1. Abstract!Outcome(r, "met", j, Nothing) BY <3>1, <3>3, <3>4, MovesMap DEF Inv
      <4> QED BY <1>1, <2>1, <3>4, <4>1 DEF Abstract!Find, Own
    <3>5. CASE Own(r) # j.op BY <1>1, <2>1, <3>1, <3>3, <3>5, StaysMap DEF Inv
    <3> QED BY <3>4, <3>5
  <2>3. CASE Reply(r, "refused") /\ j.op = "off" /\ Own(r) = "never"
    <3>1. Abstract!Outcome(r, "refused", Nothing, Nothing) BY <2>3, ReplyMaps DEF Answers
    <3> QED BY <1>1, <2>1, <2>3, <3>1 DEF Abstract!Refuse, Own
  <2> QED BY <1>4, <2>2, <2>3 DEF ReadOwn
<1>5. ASSUME HasRead(r), NEW d, Flushed(r, seen[r], d) PROVE UNCHANGED Abstract!vars
  <2>1. pc[r] = "read" /\ ~IsPage(r) /\ Move(r, "written", j, seen[r], d)
      BY <1>5 DEF HasRead, Flushed
  <2>2. pc'[r] = "written" /\ job'[r] = j /\ seen'[r] = seen[r] BY <2>1, OthersStay DEF Inv
  <2>3. j.op # "detail" BY <2>1, InFlightTypes DEF InFlight
  <2>4. OutcomeOf(r)' = (IF seen[r] = j.op THEN "met" ELSE "pending") /\ ToldOf(r)' = Nothing
      BY <2>2, <2>3 DEF OutcomeOf, ToldOf, Found, IsPage, Writes, InFlight
  <2> QED BY <1>1, <1>5, <2>1, <2>4, Outcomes, StaysMap DEF Inv
<1>6. CASE Insert(r)
  <2>1. CASE Reply(r, "error")
    <3>1. Abstract!Outcome(r, "error", Nothing, Nothing) BY <2>1, ReplyMaps DEF Answers
    <3>2. Abstract!Pending(r) BY <2>1, Outcomes DEF Reply, Abstract!Pending
    <3> QED BY <1>1, <3>1, <3>2 DEF Abstract!Fail
  <2> QED BY <1>5, <1>6, <2>1 DEF Insert
<1>7. CASE Update(r) BY <1>5, <1>7 DEF Update
<1>8. CASE LeaveIt(r) BY <1>5, <1>8 DEF LeaveIt
<1>9. CASE CountFans(r)
  <2> DEFINE t == <<Cardinality(Cheerers)>>
  <2>1. pc[r] = "checked" /\ IsPage(r) /\ Move(r, "read", j, t, Nothing)
      BY <1>9 DEF CountFans, Loaded
  <2>2. pc'[r] = "read" /\ job'[r] = j /\ seen'[r] = t /\ IsPage(r)' BY <2>1, OthersStay DEF Inv, IsPage
  <2>3. OutcomeOf(r)' = "pending" /\ ToldOf(r)' = t
      BY <2>2 DEF OutcomeOf, ToldOf, Found, IsPage, InFlight
  <2>4. Abstract!Outcome(r, "pending", j, t) BY <2>1, <2>3, MovesMap DEF Inv
  <2>5. Abstract!Cheerers = Cheerers BY DEF Abstract!Cheerers, Cheerers, Abstract!People, People
  <2>6. OutcomeOf(r) = "pending" /\ ToldOf(r) = Nothing /\ j.op = "detail"
      BY <2>1, Outcomes DEF IsPage
  <2> QED BY <1>1, <2>4, <2>5, <2>6 DEF Abstract!Count, Abstract!Cardinality, Cardinality
<1>10. CASE LookUp(r)
  <2> DEFINE t == <<seen[r][1], j.by # Idol /\ Own(r) = "on">>
  <2>1. pc[r] = "read" /\ IsPage(r) /\ Move(r, "written", j, seen[r], t)
      BY <1>10 DEF LookUp, Flushed
  <2>2. pc'[r] = "written" /\ job'[r] = j /\ draft'[r] = t /\ IsPage(r)'
      BY <2>1, OthersStay DEF Inv, IsPage
  <2>3. OutcomeOf(r)' = "met" /\ ToldOf(r)' = t
      BY <2>2 DEF OutcomeOf, ToldOf, Found, IsPage, InFlight
  <2>4. Abstract!Outcome(r, "met", j, t) BY <2>1, <2>3, MovesMap DEF Inv
  <2>5. (j.by # Idol /\ Own(r) = "on") = (j.by \in Abstract!Cheerers)
      BY <1>2, <2>1 DEF Abstract!Cheerers, Abstract!People, People, Own, Inv, TypeOK, InFlight
  <2>6. OutcomeOf(r) = "pending" /\ ToldOf(r) = seen[r] /\ seen[r] # Nothing /\ j.op = "detail"
      BY <2>1, Outcomes DEF IsPage, Inv, Remembered, Right
  <2> QED BY <1>1, <2>4, <2>5, <2>6 DEF Abstract!LookUp
<1> QED BY <1>3, <1>4, <1>6, <1>7, <1>8, <1>9, <1>10 DEF Step

LEMMA CommitMaps ==
    ASSUME Inv, NEW r \in Requests, Commit(r)
    PROVE  Abstract!Take(r) \/ Abstract!Answer(r)
<1>1. pc[r] = "written" /\ Reply(r, "ok") /\ UNCHANGED active BY DEF Commit
<1>2. Abstract!Outcome(r, "ok", Nothing, Nothing) BY <1>1, ReplyMaps DEF Answers
<1>3. Right("written", job[r], seen[r], draft[r]) BY <1>1 DEF Inv, Remembered
<1>4. job[r].op \in {"on", "off", "detail"} BY <1>1, InFlightTypes DEF InFlight
<1>5. CASE Writes(r)
  <2>1. /\ OutcomeOf(r) = "pending" /\ job[r].op \in {"on", "off"} /\ draft[r] = job[r].op
        /\ job[r].op = "off" => subs[job[r].by] # "never"
      BY <1>1, <1>3, <1>4, <1>5, Outcomes DEF Writes, Right
  <2>2. subs' = [subs EXCEPT ![job[r].by] = job[r].op] BY <1>5, <2>1 DEF Commit
  <2> QED BY <1>1, <1>2, <2>1, <2>2 DEF Abstract!Take
<1>6. CASE ~Writes(r)
  <2>1. OutcomeOf(r) = "met" /\ subs' = subs BY <1>1, <1>6, Outcomes DEF Commit
  <2> QED BY <1>1, <1>2, <2>1 DEF Abstract!Answer
<1> QED BY <1>5, <1>6

LEMMA FailMaps ==
    ASSUME Inv, NEW r \in Requests, Fail(r)
    PROVE  Abstract!Fail(r)
<1>1. Reply(r, "error") /\ pc[r] \in InFlight /\ UNCHANGED <<subs, active>> BY DEF Fail, Reply
<1>2. Abstract!Outcome(r, "error", Nothing, Nothing) BY <1>1, ReplyMaps DEF Answers
<1> QED BY <1>1, <1>2, Outcomes DEF Abstract!Fail, Abstract!Pending

LEMMA RoomMaps ==
    ASSUME SuspendOrRelease \/ Broadcast \/ \E f \in Fans : WriteIn(f)
    PROVE  Abstract!OpenOrClose \/ UNCHANGED Abstract!vars
<1>1. /\ UNCHANGED <<subs, work>> /\ (active' = ~active \/ active' = active)
    BY DEF SuspendOrRelease, Broadcast, WriteIn
<1>2. UNCHANGED <<[r \in Requests |-> ToldOf(r)], [r \in Requests |-> OutcomeOf(r)]>>
    BY <1>1 DEF work, OutcomeOf, ToldOf, Found, IsPage, Writes
<1> QED BY <1>1, <1>2 DEF work, Abstract!OpenOrClose, Abstract!vars

\* Statements, races for the first row and locks come to one step per request.
THEOREM Refinement == Spec => ImplementsCheering
<1>1. Init => Abstract!Init
    BY DEF Init, IdleWork, Abstract!Init, People, Abstract!People, OutcomeOf, ToldOf, Found,
           IsPage, InFlight
<1>2. Inv /\ [Next]_vars => [Abstract!Next]_(Abstract!vars)
  <2> SUFFICES ASSUME Inv, [Next]_vars PROVE Abstract!Next \/ UNCHANGED Abstract!vars
      OBVIOUS
  <2>1. CASE SuspendOrRelease \/ Broadcast \/ \E f \in Fans : WriteIn(f)
      BY <2>1, RoomMaps DEF Abstract!Next
  <2>2. ASSUME NEW r \in Requests, NEW op \in {"on", "off", "detail"}, NEW p \in People,
               Ask(r, op, p)
        PROVE  Abstract!Next
    <3>1. Abstract!Ask(r, [op |-> op, by |-> p]) BY <2>2, AskMaps
    <3>2. [op |-> op, by |-> p] \in Abstract!Jobs
        BY DEF Abstract!Jobs, Abstract!People, People
    <3> QED BY <3>1, <3>2 DEF Abstract!Next
  <2>3. ASSUME NEW r \in Requests, Step(r) PROVE Abstract!Next \/ UNCHANGED Abstract!vars
      BY <2>3, StepMaps DEF Abstract!Next
  <2>4. ASSUME NEW r \in Requests, Commit(r) PROVE Abstract!Next
      BY <2>4, CommitMaps DEF Abstract!Next
  <2>5. ASSUME NEW r \in Requests, Fail(r) PROVE Abstract!Next
      BY <2>5, FailMaps DEF Abstract!Next
  <2>6. CASE UNCHANGED vars
    <3>1. UNCHANGED <<[r \in Requests |-> ToldOf(r)], [r \in Requests |-> OutcomeOf(r)]>>
        BY <2>6 DEF vars, roomVars, work, OutcomeOf, ToldOf, Found, IsPage, Writes
    <3> QED BY <2>6, <3>1 DEF vars, roomVars, work, Abstract!vars
  <2> QED BY <2>1, <2>2, <2>3, <2>4, <2>5, <2>6 DEF Next
<1> QED BY <1>1, <1>2, Invariance, PTL DEF Spec, ImplementsCheering, Abstract!Spec
-----------------------------------------------------------------------------
(* Nobody is stuck: the part of RequestsAreAnswered that is not about      *)
(* fairness.                                                               *)

\* r must write the row of its fan, which q has written and not yet committed.
WaitsFor(r, q) ==
    /\ HasRead(r) /\ seen[r] # job[r].op
    /\ q # r /\ pc[q] = "written" /\ Writes(q) /\ job[q].by = job[r].by

\* The guards of FindIdol and ReadOwn, of CountFans and LookUp, of Insert, Update and
\* LeaveIt, and of the commit.
CanRead(r) ==
    \/ pc[r] = "admitted" /\ job[r].op \in {"on", "off", "detail"}
    \/ pc[r] = "checked" /\ job[r].op = "on"
    \/ pc[r] \in {"checked", "read"} /\ IsPage(r)

CanWrite(r) ==
    /\ HasRead(r)
    /\ \/ seen[r] = job[r].op
       \/ /\ seen[r] = "never" \/ (seen[r] \in {"on", "off"} /\ Writes(r))
          /\ \A q \in Requests : ~WaitsFor(r, q)

CanCommit(r) == pc[r] = "written"

CanGoOn(r) == CanRead(r) \/ CanWrite(r) \/ CanCommit(r)

NobodyIsStuck ==
    \A r \in Requests : pc[r] \in InFlight =>
        CanGoOn(r) \/ \E q \in Requests : WaitsFor(r, q) /\ CanGoOn(q)

\* Of any number of requests about subscriptions none waits in a circle: it can go
\* on, or waits for one that commits next, since a request writes one row only.
THEOREM DeadlockFreedom == Spec => []NobodyIsStuck
<1>1. ASSUME Inv, NEW r \in Requests, pc[r] \in InFlight, ~CanGoOn(r)
      PROVE  \E q \in Requests : WaitsFor(r, q) /\ CanGoOn(q)
  <2>1. job[r] \in Jobs /\ job[r] # Nothing
      BY <1>1 DEF Inv, TypeOK, JobTypes
  <2>2. job[r].op \in {"on", "off", "detail"}
      BY <2>1 DEF Jobs, Asks
  <2>3. pc[r] # "admitted" /\ pc[r] # "written"
      BY <1>1, <2>2 DEF CanGoOn, CanRead, CanCommit
  <2>4. pc[r] # "checked"
      BY <1>1, <2>1 DEF CanGoOn, CanRead, IsPage, Inv, Remembered, Right
  <2>5. HasRead(r) /\ job[r].op # "detail"
      BY <1>1, <2>1, <2>3, <2>4 DEF CanGoOn, CanRead, IsPage, HasRead, InFlight
  <2>6. seen[r] # Nothing
      BY <1>1, <2>5 DEF HasRead, Inv, Remembered, Right
  <2>7. seen[r] \in States
      BY <1>1, <2>5, <2>6 DEF HasRead, Inv, TypeOK
  <2>8. PICK q \in Requests : WaitsFor(r, q)
      BY <1>1, <2>5, <2>7 DEF CanGoOn, CanWrite, Writes, States
  <2> QED BY <2>8 DEF WaitsFor, CanGoOn, CanCommit
<1>2. Inv => NobodyIsStuck
    BY <1>1 DEF NobodyIsStuck
<1> QED BY <1>2, Invariance, PTL
=============================================================================
