------------------------------ MODULE Cheering ------------------------------
(***************************************************************************)
(* What the API promises about cheering (subscription/router.py and        *)
(* idol_discovery/router.py): whoever asks to start or to stop cheering    *)
(* for the idol, from whichever device, starts or stops in one step; the   *)
(* last such step wins.  A request that fails or is refused changes        *)
(* nothing, and one that finds what it asks for is answered like one that  *)
(* brought it about.                                                       *)
(***************************************************************************)
EXTENDS FiniteSets, Naturals
CONSTANTS Requests,  \* concurrent requests
          Fans,      \* those who may cheer
          Idol,      \* the idol, who may not
          Nothing    \* nothing asked, nothing told

VARIABLES cheers,   \* what each person does: "never" did, "on" or "off"
          open,     \* the idol is active
          asked,    \* what each request asks
          told,     \* what an answer about the idol will say
          outcome   \* how far each request has come

vars == <<cheers, open, asked, told, outcome>>

People == Fans \cup {Idol}
Jobs   == [op : {"on", "off", "detail"}, by : People]

Cheerers == {p \in People : cheers[p] = "on"}

Init == /\ cheers = [p \in People |-> "never"]
        /\ open = TRUE
        /\ asked = [r \in Requests |-> Nothing]
        /\ told = [r \in Requests |-> Nothing]
        /\ outcome = [r \in Requests |-> "idle"]

Pending(r) == outcome[r] \in {"pending", "met"}

Outcome(r, o, j, t) == /\ outcome' = [outcome EXCEPT ![r] = o]
                       /\ asked' = [asked EXCEPT ![r] = j]
                       /\ told' = [told EXCEPT ![r] = t]

\* Nobody cheers for themselves.
Ask(r, j) == /\ ~Pending(r)
             /\ IF j = [op |-> "on", by |-> Idol] THEN Outcome(r, "refused", Nothing, Nothing)
                ELSE Outcome(r, "pending", j, Nothing)
             /\ UNCHANGED <<cheers, open>>

\* The one step of a request that changes anything, and its answer.
Take(r) == /\ outcome[r] = "pending" /\ asked[r].op \in {"on", "off"}
           /\ asked[r].op = "off" => cheers[asked[r].by] # "never"
           /\ cheers' = [cheers EXCEPT ![asked[r].by] = asked[r].op]
           /\ Outcome(r, "ok", Nothing, Nothing)
           /\ UNCHANGED open

\* The request finds what it asks for.
Find(r) == /\ outcome[r] = "pending" /\ asked[r].op \in {"on", "off"}
           /\ cheers[asked[r].by] = asked[r].op
           /\ Outcome(r, "met", asked[r], Nothing)
           /\ UNCHANGED <<cheers, open>>

\* The page of the idol: the number of fans at one moment, and at a later one
\* whether the viewer is among them.
Count(r) == /\ outcome[r] = "pending" /\ asked[r].op = "detail" /\ told[r] = Nothing
            /\ Outcome(r, "pending", asked[r], <<Cardinality(Cheerers)>>)
            /\ UNCHANGED <<cheers, open>>

LookUp(r) == /\ outcome[r] = "pending" /\ asked[r].op = "detail" /\ told[r] # Nothing
             /\ Outcome(r, "met", asked[r], <<told[r][1], asked[r].by \in Cheerers>>)
             /\ UNCHANGED <<cheers, open>>

Answer(r) == /\ outcome[r] = "met"
             /\ Outcome(r, "ok", Nothing, Nothing)
             /\ UNCHANGED <<cheers, open>>

\* There is no such idol (any more), or nothing to stop.
Refuse(r) == /\ outcome[r] = "pending"
             /\ IF asked[r].op = "off" THEN cheers[asked[r].by] = "never" ELSE ~open
             /\ Outcome(r, "refused", Nothing, Nothing)
             /\ UNCHANGED <<cheers, open>>

Fail(r) == /\ Pending(r)
           /\ Outcome(r, "error", Nothing, Nothing)
           /\ UNCHANGED <<cheers, open>>

OpenOrClose == open' = ~open /\ UNCHANGED <<cheers, asked, told, outcome>>

Next == \/ OpenOrClose
        \/ \E r \in Requests : \/ \E j \in Jobs : Ask(r, j)
                               \/ Take(r) \/ Find(r) \/ Count(r) \/ LookUp(r)
                               \/ Answer(r) \/ Refuse(r) \/ Fail(r)

Spec == Init /\ [][Next]_vars
=============================================================================
