--------------------------- MODULE Subscriptions ---------------------------
(***************************************************************************)
(* The fans of one idol: subscription/service.py, the page of the idol     *)
(* (idol_discovery/service.py) and the policies that let its fans into the *)
(* room.  A subscription is one row for a fan and an idol, created the     *)
(* first time and updated ever after; unsubscribed_at tells whether it is  *)
(* "on" or "off".                                                          *)
(***************************************************************************)
EXTENDS Transactions, FiniteSets, Naturals
CONSTANTS Fans, Idol

VARIABLES subs,     \* the committed row of each person, "never" if there is none
          active,   \* the idol is active (profiles.status, deleted_at)
          newest,   \* who wrote the newest message of the room
          leaving,  \* requests to stop that met no request to start of the same fan
          left      \* fans such a request told that they stopped, until they ask to start

roomVars == <<active, newest, leaving, left>>
vars == <<subs, roomVars, work>>

People == Fans \cup {Idol}
Asks   == [op : {"on", "off", "detail"}, by : People]
Jobs   == Asks \ {[op |-> "on", by |-> Idol]}
States == {"never", "on", "off"}
Pages  == {<<n>> : n \in 0 .. Cardinality(Fans)}
          \cup {<<n, b>> : n \in 0 .. Cardinality(Fans), b \in BOOLEAN}

ASSUME SubscriptionConstants == /\ IsFiniteSet(Fans) /\ Idol \notin Fans
                                /\ Nothing \notin Asks /\ Nothing \notin Pages
                                /\ Nothing \notin States

IsPage(r) == job[r] # Nothing /\ job[r].op = "detail"

TypeOK ==
    /\ subs \in [People -> States] /\ subs[Idol] = "never"
    /\ active \in BOOLEAN
    /\ newest \in People \cup {Nothing}
    /\ leaving \subseteq Requests /\ left \subseteq Fans
    /\ JobTypes(Jobs)
    /\ seen = [r \in Requests |-> seen[r]] /\ draft = [r \in Requests |-> draft[r]]
    /\ \A r \in Requests : {seen[r], draft[r]} \ {Nothing}
                              \subseteq IF IsPage(r) THEN Pages ELSE States

Init == /\ subs = [p \in People |-> "never"]
        /\ active = TRUE /\ newest = Nothing /\ leaving = {} /\ left = {}
        /\ IdleWork

-----------------------------------------------------------------------------
Own(r)   == subs[job[r].by]
Cheerers == {p \in People : subs[p] = "on"}

\* Starting what is on and stopping what is off writes nothing.
Writes(r) == job[r].op # "detail" /\ seen[r] # job[r].op

\* A wrong lock: shared from the SELECT on.
RowIsFreeOfReaders(r) ==
    \A q \in Requests \ {r} :
        ~(pc[q] \in {"read", "written"} /\ job[q].by = job[r].by /\ Writes(q))

\* Nobody else has written the row of r's fan, or inserted its key, and keeps it
\* locked.
RowIsFree(r) == \A q \in Requests \ {r} :
                    ~(pc[q] = "written" /\ job[q].by = job[r].by /\ Writes(q))

\* The requests under way that ask op of person p.
Asking(op, p) == {q \in Requests : job[q] = [op |-> op, by |-> p]}

\* What the fan is told from now on (see LeaversAreOut).
Intends(r, op, p) ==
    /\ left' = IF op = "on" THEN left \ {p} ELSE left
    /\ leaving' = IF op = "on" THEN leaving \ Asking("off", p)
                  ELSE IF op = "off" /\ Asking("on", p) = {} THEN leaving \cup {r}
                  ELSE leaving
    /\ UNCHANGED <<subs, active, newest>>

\* A wrong check: for everybody.
AskUnchecked(r, op, p) == Arrive(r, [op |-> op, by |-> p]) /\ Intends(r, op, p)

\* Whoever cheers for themselves is refused before anything is read.
Ask(r, op, p) ==
    /\ IF op = "on" /\ p = Idol
       THEN pc[r] \notin InFlight /\ Move(r, "refused", Nothing, Nothing, Nothing)
       ELSE Arrive(r, [op |-> op, by |-> p])
    /\ Intends(r, op, p)

\* _active_idol_filter; 404.
FindIdol(r) == /\ pc[r] = "admitted" /\ job[r].op \in {"on", "detail"}
               /\ IF active THEN Checked(r) ELSE Reply(r, "refused")

ReadOwn(r) == /\ \/ pc[r] = "checked" /\ job[r].op = "on"
                 \/ pc[r] = "admitted" /\ job[r].op = "off"
              /\ IF job[r].op = "off" /\ Own(r) = "never" THEN Reply(r, "refused")
                 ELSE Loaded(r, Own(r))

HasRead(r) == pc[r] = "read" /\ ~IsPage(r)

\* A wrong INSERT: ON CONFLICT DO NOTHING.
InsertIgnoringConflict(r) == /\ HasRead(r) /\ seen[r] = "never" /\ RowIsFree(r)
                             /\ Flushed(r, IF Own(r) = "never" THEN seen[r] ELSE "on", "on")

\* The row was missing: INSERT.  If it is there meanwhile the IntegrityError is
\* not handled.
Insert(r) == /\ HasRead(r) /\ seen[r] = "never" /\ RowIsFree(r)
             /\ IF Own(r) = "never" THEN Flushed(r, seen[r], "on") ELSE Reply(r, "error")

\* UPDATE of unsubscribed_at by primary key, whatever it is by now.
Update(r) == /\ HasRead(r) /\ seen[r] \in {"on", "off"} /\ Writes(r) /\ RowIsFree(r)
             /\ Flushed(r, seen[r], job[r].op)

LeaveIt(r) == HasRead(r) /\ seen[r] = job[r].op /\ Flushed(r, seen[r], seen[r])

CountFans(r) == IsPage(r) /\ pc[r] = "checked" /\ Loaded(r, <<Cardinality(Cheerers)>>)

\* The idol itself is never a fan.
LookUp(r) == /\ IsPage(r)
             /\ Flushed(r, seen[r], <<seen[r][1], job[r].by # Idol /\ Own(r) = "on">>)

Step(r) == /\ \/ FindIdol(r) \/ ReadOwn(r) \/ Insert(r) \/ Update(r) \/ LeaveIt(r)
              \/ CountFans(r) \/ LookUp(r)
           /\ leaving' = leaving \ {q \in {r} : pc'[q] \in Answers}
           /\ UNCHANGED <<subs, active, newest, left>>

Commit(r) == /\ pc[r] = "written"
             /\ subs' = IF Writes(r) THEN [subs EXCEPT ![job[r].by] = draft[r]] ELSE subs
             /\ left' = IF r \in leaving THEN left \cup {job[r].by} ELSE left
             /\ leaving' = leaving \ {r}
             /\ Reply(r, "ok")
             /\ UNCHANGED <<active, newest>>

\* Any statement may raise: the session rolls back.
Fail(r) == /\ Reply(r, "error") /\ leaving' = leaving \ {r}
           /\ UNCHANGED <<subs, active, newest, left>>

-----------------------------------------------------------------------------
(* Meanwhile: administrators, and the room (messages, through PostgREST).  *)

SuspendOrRelease == active' = ~active /\ UNCHANGED <<subs, newest, leaving, left, work>>

\* A wrong is_subscribed_to: any row will do.
WriteInWithAnyRow(f) == /\ f \in Fans /\ subs[f] # "never" /\ newest' = f
                        /\ UNCHANGED <<subs, active, leaving, left, work>>

\* messages_insert_fan, is_subscribed_to
WriteIn(f) == /\ f \in Fans /\ subs[f] = "on" /\ newest' = f
              /\ UNCHANGED <<subs, active, leaving, left, work>>

\* messages_insert_idol, is_active_idol
Broadcast == active /\ newest' = Idol /\ UNCHANGED <<subs, active, leaving, left, work>>

Next == \/ SuspendOrRelease \/ Broadcast
        \/ \E f \in Fans : WriteIn(f)
        \/ \E r \in Requests : \/ \E op \in {"on", "off", "detail"}, p \in People : Ask(r, op, p)
                               \/ Step(r) \/ Commit(r) \/ Fail(r)

Spec == Init /\ [][Next]_vars

\* A running request goes on; PostgreSQL queues the waiters of a lock.
FairSpec == Spec /\ \A r \in Requests : SF_vars(Step(r)) /\ WF_vars(Commit(r))

-----------------------------------------------------------------------------
(* Properties                                                              *)

\* A request whose session found what it asks for, or what its page shows.
Found(r) == \/ pc[r] \in {"read", "written"} /\ ~IsPage(r) /\ ~Writes(r)
            \/ pc[r] = "written" /\ IsPage(r)

OutcomeOf(r) == IF Found(r) THEN "met" ELSE IF pc[r] \in InFlight THEN "pending" ELSE pc[r]

ToldOf(r) == IF ~IsPage(r) THEN Nothing ELSE IF pc[r] = "written" THEN draft[r] ELSE seen[r]

Abstract == INSTANCE Cheering WITH cheers <- subs, open <- active, asked <- job,
                                   told <- [r \in Requests |-> ToldOf(r)],
                                   outcome <- [r \in Requests |-> OutcomeOf(r)]

\* Reading, deciding and writing in several statements, with races for the first
\* row and locks, comes to one step per request: see Cheering.
ImplementsCheering == Abstract!Spec

\* A fan who was told that it stopped writes no more into the room from any device,
\* until it asks to start again: no request that was slower brings it back.
LeaversAreOut == [][newest' # newest => newest' \notin left]_vars

\* No request waits for ever.
RequestsAreAnswered == \A r \in Requests : pc[r] \in InFlight ~> pc[r] \in Answers
=============================================================================
