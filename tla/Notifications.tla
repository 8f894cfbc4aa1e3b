--------------------------- MODULE Notifications ---------------------------
(***************************************************************************)
(* Push tokens of devices and notification settings of one user            *)
(* (notification/service.py).  A device token is a row of device_tokens,   *)
(* unique by token; it belongs to the account that last registered it.     *)
(* The settings are a SharedRow with one Boolean column for each kind of   *)
(* push; the rows of different users share nothing, so one is enough.      *)
(* Nothing in the repository sends pushes yet; what a sender would consult *)
(* is Pushed and Enabled.                                                  *)
(***************************************************************************)
EXTENDS Transactions
CONSTANTS Users,    \* accounts that use the devices
          Tokens,   \* FCM tokens
          Ids,      \* primary keys of device_tokens
          Kinds,    \* kinds of push the settings know
          Unset     \* a setting left out of a PATCH

VARIABLES tokens,   \* the committed row of each token
          row       \* the committed settings of the user

vars == <<tokens, row, work>>

DefaultPrefs == [k \in Kinds |-> k # "marketing"]

Prefs == INSTANCE SharedRow WITH Columns <- Kinds, Values <- [k \in Kinds |-> BOOLEAN],
                                 Default <- DefaultPrefs, AlwaysUpdates <- TRUE

TokenRows == [id : Ids, user : Users]
TokenJobs == [op : {"register", "unregister"}, user : Users, token : Tokens]
PrefsJobs == [op : {"prefs"}, patch : [Kinds -> BOOLEAN \cup {Unset}]]

ASSUME NotificationConstants == /\ Kinds \subseteq {"new_message", "idol_reply", "marketing"}
                                /\ Kinds # {} /\ Unset \notin BOOLEAN
                                /\ Nothing \notin TokenRows \cup TokenJobs \cup PrefsJobs
                                /\ Nothing \notin [Kinds -> BOOLEAN]

IsToken(r) == job[r] # Nothing /\ job[r].op \in {"register", "unregister"}
IsPrefs(r) == job[r] # Nothing /\ job[r].op = "prefs"

TypeOK ==
    /\ tokens \in [Tokens -> TokenRows \cup {Nothing}]
    /\ row \in [Kinds -> BOOLEAN] \cup {Nothing}
    /\ WorkTypes(TokenJobs \cup PrefsJobs, TokenRows \cup [Kinds -> BOOLEAN],
                 TokenRows \cup [Kinds -> BOOLEAN])
    /\ \A r \in Requests : {seen[r], draft[r]} \ {Nothing}
                              \subseteq IF IsPrefs(r) THEN [Kinds -> BOOLEAN] ELSE TokenRows

Init == /\ tokens = [t \in Tokens |-> Nothing]
        /\ Prefs!RowInit
        /\ IdleWork

-----------------------------------------------------------------------------
(* What a sender consults.                                                 *)

\* get_active_tokens_for_user
Pushed(u) == {t \in Tokens : tokens[t] # Nothing /\ tokens[t].user = u}

\* A wrong table of defaults.
EnabledByDefault(k) == IF row = Nothing THEN TRUE ELSE row[k]

\* is_notification_enabled, with the defaults it keeps apart from those of the table.
Enabled(k) == IF row = Nothing THEN k \in {"new_message", "idol_reply"} ELSE row[k]

-----------------------------------------------------------------------------
(* POST and DELETE /notification/device-tokens                             *)

\* r has written the row of token t, or the key it inserts, and keeps it locked.
\* A DELETE that found no row holds nothing: its seen[r] is Nothing.
HoldsToken(r, t) == /\ pc[r] = "written" /\ IsToken(r) /\ job[r].token = t
                    /\ job[r].op = "unregister" => seen[r] # Nothing

TokenIsFree(r) == \A q \in Requests \ {r} : ~HoldsToken(q, job[r].token)

TokenRow(r) == tokens[job[r].token]

\* The row r loaded is still there.
StillThere(r) == TokenRow(r) # Nothing /\ TokenRow(r).id = seen[r].id

\* gen_random_uuid: a key no row has and no session remembers.
FreshId(i) == /\ \A t \in Tokens : tokens[t] # Nothing => tokens[t].id # i
              /\ \A q \in Requests : /\ IsToken(q) /\ seen[q] # Nothing => seen[q].id # i
                                     /\ IsToken(q) /\ draft[q] # Nothing => draft[q].id # i

Register(r, u, t)   == Arrive(r, [op |-> "register", user |-> u, token |-> t])
Unregister(r, u, t) == Arrive(r, [op |-> "unregister", user |-> u, token |-> t])

RegisterRead(r) == job[r].op = "register" /\ Loaded(r, TokenRow(r))

\* The token is new: INSERT, refused if a concurrent request was first.
RegisterInsert(r) ==
    /\ job[r].op = "register" /\ pc[r] = "read" /\ seen[r] = Nothing /\ TokenIsFree(r)
    /\ IF TokenRow(r) = Nothing
       THEN \E i \in Ids : FreshId(i) /\ Flushed(r, Nothing, [id |-> i, user |-> job[r].user])
       ELSE Reply(r, "error")

\* The row as the UPDATE leaves it: an owner that SQLAlchemy finds unchanged since
\* the SELECT is not written again.
Reassigned(r) == [TokenRow(r) EXCEPT !.user = IF seen[r].user = job[r].user
                                              THEN @ ELSE job[r].user]

\* A wrong UPDATE: it does not notice that its row is gone.
RegisterUpdateUnchecked(r) ==
    /\ job[r].op = "register" /\ pc[r] = "read" /\ seen[r] # Nothing /\ TokenIsFree(r)
    /\ Flushed(r, seen[r], IF StillThere(r) THEN Reassigned(r) ELSE TokenRow(r))

\* UPDATE ... WHERE id = the row loaded, also when it belongs to somebody else.  A
\* row that is gone is a StaleDataError.
RegisterUpdate(r) ==
    /\ job[r].op = "register" /\ pc[r] = "read" /\ seen[r] # Nothing /\ TokenIsFree(r)
    /\ IF StillThere(r) THEN Flushed(r, seen[r], Reassigned(r)) ELSE Reply(r, "error")

OwnRow(r) == IF TokenRow(r) # Nothing /\ TokenRow(r).user = job[r].user
             THEN TokenRow(r) ELSE Nothing

\* A wrong SELECT: whoever the row belongs to.
UnregisterReadAny(r) == job[r].op = "unregister" /\ Loaded(r, TokenRow(r))

UnregisterRead(r) == job[r].op = "unregister" /\ Loaded(r, OwnRow(r))

\* DELETE ... WHERE id = the row loaded, if there was one.
UnregisterDelete(r) ==
    /\ job[r].op = "unregister" /\ pc[r] = "read"
    /\ seen[r] # Nothing => TokenIsFree(r)
    /\ Flushed(r, IF seen[r] # Nothing /\ StillThere(r) THEN seen[r] ELSE Nothing, Nothing)

TokenStep(r) == /\ IsToken(r)
                /\ \/ RegisterRead(r) \/ RegisterInsert(r) \/ RegisterUpdate(r)
                   \/ UnregisterRead(r) \/ UnregisterDelete(r)
                /\ UNCHANGED <<tokens, row>>

TokenCommit(r) ==
    /\ IsToken(r) /\ pc[r] = "written" /\ Reply(r, "ok")
    /\ tokens' = IF HoldsToken(r, job[r].token)
                 THEN [tokens EXCEPT ![job[r].token] = draft[r]] ELSE tokens
    /\ UNCHANGED row

-----------------------------------------------------------------------------
(* GET and PATCH /notification/prefs                                       *)

\* GET creates the row too: it is a PATCH of nothing, which PATCH refuses to be.
GetPrefs(r) == Arrive(r, [op |-> "prefs", patch |-> [k \in Kinds |-> Unset]])

PatchPrefs(r, patch) == /\ \E k \in Kinds : patch[k] # Unset
                        /\ Arrive(r, [op |-> "prefs", patch |-> patch])

PrefsStep(r) == IsPrefs(r) /\ Prefs!RowStep(r) /\ UNCHANGED tokens

PrefsCommit(r) == IsPrefs(r) /\ Prefs!RowCommit(r) /\ UNCHANGED tokens

-----------------------------------------------------------------------------
Ask(r) == /\ \/ \E u \in Users, t \in Tokens : Register(r, u, t) \/ Unregister(r, u, t)
             \/ GetPrefs(r)
             \/ \E patch \in [Kinds -> BOOLEAN \cup {Unset}] : PatchPrefs(r, patch)
          /\ UNCHANGED <<tokens, row>>

Step(r) == TokenStep(r) \/ PrefsStep(r)

Commit(r) == TokenCommit(r) \/ PrefsCommit(r)

\* Any statement may raise: the session rolls back.
Fail(r) == Reply(r, "error") /\ UNCHANGED <<tokens, row>>

Next == \E r \in Requests : Ask(r) \/ Step(r) \/ Commit(r) \/ Fail(r)

Spec == Init /\ [][Next]_vars

\* A running request goes on; PostgreSQL queues the waiters of a lock.
FairSpec == Spec /\ \A r \in Requests : SF_vars(Step(r)) /\ WF_vars(Commit(r))

-----------------------------------------------------------------------------
(* Properties                                                              *)

\* An account that is told its token is registered gets its pushes on this device,
\* unless it owned the token before and lost it in the meantime: a row that vanished
\* or appeared after the SELECT is an error, never a silent no.
RegisteredIsPushed ==
    [][\A r \in Requests, u \in Users, t \in Tokens :
          Commits(r) /\ job[r] = [op |-> "register", user |-> u, token |-> t]
             => t \in Pushed(u)' \/ (seen[r] # Nothing /\ seen[r].user = u)]_vars

\* A token loses its row only by the request of an account whose row this was when
\* the request looked: never by the sign-out of an account that had lost it before.
OwnersSignOff ==
    [][\A t \in Tokens : tokens[t] # Nothing /\ tokens'[t] = Nothing
          => \E r \in Requests : /\ Commits(r) /\ job[r].op = "unregister"
                                 /\ seen[r] # Nothing
                                 /\ seen[r].id = tokens[t].id
                                 /\ seen[r].user = job[r].user]_vars

\* What a sender is told about a setting changes only when a PATCH that asked for it
\* commits.  In particular opening the settings, which creates the row, turns no
\* kind of push on or off, nor does a PATCH of another kind.
SettingsAreHonoured ==
    [][\A k \in Kinds : Enabled(k)' # Enabled(k)
          => \E r \in Requests : /\ Commits(r) /\ job[r].op = "prefs"
                                 /\ job[r].patch[k] = Enabled(k)']_vars

\* No request waits for ever.
RequestsAreAnswered == \A r \in Requests : pc[r] \in InFlight ~> pc[r] \in Answers
=============================================================================
