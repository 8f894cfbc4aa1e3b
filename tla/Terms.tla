------------------------------- MODULE Terms -------------------------------
(***************************************************************************)
(* Agreeing again to terms that changed (auth/service.py: reagree,         *)
(* _get_stale_agreement_types).  One user, signed up with the first        *)
(* versions.  The current version of each document is a constant of the    *)
(* deployed backend; rows of terms_agreements are added and never changed. *)
(* A request is served by the backend that is deployed when its            *)
(* transaction begins, and judged by its versions until the end.           *)
(* Failures other than the IntegrityError roll back and are left out.      *)
(***************************************************************************)
EXTENDS Transactions, SequencesExt, FiniteSetsExt, Naturals
CONSTANT MaxVersion   \* bounds the deployments

VARIABLES history,  \* the versions of each document agreed to, in the order of commits
          current   \* _CURRENT_TERMS_VERSIONS of the deployed backend

vars == <<history, current, work>>

Mandatory == {"tos", "privacy"}
Types     == Mandatory \cup {"marketing"}
Versions  == 1 .. MaxVersion

\* What a request that passed validation says yes to, and the versions it is judged by.
Jobs == [yes : {Mandatory, Types}, version : [Types -> Versions]]

ASSUME TermsConstants == MaxVersion \in Nat \ {0} /\ Nothing \notin Jobs

Agreed(t) == ToSet(history[t])

TypeOK == /\ history \in [Types -> Seq(Versions)]
          /\ \A t \in Types : IsInjective(history[t])
          /\ current \in [Types -> Versions]
          /\ WorkTypes(Jobs, {}, {})

Init == /\ \E signed \in {Mandatory, Types} :
              history = [t \in Types |-> IF t \in signed THEN <<1>> ELSE <<>>]
        /\ current = [t \in Types |-> 1]
        /\ IdleWork

-----------------------------------------------------------------------------
\* A wrong order: by commit.
LatestCommitted(t) == IF history[t] = <<>> THEN 0 ELSE Last(history[t])

\* The row with the latest agreed_at, which is the time its transaction began: of the
\* versions agreed to, the one deployed last.
Latest(t) == IF history[t] = <<>> THEN 0 ELSE Max(Agreed(t))

\* needs_reagree of GET /auth/me
Stale == {t \in Types : /\ Latest(t) # current[t]
                        /\ t \in Mandatory \/ history[t] # <<>>}

\* POST /auth/terms/reagree: 422 (_validate_agreements) unless it says yes to both
\* mandatory documents and names the current versions.
Reagree(r, yes, fresh) ==
    /\ IF fresh /\ Mandatory \subseteq yes THEN Arrive(r, [yes |-> yes, version |-> current])
       ELSE pc[r] \notin InFlight /\ Move(r, "refused", Nothing, Nothing, Nothing)
    /\ UNCHANGED <<history, current>>

\* The unique keys r inserts.
Keys(r) == {<<t, job[r].version[t]>> : t \in job[r].yes}

\* A wrong schema: without UNIQUE (user_id, type, version).
KeysAreIgnored(r) == TRUE

KeysAreFree(r) == \A q \in Requests \ {r} : pc[q] = "written" => Keys(q) \cap Keys(r) = {}

IsDuplicate(t, v) == v \in Agreed(t)

Inserts(r) == /\ pc[r] = "admitted" /\ KeysAreFree(r)
              /\ UNCHANGED <<history, current>>

\* A wrong INSERT: ON CONFLICT DO NOTHING, row by row.
InsertNewOnly(r) ==
    /\ Inserts(r)
    /\ Move(r, "written",
            [job[r] EXCEPT !.yes = {t \in @ : ~IsDuplicate(t, job[r].version[t])}],
            Nothing, Nothing)

\* All the rows in one flush; one duplicate (user, type, version) and none is stored.
Insert(r) ==
    /\ Inserts(r)
    /\ IF \E t \in job[r].yes : IsDuplicate(t, job[r].version[t]) THEN Reply(r, "error")
       ELSE Move(r, "written", job[r], Nothing, Nothing)

Commit(r) == /\ pc[r] = "written" /\ Reply(r, "ok")
             /\ history' = [t \in Types |-> IF t \in job[r].yes
                                            THEN Append(history[t], job[r].version[t])
                                            ELSE history[t]]
             /\ UNCHANGED current

\* Some documents change.
Deploy(docs) == /\ docs # {} /\ \A t \in docs : current[t] < MaxVersion
                /\ current' = [t \in Types |-> IF t \in docs THEN current[t] + 1 ELSE current[t]]
                /\ UNCHANGED <<history, work>>

Next == \/ \E docs \in SUBSET Types : Deploy(docs)
        \/ \E r \in Requests : \/ \E yes \in SUBSET Types, fresh \in BOOLEAN :
                                     Reagree(r, yes, fresh)
                               \/ Insert(r) \/ Commit(r)

Spec == Init /\ [][Next]_vars

-----------------------------------------------------------------------------
(* Properties                                                              *)

\* Terms of service and privacy policy are agreed to together, every time: whatever
\* is refused, collides or races, one is never on record without the other.
ConsentIsWhole == Len(history["tos"]) = Len(history["privacy"])

\* Who agreed is not asked again: an agreement to the current versions settles the
\* mandatory documents, and only a deployment unsettles them, not the late commit of
\* an agreement to older versions.
AgreedStaysAgreed ==
    [][current' = current =>
          /\ (Stale \cap Mandatory)' \subseteq Stale
          /\ \A r \in Requests : Commits(r) /\ job[r].version = current
                                    => (Stale \cap Mandatory)' = {}]_vars

\* Somebody who must agree again and sends a valid agreement is not answered with an
\* error.
ReagreeIsAccepted ==
    [][\A r \in Requests :
          /\ pc[r] = "admitted" /\ job[r].version = current
          /\ Stale \cap Mandatory # {}
          => pc'[r] # "error"]_vars
=============================================================================
