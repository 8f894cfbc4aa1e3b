------------------------ MODULE ApplicationDecision ------------------------
(***************************************************************************)
(* What the idol application feature (F-035) promises, seen from outside   *)
(* the backend: an application is submitted once, decided once and by one  *)
(* administrator, and an approval gives the applicant a stage name nobody  *)
(* else has, all in one step.  There are no requests, locks or             *)
(* transactions here; IdolApplications implements this specification.      *)
(***************************************************************************)
CONSTANTS Users,    \* people who may sign up and apply
          Admins,   \* administrators who decide applications
          Names,    \* stage names
          NoName,   \* no stage name
          Nobody    \* no administrator

VARIABLES decision,   \* per user: "none", "pending", "approved" or "rejected"
          decidedBy,  \* per user: the administrator who decided, or Nobody
          stageName   \* per user: the stage name the user performs under

vars == <<decision, decidedBy, stageName>>

Taken(n) == \E u \in Users : stageName[u] = n

Init == /\ decision  = [u \in Users |-> "none"]
        /\ decidedBy = [u \in Users |-> Nobody]
        /\ stageName = [u \in Users |-> NoName]

Submit(u) == /\ decision[u] = "none"
             /\ decision' = [decision EXCEPT ![u] = "pending"]
             /\ UNCHANGED <<decidedBy, stageName>>

Approve(u, a, n) == /\ decision[u] = "pending"
                    /\ ~Taken(n)
                    /\ decision'  = [decision  EXCEPT ![u] = "approved"]
                    /\ decidedBy' = [decidedBy EXCEPT ![u] = a]
                    /\ stageName' = [stageName EXCEPT ![u] = n]

Reject(u, a) == /\ decision[u] = "pending"
                /\ decision'  = [decision  EXCEPT ![u] = "rejected"]
                /\ decidedBy' = [decidedBy EXCEPT ![u] = a]
                /\ UNCHANGED stageName

\* An approved idol may later change to a free stage name.
Rename(u, n) == /\ decision[u] = "approved"
                /\ ~Taken(n)
                /\ stageName' = [stageName EXCEPT ![u] = n]
                /\ UNCHANGED <<decision, decidedBy>>

Next == \E u \in Users :
          \/ Submit(u)
          \/ \E a \in Admins : Reject(u, a)
          \/ \E a \in Admins, n \in Names : Approve(u, a, n)
          \/ \E n \in Names : Rename(u, n)

Spec == Init /\ [][Next]_vars
=============================================================================
