---------------------------- MODULE MCModeration ----------------------------
(* One fan with a message of its own, one idol, two administrators, one of  *)
(* whom may be suspended by the other.                                      *)
EXTENDS Moderation
CONSTANTS f1, i1, m2
MCSender == [m \in Messages |-> IF m = m2 THEN f1 ELSE i1]
=============================================================================
