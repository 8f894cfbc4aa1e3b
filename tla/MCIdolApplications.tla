------------------------ MODULE MCIdolApplications ------------------------
(* Two applicants who may choose the same stage name, two administrators,   *)
(* and as many concurrent requests as the configuration gives.              *)
EXTENDS IdolApplications
=============================================================================
