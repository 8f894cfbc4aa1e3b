----------------------------- MODULE MCChatRoom -----------------------------
(* A room with two old messages, one per page, one message of the fan and   *)
(* one more row for the idol.  The two calls are interchangeable.           *)
EXTENDS ChatRoom
CallsAreAlike == Permutations(Calls)
=============================================================================
