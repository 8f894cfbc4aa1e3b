-------------------------- MODULE MCCharacterRoom --------------------------
(* One fan, two actions, two coordinates and one arrangement, two requests. *)
(* Requests are interchangeable, and so are coordinates.                    *)
EXTENDS CharacterRoom, TLC
Symmetry == Permutations(Requests) \cup Permutations(Coordinates)
=============================================================================
