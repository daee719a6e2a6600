-------------------------- MODULE MCSearchIndex --------------------------
(***************************************************************************)
(* Instances of SearchIndex for TLC: two collections of a resource each,   *)
(* of which one has two media files.                                       *)
(***************************************************************************)
EXTENDS SearchIndex, TLC

CONSTANTS c1, c2, r1, r2, f1, f2

MCHome == r1 :> c1 @@ r2 :> c2

MCTurn == [e \in Entities |-> CHOOSE i \in 1..6 : <<f1, f2, r1, r2, c1, c2>>[i] = e]

MCOwner == f1 :> r1 @@ f2 :> r1
=============================================================================
