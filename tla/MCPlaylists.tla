---------------------------- MODULE MCPlaylists ----------------------------
(***************************************************************************)
(* Instances of Playlists for TLC: a resource of two media files, which    *)
(* may be added to the playlist more than once.                            *)
(***************************************************************************)
EXTENDS Playlists, TLC

\* Which request is which does not matter.
MCSymmetry == Permutations(Users)

MCOwner == 1 :> 1 @@ 2 :> 1

MCLength == 1 :> 3 @@ 2 :> 5
=============================================================================
