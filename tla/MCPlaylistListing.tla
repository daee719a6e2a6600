------------------------- MODULE MCPlaylistListing -------------------------
(***************************************************************************)
(* A small instance of PlaylistListing: three entries in pages of one.     *)
(***************************************************************************)
EXTENDS PlaylistListing

MCMatches == [all |-> Entries, two |-> {2, 3}, none |-> {}, short |-> {1, 3}]
=============================================================================
