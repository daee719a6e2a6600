-------------------------- MODULE MCBulkSelection --------------------------
(***************************************************************************)
(* Small instances of BulkSelection: a table of two pages.                 *)
(***************************************************************************)
EXTENDS BulkSelection

CONSTANTS a, b

MCPages == <<<<a>>, <<b>>>>
=============================================================================
