--------------------------- MODULE MCChangesFeed ---------------------------
(***************************************************************************)
(* ChangesFeed on small lists, with pages of one object.                   *)
(***************************************************************************)
EXTENDS ChangesFeed
=============================================================================
