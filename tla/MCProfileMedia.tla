--------------------------- MODULE MCProfileMedia ---------------------------
(* ProfileMedia on a small instance. *)
EXTENDS ProfileMedia
=============================================================================
