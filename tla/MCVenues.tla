------------------------------ MODULE MCVenues ------------------------------
(* Two markets, a key rotation and a refresh of the venues that fails. *)
EXTENDS Venues
=============================================================================
