---------------------------- MODULE MCPublicQuery ----------------------------
(* Instances of PublicQuery for TLC. *)
EXTENDS PublicQuery
===============================================================================
