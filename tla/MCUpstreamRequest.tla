-------------------------- MODULE MCUpstreamRequest --------------------------
(* Instances of UpstreamRequest for TLC. *)
EXTENDS UpstreamRequest
===============================================================================
