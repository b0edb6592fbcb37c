----------------------------- MODULE MCPublicPage -----------------------------
(* Instances of PublicPage for TLC. *)
EXTENDS PublicPage

CONSTANTS a1, a2, b1, noDot

\* a1 and a2 are spellings of one mailbox.
MCKeyOf == [a \in Addresses |-> IF a = a2 THEN a1 ELSE a]
===============================================================================
