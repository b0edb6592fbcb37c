------------------------------ MODULE MCBindings ------------------------------
(* Instances of Bindings for TLC. *)
EXTENDS Bindings, TLC

CONSTANTS t1, t2, t3, a1, a2

\* Two JWTs for one mailbox, one for another.
MCAddressOf == t1 :> a1 @@ t2 :> a1 @@ t3 :> a2

RequestSymmetry == Permutations(Requests)
===============================================================================
