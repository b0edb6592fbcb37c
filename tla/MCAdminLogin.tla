----------------------------- MODULE MCAdminLogin -----------------------------
(* Instances of AdminLogin for TLC. *)
EXTENDS AdminLogin

CONSTANTS a1, a2, a3, a4, ip1, ip2

\* Three attempts from one address, one from another.
MCIpOf == [a \in {a1, a2, a3, a4} |-> IF a = a4 THEN ip2 ELSE ip1]

\* The attempts from ip1 are interchangeable, and so are the calls.
LoginSymmetry == Permutations({a1, a2, a3}) \cup Permutations(Calls)
===============================================================================
