------------------------------ MODULE MCAdminPage ------------------------------
(* Instances of AdminPage for TLC. *)
EXTENDS AdminPage, TLC

SlotSymmetry == Permutations(Slots)
===============================================================================
