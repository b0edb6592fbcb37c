------------------------------ MODULE MCMailPool ------------------------------
(* Instances of MailPool for TLC. *)
EXTENDS MailPool

\* Two threads in their slots and one that was told to stop or has crashed.  A
\* step that would need a fourth thread waits for that one's exit.
MCWorkers == 1 .. 3
===============================================================================
