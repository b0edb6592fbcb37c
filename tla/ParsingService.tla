---------------------------- MODULE ParsingService ----------------------------
(***************************************************************************)
(* What the worker pool of src/src/shared/mail.js promises the queries     *)
(* that submit mails to it, without threads, slots or messages: it has     *)
(* room for MaxQueue unanswered jobs, refuses only what does not fit,      *)
(* settles an aborted job at once and answers every other job once.        *)
(* MailPool is shown to implement this specification; PublicQuery uses it. *)
(***************************************************************************)
EXTENDS Integers, FiniteSets

CONSTANTS Jobs, MaxQueue

VARIABLE status   \* how the promise of each job stands

Unanswered == {j \in Jobs : status[j] = "pending"}

Init == status = [j \in Jobs |-> "new"]

\* The jobs of one turn of the event loop: as many are accepted as there is room.
Submit(S) ==
  /\ \A j \in S : status[j] = "new"
  /\ \E accepted \in SUBSET S :
       LET room == MaxQueue - Cardinality(Unanswered)
       IN /\ Cardinality(accepted) = IF Cardinality(S) < room THEN Cardinality(S) ELSE room
          /\ status' = [j \in Jobs |-> IF j \in accepted THEN "pending"
                                       ELSE IF j \in S THEN "full"
                                       ELSE status[j]]

SubmitAborted(j) ==
  /\ status[j] = "new"
  /\ status' = [status EXCEPT ![j] = "cancelled"]

\* One abort cancels every unanswered job that listens to it.
Cancel(S) ==
  /\ S \subseteq Unanswered
  /\ status' = [j \in Jobs |-> IF j \in S THEN "cancelled" ELSE status[j]]

End(j, how) ==
  /\ status[j] = "pending"
  /\ status' = [status EXCEPT ![j] = how]

Next ==
  \E j \in Jobs :
     \/ Submit({j})
     \/ SubmitAborted(j)
     \/ Cancel({j})
     \/ \E how \in {"done", "failed"} : End(j, how)

Spec == Init /\ [][Next]_status
===============================================================================
