--------------------------- MODULE AdmissionControl ---------------------------
(***************************************************************************)
(* What src/src/shared/queue.js promises its callers, without timers,      *)
(* promises or listeners: at most Capacity requests are inside, at most    *)
(* LineBound stand in line, the line is served first come first served, a  *)
(* place inside never stays empty while somebody stands in line, and every *)
(* request is answered exactly once.  WorkQueue is shown to implement this *)
(* specification.                                                          *)
(***************************************************************************)
EXTENDS Integers, FiniteSets, SequencesExt

CONSTANTS Requests, Capacity, LineBound

VARIABLES inside,  \* the requests that hold a place
          line,    \* the requests in line, oldest first
          answer   \* what each request was told, "none" until it is told

vars == <<inside, line, answer>>

\* The answers of run(): the work's own result or error, the three refusals
\* (line full, waited too long, time used up) and the caller's cancellation.
Answers == {"ok", "error", "late", "cancelled", "overtime"}

Outside(r) == r \notin inside /\ answer[r] = "none" /\ \A i \in DOMAIN line : line[i] # r

Init ==
  /\ inside = {}
  /\ line = <<>>
  /\ answer = [r \in Requests |-> "none"]

\* A free place is taken at once, and never by overtaking somebody in line.
Enter(r) ==
  /\ Outside(r)
  /\ line = <<>>
  /\ Cardinality(inside) < Capacity
  /\ inside' = inside \cup {r}
  /\ UNCHANGED <<line, answer>>

Join(r) ==
  /\ Outside(r)
  /\ Cardinality(inside) = Capacity
  /\ Len(line) < LineBound
  /\ line' = Append(line, r)
  /\ UNCHANGED <<inside, answer>>

\* A caller is told "full" only when the room and the line are both full.
Refuse(r, a) ==
  /\ Outside(r)
  /\ a = "full" => Cardinality(inside) = Capacity /\ Len(line) = LineBound
  /\ answer' = [answer EXCEPT ![r] = a]
  /\ UNCHANGED <<inside, line>>

GiveUp(r, a) ==
  /\ \E i \in DOMAIN line : line[i] = r /\ line' = RemoveAt(line, i)
  /\ answer' = [answer EXCEPT ![r] = a]
  /\ UNCHANGED inside

\* Whoever leaves hands the place to the head of the line in the same step.
Finish(r, a) ==
  /\ r \in inside
  /\ answer' = [answer EXCEPT ![r] = a]
  /\ \/ /\ line = <<>>
        /\ inside' = inside \ {r}
        /\ UNCHANGED line
     \/ /\ line # <<>>
        /\ inside' = (inside \ {r}) \cup {Head(line)}
        /\ line' = Tail(line)

Next ==
  \E r \in Requests :
     \/ Enter(r)
     \/ Join(r)
     \/ \E a \in {"full", "cancelled"} : Refuse(r, a)
     \/ \E a \in {"late", "cancelled"} : GiveUp(r, a)
     \/ \E a \in Answers : Finish(r, a)

Spec == Init /\ [][Next]_vars
===============================================================================
