----------------------------- MODULE PublicQuery -----------------------------
(***************************************************************************)
(* POST /api/query of the public service: src/src/public/query-service.js  *)
(* with the fan-out of src/src/shared/mail.js over its worker pool.  A     *)
(* query waits for a slot of the workflow queue, fetches at most MaxMails  *)
(* mails and has all of them parsed at once (Promise.all); the first job   *)
(* that fails ends it while the others go on in the pool.                  *)
(*                                                                         *)
(* The queue is AdmissionControl, which WorkQueue implements, and the pool *)
(* is ParsingService, which MailPool implements.  A fetch is one           *)
(* UpstreamRequest: it ends in time, and never with an answer once it was  *)
(* aborted.                                                                *)
(***************************************************************************)
EXTENDS Integers, FiniteSets, SequencesExt

CONSTANTS Queries,    \* requests, one call of query() each
          Slots,      \* workflowConcurrency
          Line,       \* workflowQueueSize
          MaxMails,   \* limit=10 of /api/mails
          PoolRoom    \* maxQueue of the pool

\* 4 queries of 10 mails fit the 64 places of the pool.
ASSUME QueryAssumption ==
  /\ Slots \in Nat \ {0} /\ Line \in Nat /\ MaxMails \in Nat \ {0}
  /\ PoolRoom \in Nat /\ Slots * MaxMails <= PoolRoom

VARIABLES inside,   \* the queue: queries that hold a slot
          line,     \* the queue: queries in line
          answer,   \* what query() told the caller
          work,     \* of each query: "none", "fetching", "parsing" or "over"
          cut,      \* why the signal of its work is aborted, or "none"
          status    \* the pool: how each mail's job stands, "new" if never submitted

QueryVars == <<inside, line, answer, work, cut, status>>

Mails == Queries \X (1 .. MaxMails)
Of(q) == {q} \X (1 .. MaxMails)

Queue == INSTANCE AdmissionControl WITH
  Requests <- Queries, Capacity <- Slots, LineBound <- Line

Pool == INSTANCE ParsingService WITH Jobs <- Mails, MaxQueue <- PoolRoom

Aborted == {"cancelled", "overtime"}

QueryInit ==
  /\ Queue!Init
  /\ Pool!Init
  /\ work = [q \in Queries |-> "none"]
  /\ cut = [q \in Queries |-> "none"]

Orphans == {m \in Pool!Unanswered : answer[m[1]] # "none"}

-------------------------------------------------------------------------------

\* The binding is read and its JWT decrypted before the queue: there may be none,
\* the database may be locked, the envelope may not open.
NoBinding(q) ==
  /\ \E a \in {"missing", "busy", "error"} : Queue!Refuse(q, a)
  /\ UNCHANGED <<work, cut, status>>

Arrive(q) ==
  /\ \/ Queue!Enter(q)
     \/ Queue!Join(q)
     \/ \E a \in {"full", "cancelled"} : Queue!Refuse(q, a)
  /\ UNCHANGED <<work, cut, status>>

\* The wait is over, or the caller leaves the line.
GiveUp(q) ==
  /\ \E a \in {"late", "cancelled"} : Queue!GiveUp(q, a)
  /\ UNCHANGED <<work, cut, status>>

\* The total time was used up in line.
BeginLate(q) ==
  /\ work[q] = "none"
  /\ Queue!Finish(q, "late")
  /\ work' = [work EXCEPT ![q] = "over"]
  /\ UNCHANGED <<cut, status>>

\* The caller left while its slot was being granted: the work is not begun.
BeginCancelled(q) ==
  /\ work[q] = "none"
  /\ Queue!Finish(q, "cancelled")
  /\ work' = [work EXCEPT ![q] = "over"]
  /\ cut' = [cut EXCEPT ![q] = "cancelled"]
  /\ UNCHANGED status

Begin(q) ==
  /\ q \in inside
  /\ work[q] = "none"
  /\ work' = [work EXCEPT ![q] = "fetching"]
  /\ UNCHANGED <<inside, line, answer, cut, status>>

\* The work of q is over; the queue tells the caller and passes the slot on.
Return(q, how) ==
  /\ work' = [work EXCEPT ![q] = "over"]
  /\ Queue!Finish(q, IF cut'[q] = "none" THEN how ELSE cut'[q])

\* Mutant: a failed job does not end the query (allSettled, waiting for "done").
AwaitDone(q) ==
  IF \A m \in Of(q) : status'[m] \in {"new", "done"} THEN Return(q, "ok")
  ELSE work' = [work EXCEPT ![q] = "parsing"] /\ UNCHANGED <<inside, line, answer>>

\* Promise.all over the jobs of q, as they stand after this step.
AwaitAll(q) ==
  \/ /\ \E m \in Of(q) : status'[m] \in {"failed", "full", "cancelled"}
     /\ Return(q, "error")
  \/ /\ \A m \in Of(q) : status'[m] \in {"new", "done"}
     /\ Return(q, "ok")
  \/ /\ \A m \in Of(q) : status'[m] \in {"new", "done", "pending"}
     /\ \E m \in Of(q) : status'[m] = "pending"
     /\ work' = [work EXCEPT ![q] = "parsing"]
     /\ UNCHANGED <<inside, line, answer>>

FetchFails(q) ==
  /\ work[q] = "fetching"
  /\ UNCHANGED <<cut, status>>
  /\ Return(q, "error")

\* Mutant: the slot is given back when the mails are there.
FetchAnswersReleasing(q) ==
  /\ work[q] = "fetching"
  /\ cut[q] = "none"
  /\ \E toParse \in SUBSET Of(q) : Pool!Submit(toParse)
  /\ UNCHANGED cut
  /\ Return(q, "ok")

\* parseMany: every mail that is neither empty nor too large is submitted at once.
FetchAnswers(q) ==
  /\ work[q] = "fetching"
  /\ cut[q] = "none"
  /\ \E toParse \in SUBSET Of(q) : Pool!Submit(toParse)
  /\ UNCHANGED cut
  /\ AwaitAll(q)

\* A thread answers a mail or dies of it.  The query may be gone.
JobEnds(m) ==
  /\ \E how \in {"done", "failed"} : Pool!End(m, how)
  /\ UNCHANGED cut
  /\ IF work[m[1]] = "parsing" THEN AwaitAll(m[1])
     ELSE UNCHANGED <<inside, line, answer, work>>

\* Mutant: the jobs are not given the signal.
CutWork(q, why) ==
  /\ work[q] \in {"fetching", "parsing"}
  /\ cut[q] = "none"
  /\ cut' = [cut EXCEPT ![q] = why]
  /\ IF work[q] = "parsing" THEN Return(q, why)
     ELSE UNCHANGED <<inside, line, answer, work>>
  /\ UNCHANGED status

\* Mutant: the caller is answered, and the slot passed on, while the fetch goes on.
CutAtOnce(q, why) ==
  /\ work[q] \in {"fetching", "parsing"}
  /\ cut[q] = "none"
  /\ cut' = [cut EXCEPT ![q] = why]
  /\ Pool!Cancel(Of(q) \cap Pool!Unanswered)
  /\ Queue!Finish(q, why)
  /\ UNCHANGED work

\* The caller's abort or the total timer: the listeners of the jobs run in the same
\* turn and the query ends with them; a fetch must end first.
Cut(q, why) ==
  /\ work[q] \in {"fetching", "parsing"}
  /\ cut[q] = "none"
  /\ cut' = [cut EXCEPT ![q] = why]
  /\ Pool!Cancel(Of(q) \cap Pool!Unanswered)
  /\ IF work[q] = "parsing" THEN AwaitAll(q)
     ELSE UNCHANGED <<inside, line, answer, work>>

Step(q) == BeginLate(q) \/ BeginCancelled(q) \/ Begin(q) \/ FetchFails(q) \/ FetchAnswers(q)

QueryNext ==
  \/ \E q \in Queries :
       \/ NoBinding(q) \/ Arrive(q) \/ GiveUp(q) \/ Step(q)
       \/ \E why \in Aborted : Cut(q, why)
  \/ \E m \in Mails : JobEnds(m)

QuerySpec == QueryInit /\ [][QueryNext]_QueryVars

\* The queue runs what it admits, fetches end (UpstreamRequest!RequestEnds) and the
\* pool answers (MailPool!EveryJobAnswered).  Nobody has to give up.
FairQuerySpec ==
  /\ QuerySpec
  /\ \A q \in Queries : WF_QueryVars(Step(q))
  /\ \A m \in Mails : WF_QueryVars(JobEnds(m))

-------------------------------------------------------------------------------

\* "4 upstream lanes" (concurrency.test.js): never more fetches at a time than the
\* queue has slots, the fetches of queries that were cancelled included.
UpstreamLanes == Cardinality({q \in Queries : work[q] = "fetching"}) <= Slots

\* A query that was cancelled or ran out of time leaves nothing in the pool, and one
\* that is answered "ok" was not given up before and has had every mail parsed.
AnswersAccountForJobs ==
  /\ \A m \in Pool!Unanswered : cut[m[1]] = "none"
  /\ \A q \in Queries : answer[q] = "ok" =>
       cut[q] = "none" /\ \A m \in Of(q) : status[m] \in {"new", "done"}

\* Only a query that failed leaves jobs behind, and only behind such jobs is a mail
\* ever refused for want of room: the queries in their slots cannot crowd out each
\* other, but failed ones, whose jobs nobody waits for any more, can.
RefusedOnlyBehindOrphans ==
  [][\A m \in Mails : status[m] # "full" /\ status'[m] = "full" =>
       /\ Orphans # {}
       /\ \A o \in Orphans : answer[o[1]] = "error"]_QueryVars

\* Every query that got into the queue is answered.
EveryQueryAnswered ==
  \A q \in Queries :
    (q \in inside \/ \E i \in DOMAIN line : line[i] = q) ~> answer[q] # "none"
===============================================================================
