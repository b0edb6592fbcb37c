------------------------------- MODULE MailPool -------------------------------
(***************************************************************************)
(* src/src/shared/mail.js, class MailWorkerPool: the worker threads that   *)
(* parse MIME bodies for the public service.  The pool runs on the main    *)
(* event loop; its threads run beside it and talk to it by messages and by *)
(* their error and exit events.  An action is one call or one event        *)
(* handler of the pool, #dispatch at its end included, or one step of a    *)
(* thread.                                                                 *)
(*                                                                         *)
(* The pool's view of a thread (slots, dead, job) and the thread itself    *)
(* (thread, inbox, reply) are separate variables: they disagree while a    *)
(* message or an event is on its way.                                      *)
(***************************************************************************)
EXTENDS Integers, FiniteSets, SequencesExt

CONSTANTS Jobs,      \* the calls of submit()
          Workers,   \* thread identities; the least free one is used next
          Size,      \* size: threads of the pool
          MaxQueue,  \* maxQueue: jobs of the pool, the active ones included
          NoJob      \* null

\* Every spawn is for one job, so |Jobs| identities never run out; fewer are a
\* bound on the threads that have not exited yet.
ASSUME PoolAssumption ==
  /\ Workers \subseteq Nat
  /\ Size \in Nat \ {0}
  /\ MaxQueue \in Nat \ {0}
  /\ NoJob \notin Jobs

VARIABLES queue,   \* #queue
          slots,   \* #slots
          dead,    \* slot.dead, of threads that have not exited yet
          job,     \* slot.job; job.slot is its inverse while a job is pending
          thread,  \* the thread itself: up, crashed, told to stop, or none
          inbox,   \* the job posted to the thread and not parsed yet
          reply,   \* the thread's answer on its way to the pool
          status   \* how the promise of submit() stands

vars == <<queue, slots, dead, job, thread, inbox, reply, status>>

Threads == {"none", "up", "crashed", "stopping"}
Statuses == {"new", "pending", "done", "failed", "cancelled", "full"}

TypeOK ==
  /\ queue \in Seq(Jobs)
  /\ slots \in SUBSET Workers
  /\ dead \in SUBSET Workers
  /\ job \in [Workers -> Jobs \cup {NoJob}]
  /\ thread \in [Workers -> Threads]
  /\ inbox \in [Workers -> Jobs \cup {NoJob}]
  /\ reply \in [Workers -> Jobs \cup {NoJob}]
  /\ status \in [Jobs -> Statuses]

Init ==
  /\ queue = <<>>
  /\ slots = {}
  /\ dead = {}
  /\ job = [w \in Workers |-> NoJob]
  /\ thread = [w \in Workers |-> "none"]
  /\ inbox = [w \in Workers |-> NoJob]
  /\ reply = [w \in Workers |-> NoJob]
  /\ status = [j \in Jobs |-> "new"]

\* The getter active.
Active == {w \in slots : job[w] # NoJob}

-------------------------------------------------------------------------------
(* #dispatch, as a relation from the pool that its caller leaves behind (the  *)
(* queue q, the slots S, their jobs J, the threads T and inboxes I) to the    *)
(* next state: the first n jobs go to n different threads, to idle slots      *)
(* first and to fresh ones up to Size, and n is as large as the queue and the *)
(* room allow.  The order of #slots among idle slots is left open.  A settled *)
(* job in the queue would be skipped (line 90); there is none (JobInOnePlace).*)

Idle(S, J) == {w \in S \ dead : J[w] = NoJob}
Smaller(m, n) == IF m < n THEN m ELSE n

Dispatch(q, S, J, T, I) ==
  LET room == Cardinality(Idle(S, J)) + Size - Cardinality(S)
      n == IF room > 0 THEN Smaller(Len(q), room) ELSE 0
      fresh == {w \in Workers : T[w] = "none"}
  IN \E to \in [1 .. n -> Idle(S, J) \cup fresh] :
       LET taken == {to[i] : i \in 1 .. n}
           spawned == taken \ S
       IN /\ \A i, k \in 1 .. n : to[i] = to[k] => i = k
          /\ spawned # {} => Idle(S, J) \subseteq taken
          /\ \A v \in spawned, w \in fresh \ spawned : v < w
          /\ queue' = SubSeq(q, n + 1, Len(q))
          /\ slots' = S \cup spawned
          /\ job' = [w \in Workers |->
                       IF w \in taken THEN q[CHOOSE i \in 1 .. n : to[i] = w] ELSE J[w]]
          /\ thread' = [w \in Workers |-> IF w \in spawned THEN "up" ELSE T[w]]
          /\ inbox' = [w \in Workers |-> IF w \in taken THEN job'[w] ELSE I[w]]

\* #settle
Settle(j, how) == status' = [status EXCEPT ![j] = how]

-------------------------------------------------------------------------------
(* submit() *)

SubmitAborted(j) ==
  /\ status[j] = "new"
  /\ Settle(j, "cancelled")
  /\ UNCHANGED <<queue, slots, dead, job, thread, inbox, reply>>

SubmitFull(j) ==
  /\ status[j] = "new"
  /\ Len(queue) + Cardinality(Active) >= MaxQueue
  /\ Settle(j, "full")
  /\ UNCHANGED <<queue, slots, dead, job, thread, inbox, reply>>

\* Mutant: the limit leaves out the jobs that are being parsed.
SubmitCountingTheQueueOnly(j) ==
  /\ status[j] = "new"
  /\ Len(queue) < MaxQueue
  /\ Settle(j, "pending")
  /\ Dispatch(Append(queue, j), slots, job, thread, inbox)
  /\ UNCHANGED <<dead, reply>>

Submit(j) ==
  /\ status[j] = "new"
  /\ Len(queue) + Cardinality(Active) < MaxQueue
  /\ Settle(j, "pending")
  /\ Dispatch(Append(queue, j), slots, job, thread, inbox)
  /\ UNCHANGED <<dead, reply>>

-------------------------------------------------------------------------------
(* #abort: a queued job is taken out.  An active one takes its thread with   *)
(* it: the slot is given up at once, but the queue is only looked at again   *)
(* when the thread has really stopped.                                       *)

\* Mutant: the settled job stays in the queue.
AbortQueuedLeavingTheJob(j) ==
  /\ status[j] = "pending"
  /\ \A w \in Workers : job[w] # j
  /\ Settle(j, "cancelled")
  /\ UNCHANGED <<queue, slots, dead, job, thread, inbox, reply>>

AbortQueued(j) ==
  /\ status[j] = "pending"
  /\ \A w \in Workers : job[w] # j
  /\ queue' = RemoveFirst(queue, j)
  /\ Settle(j, "cancelled")
  /\ UNCHANGED <<slots, dead, job, thread, inbox, reply>>

\* Mutant: the slot is freed for the next job without stopping its thread.
AbortActiveKeepingTheThread(w) ==
  /\ job[w] # NoJob
  /\ job' = [job EXCEPT ![w] = NoJob]
  /\ Settle(job[w], "cancelled")
  /\ UNCHANGED <<queue, slots, dead, thread, inbox, reply>>

AbortActive(w) ==
  /\ job[w] # NoJob
  /\ dead' = dead \cup {w}
  /\ slots' = slots \ {w}
  /\ job' = [job EXCEPT ![w] = NoJob]
  /\ thread' = [thread EXCEPT ![w] = "stopping"]
  /\ Settle(job[w], "cancelled")
  /\ UNCHANGED <<queue, inbox, reply>>

\* Mutant: no dispatch after terminate().
StoppedExitWithoutDispatch(w) ==
  /\ thread[w] = "stopping"
  /\ reply[w] = NoJob
  /\ dead' = dead \ {w}
  /\ thread' = [thread EXCEPT ![w] = "none"]
  /\ inbox' = [inbox EXCEPT ![w] = NoJob]
  /\ UNCHANGED <<queue, slots, job, reply, status>>

\* terminate() resolves with the exit of the thread; its exit handler finds the
\* slot dead, and the finally dispatches.
StoppedExit(w) ==
  /\ thread[w] = "stopping"
  /\ reply[w] = NoJob
  /\ dead' = dead \ {w}
  /\ Dispatch(queue, slots, job, [thread EXCEPT ![w] = "none"], [inbox EXCEPT ![w] = NoJob])
  /\ UNCHANGED <<reply, status>>

-------------------------------------------------------------------------------
(* The threads.  mail-worker.js answers every job it is given, unless it is  *)
(* stopped or fails first; what it posted before that still arrives, and a   *)
(* thread exits only when its port is drained.                               *)

Parse(w) ==
  /\ thread[w] \in {"up", "stopping"}
  /\ inbox[w] # NoJob
  /\ reply' = [reply EXCEPT ![w] = inbox[w]]
  /\ inbox' = [inbox EXCEPT ![w] = NoJob]
  /\ UNCHANGED <<queue, slots, dead, job, thread, status>>

\* #message: an answer of a dead slot, or to a job the slot no longer has, is
\* dropped.
MessageDropped(w) ==
  /\ reply[w] # NoJob
  /\ w \in dead \/ job[w] # reply[w]
  /\ reply' = [reply EXCEPT ![w] = NoJob]
  /\ UNCHANGED <<queue, slots, dead, job, thread, inbox, status>>

MessageAccepted(w) ==
  /\ reply[w] # NoJob
  /\ w \notin dead
  /\ job[w] = reply[w]
  /\ reply' = [reply EXCEPT ![w] = NoJob]
  /\ Settle(job[w], "done")
  /\ Dispatch(queue, slots, [job EXCEPT ![w] = NoJob], thread, inbox)
  /\ UNCHANGED dead

\* #workerFailed, and the exit handler's own branch for code 0: the job of the
\* thread, if any, fails, and the queue moves on without it.
LoseSlot(w, T) ==
  /\ w \notin dead
  /\ status' = [j \in Jobs |-> IF j = job[w] THEN "failed" ELSE status[j]]
  /\ Dispatch(queue, slots \ {w}, [job EXCEPT ![w] = NoJob], T, [inbox EXCEPT ![w] = NoJob])

\* The error event comes first; the exit event that follows finds the slot dead.
ErrorEvent(w) ==
  /\ thread[w] = "up"
  /\ LoseSlot(w, [thread EXCEPT ![w] = "crashed"])
  /\ dead' = dead \cup {w}
  /\ UNCHANGED reply

CrashedExit(w) ==
  /\ thread[w] = "crashed"
  /\ reply[w] = NoJob
  /\ thread' = [thread EXCEPT ![w] = "none"]
  /\ dead' = dead \ {w}
  /\ UNCHANGED <<queue, slots, job, inbox, reply, status>>

\* An exit with no error before it, with any code.
SilentExit(w) ==
  /\ thread[w] = "up"
  /\ reply[w] = NoJob
  /\ LoseSlot(w, [thread EXCEPT ![w] = "none"])
  /\ UNCHANGED <<dead, reply>>

Next ==
  \/ \E j \in Jobs : SubmitAborted(j) \/ SubmitFull(j) \/ Submit(j) \/ AbortQueued(j)
  \/ \E w \in Workers :
       \/ AbortActive(w) \/ StoppedExit(w) \/ Parse(w)
       \/ MessageDropped(w) \/ MessageAccepted(w)
       \/ ErrorEvent(w) \/ CrashedExit(w) \/ SilentExit(w)

Spec == Init /\ [][Next]_vars

\* A thread answers, a message arrives, and a thread that was told to stop or
\* has crashed exits.  Crashes, aborts and new jobs may come or not.
FairSpec ==
  /\ Spec
  /\ \A w \in Workers :
       /\ WF_vars(Parse(w))
       /\ WF_vars(MessageDropped(w) \/ MessageAccepted(w))
       /\ WF_vars(StoppedExit(w))
       /\ WF_vars(CrashedExit(w))

-------------------------------------------------------------------------------

\* A job whose promise is pending is in the queue or with one live slot, never
\* both and never twice; a job that was settled is in neither.
JobInOnePlace ==
  /\ \A j \in Jobs :
       status[j] = "pending" <=>
         (\E i \in DOMAIN queue : queue[i] = j) \/ (\E w \in Workers : job[w] = j)
  /\ \A i, k \in DOMAIN queue : queue[i] = queue[k] => i = k
  /\ \A v, w \in Workers : job[v] # NoJob /\ job[v] = job[w] => v = w
  /\ \A i \in DOMAIN queue : \A w \in Workers : queue[i] # job[w]
  /\ \A w \in Workers : job[w] # NoJob => w \in slots

Parsing == INSTANCE ParsingService

\* All that a query sees of the pool is a service with room for maxQueue jobs:
\* threads that crash, stop slowly or answer late never show, except as the
\* failure of the job they had.
ImplementsParsing == Parsing!Spec

\* Jobs are left in the queue only while every slot is busy and, unless a thread
\* still has to stop (its finally will dispatch), the pool is at its full size.
NoStrandedJob ==
  queue # <<>> =>
    /\ \A w \in slots : job[w] # NoJob
    /\ Cardinality(slots) = Size \/ \E w \in Workers : thread[w] = "stopping"

\* The pool never has more slots than its size ("MIME global concurrency 2"),
\* and they are exactly the threads that are up: none is forgotten and left
\* running.  Such a thread works on its slot's job and answers for no other: an
\* aborted job's late answer cannot meet the slot's next job.
ThreadWorksOnSlotsJob ==
  /\ Cardinality(slots) <= Size
  /\ slots = {w \in Workers : thread[w] = "up"}
  /\ \A w \in slots :
       /\ w \notin dead
       /\ job[w] # NoJob <=> inbox[w] # NoJob \/ reply[w] # NoJob
       /\ inbox[w] \in {NoJob, job[w]}
       /\ reply[w] \in {NoJob, job[w]}
       /\ inbox[w] = NoJob \/ reply[w] = NoJob

\* Every job the pool accepts is answered, through aborts and crashes of the
\* threads that other jobs are on.
EveryJobAnswered ==
  \A j \in Jobs : status[j] = "pending" ~> status[j] # "pending"
===============================================================================
