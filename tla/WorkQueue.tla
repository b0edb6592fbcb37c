------------------------------ MODULE WorkQueue -------------------------------
(***************************************************************************)
(* src/src/shared/queue.js, class WorkQueue: the bounded queue in front of *)
(* the mail workflows of the public service (4 slots, 64 waiters) and of   *)
(* the password hash of the admin service (1 slot, 32 waiters).  One       *)
(* request is one call of run().  JavaScript runs a handler to completion, *)
(* so an action is everything up to the next await: the synchronous part   *)
(* of #acquire, a timer callback, an abort listener, the continuation      *)
(* after #acquire, and the continuation after the work.                    *)
(*                                                                         *)
(* Time is the age of each request since its startedAt, in ticks, and      *)
(* stops growing at Horizon, where every comparison the code makes is      *)
(* decided.  A timer fires at its deadline or any time later: the event    *)
(* loop may be busy.                                                       *)
(***************************************************************************)
EXTENDS Integers, FiniteSets, SequencesExt

CONSTANTS Requests,      \* the calls of run()
          Concurrency,   \* slots
          MaxQueue,      \* waiters
          MaxWait,       \* maxWaitMs, in ticks
          TotalTimeout   \* totalTimeoutMs, in ticks

\* config.js bounds them: at least one slot, perhaps no line, and either
\* timeout may be the longer one.
ASSUME QueueAssumption ==
  /\ Concurrency \in Nat \ {0}
  /\ MaxQueue \in Nat
  /\ MaxWait \in Nat \ {0}
  /\ TotalTimeout \in Nat \ {0}

VARIABLES active,     \* #active
          waiting,    \* #waiting: the entries, oldest first
          phase,      \* where each call stands
          age,        \* ticks since the call's startedAt
          cancelled,  \* the calls whose caller's AbortSignal is aborted
          reason,     \* why the call's own AbortController is aborted
          outcome     \* how the promise of run() was settled

vars == <<active, waiting, phase, age, cancelled, reason, outcome>>

Horizon == IF MaxWait > TotalTimeout THEN MaxWait ELSE TotalTimeout

\* "granted": #acquire's promise is resolved, its continuation has not run.
Phases == {"new", "waiting", "granted", "running", "settled"}
Reasons == {"none", "cancelled", "overtime"}
Outcomes == {"none", "ok", "error", "full", "late", "cancelled", "overtime"}

TypeOK ==
  /\ active \in Nat
  /\ waiting \in Seq(Requests)
  /\ phase \in [Requests -> Phases]
  /\ age \in [Requests -> 0 .. Horizon]
  /\ cancelled \in SUBSET Requests
  /\ reason \in [Requests -> Reasons]
  /\ outcome \in [Requests -> Outcomes]

Init ==
  /\ active = 0
  /\ waiting = <<>>
  /\ phase = [r \in Requests |-> "new"]
  /\ age = [r \in Requests |-> 0]
  /\ cancelled = {}
  /\ reason = [r \in Requests |-> "none"]
  /\ outcome = [r \in Requests |-> "none"]

-------------------------------------------------------------------------------

Settle(r, how) ==
  /\ phase' = [phase EXCEPT ![r] = "settled"]
  /\ outcome' = [outcome EXCEPT ![r] = how]

\* entry.expired: the promise of the entry has been rejected.
Expired(r) == phase[r] # "waiting"

\* Mutant: the count drops on a hand-over too, and has no floor.
ReleaseDroppingOnHandOver(r, how) ==
  /\ outcome' = [outcome EXCEPT ![r] = how]
  /\ active' = active - 1
  /\ IF waiting = <<>>
     THEN /\ phase' = [phase EXCEPT ![r] = "settled"]
          /\ UNCHANGED waiting
     ELSE /\ phase' = [phase EXCEPT ![r] = "settled", ![Head(waiting)] = "granted"]
          /\ waiting' = Tail(waiting)

\* Mutant: pop() in place of shift().
ReleaseToTheLast(r, how) ==
  IF waiting = <<>>
  THEN /\ Settle(r, how)
       /\ active' = active - 1
       /\ UNCHANGED waiting
  ELSE /\ outcome' = [outcome EXCEPT ![r] = how]
       /\ phase' = [phase EXCEPT ![r] = "settled", ![waiting[Len(waiting)]] = "granted"]
       /\ waiting' = SubSeq(waiting, 1, Len(waiting) - 1)
       /\ UNCHANGED active

\* #release by r, whose run() ends with how: the first waiter that has not
\* expired inherits the slot, and #active drops only when there is none.
Release(r, how) ==
  /\ outcome' = [outcome EXCEPT ![r] = how]
  /\ \/ /\ \A i \in DOMAIN waiting : Expired(waiting[i])
        /\ waiting' = <<>>
        /\ active' = IF active > 0 THEN active - 1 ELSE 0
        /\ phase' = [phase EXCEPT ![r] = "settled"]
     \/ \E i \in DOMAIN waiting :
          /\ ~Expired(waiting[i])
          /\ \A j \in 1 .. i - 1 : Expired(waiting[j])
          /\ waiting' = SubSeq(waiting, i + 1, Len(waiting))
          /\ phase' = [phase EXCEPT ![r] = "settled", ![waiting[i]] = "granted"]
          /\ UNCHANGED active

-------------------------------------------------------------------------------
(* run() up to its first await, which is all of #acquire. *)

AcquireCancelled(r) ==
  /\ phase[r] = "new"
  /\ r \in cancelled
  /\ Settle(r, "cancelled")
  /\ UNCHANGED <<active, waiting, age, cancelled, reason>>

AcquireSlot(r) ==
  /\ phase[r] = "new"
  /\ r \notin cancelled
  /\ active < Concurrency
  /\ active' = active + 1
  /\ phase' = [phase EXCEPT ![r] = "granted"]
  /\ UNCHANGED <<waiting, age, cancelled, reason, outcome>>

AcquireFull(r) ==
  /\ phase[r] = "new"
  /\ r \notin cancelled
  /\ active >= Concurrency
  /\ Len(waiting) >= MaxQueue
  /\ Settle(r, "full")
  /\ UNCHANGED <<active, waiting, age, cancelled, reason>>

\* Mutant: one waiter more than maxQueue.
AcquireWaitOneMore(r) ==
  /\ phase[r] = "new"
  /\ r \notin cancelled
  /\ active >= Concurrency
  /\ Len(waiting) <= MaxQueue
  /\ waiting' = Append(waiting, r)
  /\ phase' = [phase EXCEPT ![r] = "waiting"]
  /\ UNCHANGED <<active, age, cancelled, reason, outcome>>

AcquireWait(r) ==
  /\ phase[r] = "new"
  /\ r \notin cancelled
  /\ active >= Concurrency
  /\ Len(waiting) < MaxQueue
  /\ waiting' = Append(waiting, r)
  /\ phase' = [phase EXCEPT ![r] = "waiting"]
  /\ UNCHANGED <<active, age, cancelled, reason, outcome>>

\* Mutant: the rejected entry is left in #waiting.
WaitTimeoutLeavingTheEntry(r) ==
  /\ phase[r] = "waiting"
  /\ age[r] >= MaxWait
  /\ Settle(r, "late")
  /\ UNCHANGED <<active, waiting, age, cancelled, reason>>

\* Mutant: the entry is taken out of line and its promise forgotten.
WaitTimeoutUnanswered(r) ==
  /\ phase[r] = "waiting"
  /\ age[r] >= MaxWait
  /\ waiting' = RemoveFirst(waiting, r)
  /\ UNCHANGED <<active, phase, age, cancelled, reason, outcome>>

\* The timer of a waiting entry: expire it, take it out of line, reject it.
WaitTimeout(r) ==
  /\ phase[r] = "waiting"
  /\ age[r] >= MaxWait
  /\ waiting' = RemoveFirst(waiting, r)
  /\ Settle(r, "late")
  /\ UNCHANGED <<active, age, cancelled, reason>>

-------------------------------------------------------------------------------
(* The caller's AbortSignal fires (the client closed its connection).  Who  *)
(* listens depends on where the call stands: its entry in line, the call    *)
(* itself, or nobody (line 32 looks again).  abort() on a controller that   *)
(* is aborted already keeps the first reason.                               *)

AbortUnheard(r) ==
  /\ phase[r] \in {"new", "granted"}
  /\ cancelled' = cancelled \cup {r}
  /\ UNCHANGED <<active, waiting, phase, age, reason, outcome>>

AbortWaiting(r) ==
  /\ phase[r] = "waiting"
  /\ cancelled' = cancelled \cup {r}
  /\ waiting' = RemoveFirst(waiting, r)
  /\ Settle(r, "cancelled")
  /\ UNCHANGED <<active, age, reason>>

AbortRunning(r) ==
  /\ phase[r] = "running"
  /\ cancelled' = cancelled \cup {r}
  /\ reason' = [reason EXCEPT ![r] = IF @ = "none" THEN "cancelled" ELSE @]
  /\ UNCHANGED <<active, waiting, phase, age, outcome>>

Abort(r) ==
  /\ r \notin cancelled
  /\ AbortUnheard(r) \/ AbortWaiting(r) \/ AbortRunning(r)

-------------------------------------------------------------------------------
(* run() after #acquire: a call whose time went by in line gives the slot   *)
(* back without a finally to do it; one that was aborted gives it back in   *)
(* the finally; any other starts its work under the total timer.            *)

BeginLate(r) ==
  /\ phase[r] = "granted"
  /\ age[r] >= TotalTimeout
  /\ Release(r, "late")
  /\ UNCHANGED <<age, cancelled, reason>>

BeginCancelled(r) ==
  /\ phase[r] = "granted"
  /\ age[r] < TotalTimeout
  /\ r \in cancelled
  /\ reason' = [reason EXCEPT ![r] = "cancelled"]
  /\ Release(r, "cancelled")
  /\ UNCHANGED <<age, cancelled>>

BeginWork(r) ==
  /\ phase[r] = "granted"
  /\ age[r] < TotalTimeout
  /\ r \notin cancelled
  /\ phase' = [phase EXCEPT ![r] = "running"]
  /\ UNCHANGED <<active, waiting, age, cancelled, reason, outcome>>

\* Mutant: the timer's callback does not abort the controller.
TotalTimerWithoutAbort(r) ==
  /\ phase[r] = "running"
  /\ age[r] >= TotalTimeout
  /\ reason[r] = "none"
  /\ UNCHANGED vars

\* Only the controller is aborted: the slot stays taken until the work ends.
TotalTimer(r) ==
  /\ phase[r] = "running"
  /\ age[r] >= TotalTimeout
  /\ reason[r] = "none"
  /\ reason' = [reason EXCEPT ![r] = "overtime"]
  /\ UNCHANGED <<active, waiting, phase, age, cancelled, outcome>>

\* Mutant: line 46 does not look at the signal again.
WorkReturnsUnchecked(r) ==
  /\ phase[r] = "running"
  /\ Release(r, "ok")
  /\ UNCHANGED <<age, cancelled, reason>>

\* A result that comes after the abort is thrown away (line 46).
WorkReturns(r) ==
  /\ phase[r] = "running"
  /\ Release(r, IF reason[r] = "none" THEN "ok" ELSE reason[r])
  /\ UNCHANGED <<age, cancelled, reason>>

\* The work fails by itself, or with the reason of the abort it noticed.
WorkThrows(r) ==
  /\ phase[r] = "running"
  /\ \E how \in {"error", reason[r]} \ {"none"} : Release(r, how)
  /\ UNCHANGED <<age, cancelled, reason>>

Tick ==
  /\ \E r \in Requests : phase[r] \notin {"new", "settled"} /\ age[r] < Horizon
  /\ age' = [r \in Requests |->
               IF phase[r] \notin {"new", "settled"} /\ age[r] < Horizon
               THEN age[r] + 1 ELSE age[r]]
  /\ UNCHANGED <<active, waiting, phase, cancelled, reason, outcome>>

Acquire(r) == AcquireCancelled(r) \/ AcquireSlot(r) \/ AcquireFull(r) \/ AcquireWait(r)
Begin(r) == BeginLate(r) \/ BeginCancelled(r) \/ BeginWork(r)
WorkEnds(r) == WorkReturns(r) \/ WorkThrows(r)

Next ==
  \/ Tick
  \/ \E r \in Requests :
       Acquire(r) \/ WaitTimeout(r) \/ Abort(r) \/ Begin(r) \/ TotalTimer(r) \/ WorkEnds(r)

Spec == Init /\ [][Next]_vars

\* The event loop runs every continuation and every due timer, and time goes
\* by.  Nothing is assumed of the work itself, nor of the callers.
FairSpec ==
  /\ Spec
  /\ WF_vars(Tick)
  /\ \A r \in Requests :
       /\ WF_vars(Begin(r))
       /\ WF_vars(WaitTimeout(r))
       /\ WF_vars(TotalTimer(r))

-------------------------------------------------------------------------------

Holders == {r \in Requests : phase[r] \in {"granted", "running"}}

\* Slots are neither lost nor made (#active += 1 in #acquire, the hand-over in
\* #release, and the two separate ways run() releases): #active is the number
\* of calls that hold a slot, and never more than the concurrency.
SlotsConserved ==
  /\ IsFiniteSet(Holders)
  /\ active = Cardinality(Holders)
  /\ active <= Concurrency

\* The entries of #waiting are exactly the calls that wait, each of them once:
\* no timer or abort leaves an entry behind that a slot could be handed to,
\* and none takes out somebody else's.
LineMatchesWaiters ==
  /\ \A r \in Requests :
       phase[r] = "waiting" <=> \E i \in DOMAIN waiting : waiting[i] = r
  /\ \A i, j \in DOMAIN waiting : waiting[i] = waiting[j] => i = j
  /\ Len(waiting) <= MaxQueue

\* No call waits while a slot is free (what #release owes to the line).
WorkConserving == waiting # <<>> => active = Concurrency

\* Slots are served in the order of #waiting: whoever is granted one leaves
\* nobody behind who stood in line before it, and a newcomer takes a slot only
\* when the line is empty.
NoOvertaking ==
  [][\A r \in Requests :
       phase'[r] = "granted" /\ phase[r] # "granted" =>
         \/ phase[r] = "new" /\ waiting = <<>>
         \/ \E i \in DOMAIN waiting :
              /\ waiting[i] = r
              /\ \A j \in 1 .. i - 1 : phase'[waiting[j]] # "waiting"]_vars

\* Two queue timers and a cancellation race the answer: a call that was
\* cancelled or whose total time ran out before its work ended is never
\* answered "ok", and never starts its work if that happened in line.
NoAnswerAfterAbort ==
  [][\A r \in Requests :
       /\ outcome'[r] = "ok" /\ outcome[r] # "ok" =>
            r \notin cancelled /\ reason[r] = "none"
       /\ phase'[r] = "running" /\ phase[r] # "running" =>
            r \notin cancelled /\ age[r] < TotalTimeout]_vars

\* The promise of run() is settled once, and a settled call holds nothing.
AnsweredOnce ==
  [][\A r \in Requests :
       outcome[r] # "none" => outcome'[r] = outcome[r] /\ phase'[r] = "settled"]_vars

\* The wait timer alone gets a call out of line, whatever the running work does.
LineMoves ==
  \A r \in Requests : phase[r] = "waiting" ~> phase[r] # "waiting"

\* Work that ends once its signal is aborted: every await of the mail workflow
\* listens to it (upstream.js joins it, mail.js takes the job back), and the
\* password hash ends by itself.
Cooperative ==
  \A r \in Requests : WF_vars(reason[r] # "none" /\ WorkEnds(r))

\* With work that notices its abort, every call of run() is answered.
EveryCallAnswered ==
  Cooperative => \A r \in Requests : phase[r] # "new" ~> phase[r] = "settled"

\* The queue implements the admission control its callers rely on.
Admission == INSTANCE AdmissionControl WITH
  Capacity <- Concurrency,
  LineBound <- MaxQueue,
  inside <- Holders,
  line <- waiting,
  answer <- outcome

\* Every step of the queue, late timers and aborts included, is a step of the
\* admission control or leaves it unchanged.
ImplementsAdmission == Admission!Spec
===============================================================================
