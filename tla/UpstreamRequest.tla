--------------------------- MODULE UpstreamRequest ---------------------------
(***************************************************************************)
(* src/src/shared/upstream.js, UpstreamClient #get with joinedSignal and   *)
(* readLimited: one request to the mail service.  Its controller is        *)
(* aborted by the caller's signal or by a timer; fetch may see the abort   *)
(* late or not at all, so an answer and an abort race each other, and the  *)
(* timer itself may fire long after it is due because the event loop is    *)
(* busy.                                                                   *)
(*                                                                         *)
(* A failure and the catch that classifies it are one action: nothing but  *)
(* promise reactions runs between them.  The formulas carry the name of    *)
(* the component: PublicProofs takes it together with PublicQuery.         *)
(***************************************************************************)
EXTENDS Integers

CONSTANTS RequestTimeout,  \* timeoutMs, in ticks
          MaxBytes,        \* maxResponseBytes, in chunks
          Deadlines,       \* the deadlines a caller may pass
          NoDeadline,      \* none passed
          MaxTime          \* bound on the clock

ASSUME RequestAssumption ==
  /\ RequestTimeout \in Nat \ {0}
  /\ MaxBytes \in Nat
  /\ MaxTime \in Nat
  /\ Deadlines \subseteq Nat \cup {NoDeadline}

VARIABLES now,       \* Date.now()
          stage,     \* where #get stands
          deadline,  \* requestDeadline
          due,       \* when the timer of joinedSignal is due
          armed,     \* the timer and the abort listener are installed
          timedOut,  \* timedOut
          external,  \* the caller's signal is aborted
          aborted,   \* abort.signal is aborted
          response,  \* the status of the response: "none", "ok" or "bad"
          bytes,     \* what chunks holds
          outcome    \* how the promise of #get was settled

RequestVars == <<now, stage, deadline, due, armed, timedOut, external, aborted, response, bytes, outcome>>

\* "discarding": the body is cancelled unread; "cancelling": its reader is.
Stages == {"new", "fetching", "discarding", "reading", "cancelling", "over"}
Outcomes == {"none", "ok", "cancelled", "timeout", "tooLarge", "network", "status", "invalid"}
Time == 0 .. MaxTime

\* What is buffered never exceeds maxResponseBytes, declared or not.
RequestTypeOK ==
  /\ now \in Time
  /\ stage \in Stages
  /\ deadline \in Nat
  /\ due \in Nat
  /\ armed \in BOOLEAN
  /\ timedOut \in BOOLEAN
  /\ external \in BOOLEAN
  /\ aborted \in BOOLEAN
  /\ response \in {"none", "ok", "bad"}
  /\ bytes \in 0 .. MaxBytes
  /\ outcome \in Outcomes

RequestInit ==
  /\ now = 0
  /\ stage = "new"
  /\ deadline = 0
  /\ due = 0
  /\ armed = FALSE
  /\ timedOut = FALSE
  /\ external = FALSE
  /\ aborted = FALSE
  /\ response = "none"
  /\ bytes = 0
  /\ outcome = "none"

Tick ==
  /\ now < MaxTime
  /\ now' = now + 1
  /\ UNCHANGED <<stage, deadline, due, armed, timedOut, external, aborted, response, bytes, outcome>>

-------------------------------------------------------------------------------
(* The two ends of #get: finally { abort.cleanup() } is part of both. *)

\* Mutant: the error itself is reported before the caller's signal is asked.
FailByItsError(error) ==
  /\ stage' = "over"
  /\ armed' = FALSE
  /\ outcome' = CASE timedOut -> "timeout" [] ~timedOut /\ external -> "cancelled" [] OTHER -> error
  /\ UNCHANGED <<now, deadline, due, timedOut, external, aborted, response, bytes>>

\* The catch: the caller's own abort comes first, then the timer, then the error.
Fail(error) ==
  /\ stage' = "over"
  /\ armed' = FALSE
  /\ outcome' = CASE external -> "cancelled"
                  [] ~external /\ timedOut -> "timeout"
                  [] OTHER -> error
  /\ UNCHANGED <<now, deadline, due, timedOut, external, aborted, response, bytes>>

\* Mutant: a late answer counts.
SucceedLate ==
  /\ stage' = "over"
  /\ armed' = FALSE
  /\ now' \in now .. MaxTime
  /\ outcome' \in IF response = "bad" THEN {"status"} ELSE {"ok", "invalid"}
  /\ UNCHANGED <<deadline, due, timedOut, external, aborted, response, bytes>>

\* The body is complete: the status, then JSON.parse (which takes time), then the
\* deadline once more.
Succeed ==
  /\ stage' = "over"
  /\ armed' = FALSE
  /\ now' \in now .. MaxTime
  /\ \/ response = "bad" /\ outcome' = "status"
     \/ response = "ok" /\ outcome' = "invalid"
     \/ response = "ok" /\ now' > deadline /\ outcome' = "timeout"
     \/ response = "ok" /\ now' <= deadline /\ outcome' = "ok"
  /\ UNCHANGED <<deadline, due, timedOut, external, aborted, response, bytes>>

-------------------------------------------------------------------------------

Least(m, n) == IF m < n THEN m ELSE n

\* The timer is never set for longer than timeoutMs or past the deadline; a
\* deadline that is over already leaves no timer behind.  Bound: a request that
\* starts lives to see its timer.
StartRequest ==
  /\ stage = "new"
  /\ now + RequestTimeout <= MaxTime
  /\ \E d \in Deadlines : deadline' = IF d = NoDeadline THEN now + RequestTimeout ELSE d
  /\ \/ /\ deadline' <= now
        /\ stage' = "over"
        /\ outcome' = "timeout"
        /\ UNCHANGED <<due, armed, aborted>>
     \/ /\ deadline' > now
        /\ stage' = "fetching"
        /\ due' = now + Least(RequestTimeout, deadline' - now)
        /\ armed' = TRUE
        /\ aborted' = external
        /\ UNCHANGED outcome
  /\ UNCHANGED <<now, timedOut, external, response, bytes>>

\* onAbort, while the listener is installed.
ExternalAbort ==
  /\ ~external
  /\ external' = TRUE
  /\ aborted' = (aborted \/ armed)
  /\ UNCHANGED <<now, stage, deadline, due, armed, timedOut, response, bytes, outcome>>

\* Mutant: the timer forgets to abort the controller.
TimerFiresUnheard ==
  /\ armed /\ ~timedOut /\ now >= due
  /\ timedOut' = TRUE
  /\ UNCHANGED <<now, stage, deadline, due, armed, external, aborted, response, bytes, outcome>>

\* The timer's callback; abort() of an aborted controller changes nothing.
TimerFires ==
  /\ armed /\ ~timedOut /\ now >= due
  /\ timedOut' = TRUE
  /\ aborted' = TRUE
  /\ UNCHANGED <<now, stage, deadline, due, armed, external, response, bytes, outcome>>

\* fetch or a read rejects because the connection broke.
Breaks == stage \in {"fetching", "reading"} /\ Fail("network")

\* fetch or a read rejects because of the abort.
SeesAbort == aborted /\ stage \in {"fetching", "reading"} /\ Fail("network")

\* The head of the response: a declared length over the limit ends it at once.
Responds ==
  /\ stage = "fetching"
  /\ response' \in {"ok", "bad"}
  /\ stage' \in {"discarding", "reading"}
  /\ UNCHANGED <<now, deadline, due, armed, timedOut, external, aborted, bytes, outcome>>

\* Mutant: the chunk is kept before it is counted.
ChunkKeptFirst ==
  /\ stage = "reading"
  /\ bytes' = bytes + 1
  /\ stage' = IF bytes + 1 > MaxBytes THEN "cancelling" ELSE "reading"
  /\ UNCHANGED <<now, deadline, due, armed, timedOut, external, aborted, response, outcome>>

\* A chunk is kept only if the sum stays within the limit.
Chunk ==
  /\ stage = "reading"
  /\ \/ /\ bytes + 1 <= MaxBytes
        /\ bytes' = bytes + 1
        /\ UNCHANGED stage
     \/ /\ bytes + 1 > MaxBytes
        /\ stage' = "cancelling"
        /\ UNCHANGED bytes
  /\ UNCHANGED <<now, deadline, due, armed, timedOut, external, aborted, response, outcome>>

\* An abort that fetch did not see is seen here.
BodyEnds ==
  /\ stage = "reading"
  /\ \/ aborted /\ Fail("network")
     \/ ~aborted /\ Succeed

\* body.cancel() may fail without consequence.
Discarded == stage = "discarding" /\ Fail("tooLarge")

\* reader.cancel() may not: its error replaces the size error.
Cancelled == stage = "cancelling" /\ \E error \in {"tooLarge", "network"} : Fail(error)

RequestNext ==
  \/ Tick \/ StartRequest \/ ExternalAbort \/ TimerFires
  \/ Breaks \/ SeesAbort \/ Responds \/ Chunk \/ BodyEnds \/ Discarded \/ Cancelled

RequestSpec == RequestInit /\ [][RequestNext]_RequestVars

\* Time passes, a due timer fires, fetch obeys an abort, and a cancelled stream is
\* done with.  The mail service itself need not answer.
FairRequestSpec ==
  /\ RequestSpec
  /\ WF_RequestVars(Tick)
  /\ WF_RequestVars(TimerFires)
  /\ WF_RequestVars(SeesAbort)
  /\ WF_RequestVars(Discarded \/ Cancelled)

-------------------------------------------------------------------------------

\* An answer is delivered only to a caller that has not given up, while neither the
\* timer has fired nor the deadline passed, not even during JSON.parse; and "timeout"
\* is said only when the time is over, at the timer's due time or past the deadline.
TimeDecides ==
  [][outcome' # outcome =>
       /\ outcome' = "ok" => ~external /\ ~timedOut /\ now' <= deadline
       /\ outcome' = "timeout" => (timedOut /\ now >= due) \/ now' >= deadline']_RequestVars

\* A caller that gave up during the request is told so, whatever its abort made
\* fail and even if the timer fired first: it is never counted as an upstream error.
GivingUpIsNoUpstreamError ==
  [][external /\ stage \notin {"new", "over"} /\ outcome' # outcome => outcome' = "cancelled"]_RequestVars

\* A request that has started ends, though the mail service may never answer, and
\* leaves neither its timer nor its listener on the caller's signal, which outlives it.
RequestEnds == stage = "fetching" ~> stage = "over" /\ ~armed
===============================================================================
