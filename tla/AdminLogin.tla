------------------------------ MODULE AdminLogin ------------------------------
(***************************************************************************)
(* src/src/admin/session.js over the tables admin_sessions and             *)
(* login_failures, with the middleware and handlers of src/src/admin/      *)
(* app.js that use it: password logins that are serialized by a queue with *)
(* one slot because the password hash is computed off the event loop, the  *)
(* lock on an address after too many failures in a window, and sessions    *)
(* that are read before a request's body and used after it.                *)
(*                                                                         *)
(* The login queue is AdmissionControl, which WorkQueue implements: its    *)
(* timers show as the answers "late" (the wait was over before the work    *)
(* began) and "overtime" (the work ran, its result was thrown away).  The  *)
(* session row of an attempt is named by the attempt: tokens are random.   *)
(***************************************************************************)
EXTENDS Integers, FiniteSets, SequencesExt

CONSTANTS Attempts,      \* calls of login()
          Ips,           \* client addresses
          IpOf,          \* the address an attempt comes from
          Calls,         \* other admin API requests, one use each
          QueueSlots,    \* concurrency of loginQueue
          QueueLine,     \* its maxQueue
          MaxFailures,   \* loginMaxFailures
          Window,        \* loginWindowMs, in ticks
          SessionTtl,    \* sessionTtlMs, in ticks
          MaxTime,       \* bound on the clock
          NoSession, NoCall, Done   \* no row; a request not made yet, and one answered

ASSUME LoginAssumption ==
  /\ IpOf \in [Attempts -> Ips]
  /\ QueueSlots = 1
  /\ MaxFailures \in Nat \ {0}
  /\ Window \in Nat /\ SessionTtl \in Nat \ {0} /\ MaxTime \in Nat

VARIABLES now,       \* Date.now()
          inside,    \* loginQueue: the attempt that has the slot
          line,      \* loginQueue: the attempts in line
          answer,    \* what login() told the caller
          hashing,   \* start time of the attempts whose hash is being computed
          failures,  \* table login_failures
          sessions,  \* table admin_sessions, by the attempt that made the row
          call       \* the session a request was authenticated with

vars == <<now, inside, line, answer, hashing, failures, sessions, call>>
queueVars == <<inside, line, answer>>

Queue == INSTANCE AdmissionControl WITH
  Requests <- Attempts, Capacity <- QueueSlots, LineBound <- QueueLine

Time == 0 .. MaxTime

TypeOK ==
  /\ now \in Time
  /\ inside \in SUBSET Attempts
  /\ line \in Seq(Attempts)
  /\ answer \in [Attempts -> Queue!Answers \cup {"none", "full"}]
  /\ hashing \in [Attempts -> Time \cup {-1}]
  /\ failures \in SUBSET [by : Attempts, ip : Ips, at : Time]
  /\ sessions \in [Attempts ->
       [csrf : Nat, expires : 0 .. MaxTime + SessionTtl] \cup {NoSession}]
  /\ call \in [Calls -> [token : Attempts, kind : {"rotate", "logout"}] \cup {NoCall, Done}]

Init ==
  /\ now = 0
  /\ Queue!Init
  /\ hashing = [a \in Attempts |-> -1]
  /\ failures = {}
  /\ sessions = [a \in Attempts |-> NoSession]
  /\ call = [c \in Calls |-> NoCall]

Tick == now < MaxTime /\ now' = now + 1 /\
  UNCHANGED <<inside, line, answer, hashing, failures, sessions, call>>

-------------------------------------------------------------------------------
(* login(): the queue in front of #loginSerialized, which ignores its signal. *)

Arrive(a) ==
  /\ Queue!Enter(a) \/ Queue!Join(a) \/ Queue!Refuse(a, "full")
  /\ UNCHANGED <<now, hashing, failures, sessions, call>>

WaitTimeout(a) ==
  /\ Queue!GiveUp(a, "late")
  /\ UNCHANGED <<now, hashing, failures, sessions, call>>

\* The total time is over before the work begins.
BeginLate(a) ==
  /\ hashing[a] = -1
  /\ Queue!Finish(a, "late")
  /\ UNCHANGED <<now, hashing, failures, sessions, call>>

\* The work ended with how, or the total timer fired meanwhile.
Return(a, how) == \E told \in {how, "overtime"} : Queue!Finish(a, told)

\* Mutant: occurred_at > cutoff.
CountAfter(rows, ip, cutoff) == Cardinality({f \in rows : f.ip = ip /\ f.at > cutoff})

\* countFailures: occurred_at >= cutoff.
Count(rows, ip, cutoff) == Cardinality({f \in rows : f.ip = ip /\ f.at >= cutoff})

\* pruneFailures: occurred_at < cutoff.
Pruned(cutoff) == {f \in failures : f.at >= cutoff}

\* #loginSerialized up to the await of the hash.
CheckLocked(a) ==
  /\ a \in inside
  /\ hashing[a] = -1
  /\ failures' = Pruned(now - Window)
  /\ Count(failures', IpOf[a], now - Window) >= MaxFailures
  /\ Return(a, "error")
  /\ UNCHANGED <<now, hashing, sessions, call>>

CheckOpen(a) ==
  /\ a \in inside
  /\ hashing[a] = -1
  /\ failures' = Pruned(now - Window)
  /\ Count(failures', IpOf[a], now - Window) < MaxFailures
  /\ hashing' = [hashing EXCEPT ![a] = now]
  /\ UNCHANGED <<now, inside, line, answer, sessions, call>>

\* Mutant: the session row is made before the password is judged.
PasswordWrongWithSession(a) ==
  /\ hashing[a] # -1
  /\ failures' = failures \cup {[by |-> a, ip |-> IpOf[a], at |-> hashing[a]]}
  /\ sessions' = [sessions EXCEPT ![a] = [csrf |-> 0, expires |-> hashing[a] + SessionTtl]]
  /\ hashing' = [hashing EXCEPT ![a] = -1]
  /\ Return(a, "error")
  /\ UNCHANGED <<now, call>>

\* The hash does not match: the failure is dated back to the check.
PasswordWrong(a) ==
  /\ hashing[a] # -1
  /\ failures' = failures \cup {[by |-> a, ip |-> IpOf[a], at |-> hashing[a]]}
  /\ hashing' = [hashing EXCEPT ![a] = -1]
  /\ Return(a, "error")
  /\ UNCHANGED <<now, sessions, call>>

\* clearFailures, cleanup of expired sessions, createSession.
PasswordRight(a) ==
  /\ hashing[a] # -1
  /\ failures' = {f \in failures : f.ip # IpOf[a]}
  /\ sessions' = [t \in Attempts |->
       IF t = a THEN [csrf |-> 0, expires |-> hashing[a] + SessionTtl]
       ELSE IF sessions[t] # NoSession /\ sessions[t].expires <= hashing[a] THEN NoSession
       ELSE sessions[t]]
  /\ hashing' = [hashing EXCEPT ![a] = -1]
  /\ Return(a, "ok")
  /\ UNCHANGED <<now, call>>

-------------------------------------------------------------------------------
(* The middleware authenticates with the row it reads, then the handler awaits *)
(* the body; only then does it act on the session.                             *)

Authenticate(c) ==
  /\ call[c] = NoCall
  /\ \E t \in Attempts, kind \in {"rotate", "logout"} :
       /\ answer[t] = "ok"
       /\ sessions[t] # NoSession
       /\ sessions[t].expires > now
       /\ call' = [call EXCEPT ![c] = [token |-> t, kind |-> kind]]
  /\ UNCHANGED <<now, inside, line, answer, hashing, failures, sessions>>

Pending(c, kind) == call[c] \notin {NoCall, Done} /\ call[c].kind = kind

\* Mutant: an upsert, which brings an ended session back.
WithNextCsrfUpserted(t) ==
  [sessions EXCEPT ![t] = [csrf |-> 1, expires |-> now + SessionTtl]]

\* UPDATE admin_sessions SET csrf_hash = ? WHERE token_hash = ?
WithNextCsrf(t) ==
  IF sessions[t] = NoSession THEN sessions
  ELSE [sessions EXCEPT ![t].csrf = @ + 1]

RotateCsrf(c) ==
  /\ Pending(c, "rotate")
  /\ sessions' = WithNextCsrf(call[c].token)
  /\ call' = [call EXCEPT ![c] = Done]
  /\ UNCHANGED <<now, inside, line, answer, hashing, failures>>

Logout(c) ==
  /\ Pending(c, "logout")
  /\ sessions' = [sessions EXCEPT ![call[c].token] = NoSession]
  /\ call' = [call EXCEPT ![c] = Done]
  /\ UNCHANGED <<now, inside, line, answer, hashing, failures>>

\* The process restarts: the tables stay, the queue and every request are gone.
Restart ==
  /\ inside # {} \/ \E c \in Calls : call[c] \notin {NoCall, Done}
  /\ answer' = [a \in Attempts |->
                  IF a \in inside \/ \E i \in DOMAIN line : line[i] = a THEN "cancelled"
                  ELSE answer[a]]
  /\ inside' = {}
  /\ line' = <<>>
  /\ hashing' = [a \in Attempts |-> -1]
  /\ call' = [c \in Calls |-> IF call[c] = NoCall THEN NoCall ELSE Done]
  /\ UNCHANGED <<now, failures, sessions>>

Login(a) ==
  \/ BeginLate(a) \/ CheckLocked(a) \/ CheckOpen(a)
  \/ PasswordWrong(a) \/ PasswordRight(a)

Next ==
  \/ Tick
  \/ \E a \in Attempts : Arrive(a) \/ WaitTimeout(a) \/ Login(a)
  \/ \E c \in Calls : Authenticate(c) \/ RotateCsrf(c) \/ Logout(c)
  \/ Restart

Spec == Init /\ [][Next]_vars

-------------------------------------------------------------------------------

\* "persisted check + scrypt + failure insert atomic for every IP" (session.js):
\* in no window does an address collect more failures than the limit, whatever
\* logins arrive together, time out or are cut off by a restart.
FailuresBounded ==
  \A ip \in Ips, end \in Time :
    Cardinality({f \in failures : f.ip = ip /\ f.at \in end - Window .. end}) <= MaxFailures

\* A session row was made by a login whose caller has its token, or by one whose
\* answer was thrown away for its total time; no refused login leaves one.
SessionsOfAnsweredLogins ==
  \A a \in Attempts : sessions[a] # NoSession => answer[a] \in {"ok", "overtime"}

\* A session that was logged out or cleaned up does not come back, not even by
\* a CSRF rotation that was authenticated before.
EndedSessionsStayEnded ==
  [][\A a \in Attempts :
       answer[a] \in {"ok", "overtime"} /\ sessions[a] = NoSession => sessions'[a] = NoSession]_vars
===============================================================================
