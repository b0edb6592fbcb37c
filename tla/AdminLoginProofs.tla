--------------------------- MODULE AdminLoginProofs ---------------------------
(* TLAPS proofs about AdminLogin, for any attempts, addresses, requests, limits  *)
(* and times.                                                                    *)
EXTENDS AdminLogin, SeqLemmas, FiniteSetTheorems, TLAPS

\* The operators of the library mean the same in the instance.
LEMMA SameOperators ==
  /\ \A S : Queue!Cardinality(S) = Cardinality(S)
  /\ \A q, i : Queue!RemoveAt(q, i) = RemoveAt(q, i)
BY DEF Queue!Cardinality, Cardinality, Queue!RemoveAt, RemoveAt

\* loginQueue: one attempt at most has the slot, and who has it or stands in line was
\* not told anything yet.
QueueInv ==
  /\ inside = {} \/ \E a \in Attempts : inside = {a}
  /\ line \in Seq(Attempts)
  /\ answer \in [Attempts -> Queue!Answers \cup {"none", "full"}]
  /\ \A a \in inside : answer[a] = "none"
  /\ \A i \in DOMAIN line : answer[line[i]] = "none" /\ line[i] \notin inside
  /\ \A i, k \in DOMAIN line : line[i] = line[k] => i = k

LEMMA EnterKeeps == ASSUME QueueInv, NEW r \in Attempts, Queue!Enter(r) PROVE QueueInv'
<1>1. ASSUME NEW a \in Attempts, inside = {a} PROVE FALSE
  <2>1. Cardinality({a}) = 1
    BY FS_Singleton
  <2>2. Queue!Cardinality(inside) = 1
    BY <1>1, <2>1, SameOperators
  <2> QED  BY <2>2, LoginAssumption DEF Queue!Enter
<1>2. inside' = {r}
  BY <1>1 DEF QueueInv, Queue!Enter
<1> QED  BY <1>2 DEF QueueInv, Queue!Enter, Queue!Outside

LEMMA JoinKeeps == ASSUME QueueInv, NEW r \in Attempts, Queue!Join(r) PROVE QueueInv'
BY DEF QueueInv, Queue!Join, Queue!Outside

LEMMA RefuseKeeps ==
  ASSUME QueueInv, NEW r \in Attempts, NEW told \in Queue!Answers \cup {"full"},
         Queue!Refuse(r, told)
  PROVE  QueueInv'
BY DEF QueueInv, Queue!Refuse, Queue!Outside

LEMMA GiveUpKeeps ==
  ASSUME QueueInv, NEW r \in Attempts, NEW told \in Queue!Answers, Queue!GiveUp(r, told)
  PROVE  QueueInv'
<1>1. PICK i \in 1 .. Len(line) : line[i] = r /\ line' = RemoveAt(line, i)
  BY SameOperators DEF QueueInv, Queue!GiveUp
<1>2. /\ line' \in Seq(Attempts) /\ Len(line') = Len(line) - 1
      /\ \A j \in 1 .. Len(line) - 1 : line'[j] = IF j < i THEN line[j] ELSE line[j + 1]
  <2> DEFINE rest == RemoveAt(line, i)
  <2>1. line \in Seq(Attempts)
    BY DEF QueueInv
  <2>2. /\ rest \in Seq(Attempts) /\ Len(rest) = Len(line) - 1
        /\ \A j \in 1 .. Len(line) - 1 : rest[j] = IF j < i THEN line[j] ELSE line[j + 1]
    BY <2>1, RemoveAtSplices
  <2>3. line' = rest
    BY <1>1
  <2> HIDE DEF rest
  <2> QED  BY <2>2, <2>3
<1>3. inside' = inside /\ answer' = [answer EXCEPT ![r] = told]
  BY DEF Queue!GiveUp
<1>4. \A j \in DOMAIN line' : answer'[line'[j]] = "none" /\ line'[j] \notin inside'
  <2> SUFFICES ASSUME NEW j \in 1 .. Len(line) - 1
               PROVE  answer'[line'[j]] = "none" /\ line'[j] \notin inside'
    BY <1>1, <1>2 DEF QueueInv
  <2>1. PICK k \in 1 .. Len(line) : k # i /\ line'[j] = line[k]
    BY <1>1, <1>2 DEF QueueInv
  <2>2. line[k] # r /\ answer[line[k]] = "none" /\ line[k] \notin inside /\ line[k] \in Attempts
    BY <1>1, <2>1 DEF QueueInv
  <2> QED  BY <1>3, <2>1, <2>2 DEF QueueInv
<1>5. \A j, k \in DOMAIN line' : line'[j] = line'[k] => j = k
  <2> DEFINE Was(j) == IF j < i THEN j ELSE j + 1
  <2>1. Len(line) \in Nat /\ DOMAIN line = 1 .. Len(line) /\ DOMAIN line' = 1 .. Len(line) - 1
    BY <1>2 DEF QueueInv
  <2> SUFFICES ASSUME NEW j \in 1 .. Len(line) - 1, NEW k \in 1 .. Len(line) - 1,
                      line'[j] = line'[k]
               PROVE  j = k
    BY <2>1
  <2>2. Was(j) \in DOMAIN line /\ Was(k) \in DOMAIN line
    BY <1>1, <2>1
  <2>3. line'[j] = line[Was(j)] /\ line'[k] = line[Was(k)]
    BY <1>2
  <2>4. Was(j) = Was(k)
    BY <2>2, <2>3 DEF QueueInv
  <2> QED  BY <1>1, <2>1, <2>4
<1> QED  BY <1>1, <1>2, <1>3, <1>4, <1>5 DEF QueueInv

LEMMA FinishKeeps ==
  ASSUME QueueInv, NEW r \in Attempts, NEW told \in Queue!Answers, Queue!Finish(r, told)
  PROVE  QueueInv'
<1>1. inside = {r} /\ answer' = [answer EXCEPT ![r] = told]
  BY DEF QueueInv, Queue!Finish
<1>2. CASE line = <<>>
  BY <1>1, <1>2 DEF QueueInv, Queue!Finish
<1>3. CASE line # <<>>
  <2>1. inside' = {line[1]} /\ line' = Tail(line) /\ line[1] \in Attempts /\ line[1] # r
    BY <1>1, <1>3 DEF QueueInv, Queue!Finish
  <2>2. /\ line' \in Seq(Attempts) /\ Len(line') = Len(line) - 1
        /\ \A j \in 1 .. Len(line) - 1 : line'[j] = line[j + 1]
    BY <1>3, <2>1 DEF QueueInv
  <2>3. \A j \in DOMAIN line' : answer'[line'[j]] = "none" /\ line'[j] \notin inside'
    BY <1>1, <2>1, <2>2 DEF QueueInv
  <2> QED  BY <1>1, <2>1, <2>2, <2>3 DEF QueueInv
<1> QED  BY <1>2, <1>3

-------------------------------------------------------------------------------
(* The tables, and the attempt whose hash is being computed. *)

\* While a hash is computed its address has room for one more failure.
HashingInv ==
  \A a \in Attempts : hashing[a] # -1 =>
    /\ a \in inside
    /\ Count(failures, IpOf[a], hashing[a] - Window) < MaxFailures

Tables ==
  /\ now \in Time
  /\ hashing \in [Attempts -> Time \cup {-1}]
  /\ failures \in SUBSET [by : Attempts, ip : Ips, at : Time]
  /\ sessions \in [Attempts ->
       [csrf : Nat, expires : 0 .. MaxTime + SessionTtl] \cup {NoSession}]
  /\ call \in [Calls -> [token : Attempts, kind : {"rotate", "logout"}] \cup {NoCall, Done}]

FailuresInv == IsFiniteSet(failures) /\ HashingInv /\ FailuresBounded

IInv == QueueInv /\ Tables /\ FailuresInv /\ SessionsOfAnsweredLogins

LEMMA Initially == Init => IInv
<1> SUFFICES ASSUME Init PROVE IInv
  OBVIOUS
<1>1. QueueInv
  BY DEF Init, QueueInv, Queue!Init
<1>2. Tables
  BY LoginAssumption DEF Init, Tables, Time
<1>3. SessionsOfAnsweredLogins
  BY DEF Init, SessionsOfAnsweredLogins
<1>4. FailuresInv
  <2>1. IsFiniteSet({}) /\ Cardinality({}) = 0
    BY FS_EmptySet
  <2>2. \A ip, end : {f \in failures : f.ip = ip /\ f.at \in end - Window .. end} = {}
    BY DEF Init
  <2> QED  BY <2>1, <2>2, LoginAssumption DEF Init, FailuresInv, HashingInv, FailuresBounded
<1> QED  BY <1>1, <1>2, <1>3, <1>4 DEF IInv

\* The finite sets that are counted.
LEMMA CountsAreFinite ==
  ASSUME IsFiniteSet(failures), NEW rows \in SUBSET failures
  PROVE  IsFiniteSet(rows) /\ Cardinality(rows) \in Nat
BY FS_Subset, FS_CardinalityType

LEMMA FewerCountLess ==
  ASSUME IsFiniteSet(failures), NEW more \in SUBSET failures, NEW fewer \in SUBSET more
  PROVE  Cardinality(fewer) <= Cardinality(more) /\ Cardinality(fewer) \in Nat /\ Cardinality(more) \in Nat
<1>1. IsFiniteSet(more)
  BY FS_Subset
<1> QED  BY <1>1, FS_Subset, FS_CardinalityType

\* Failures that are pruned or cleared bring no address to its limit.
LEMMA FewerFailuresKeep ==
  ASSUME IsFiniteSet(failures), FailuresBounded, failures' \subseteq failures
  PROVE  /\ IsFiniteSet(failures)' /\ FailuresBounded'
         /\ \A ip, cutoff : /\ Count(failures', ip, cutoff) <= Count(failures, ip, cutoff)
                            /\ Count(failures', ip, cutoff) \in Nat
                            /\ Count(failures, ip, cutoff) \in Nat
<1>1. IsFiniteSet(failures')
  BY FS_Subset
<1>2. ASSUME NEW ip \in Ips, NEW end \in Time
      PROVE  Cardinality({f \in failures' : f.ip = ip /\ f.at \in end - Window .. end}) <= MaxFailures
  <2> DEFINE more == {f \in failures : f.ip = ip /\ f.at \in end - Window .. end}
             fewer == {f \in failures' : f.ip = ip /\ f.at \in end - Window .. end}
  <2>1. Cardinality(fewer) <= Cardinality(more) /\ Cardinality(fewer) \in Nat /\ Cardinality(more) \in Nat
    <3>1. more \in SUBSET failures /\ fewer \in SUBSET more
      OBVIOUS
    <3> HIDE DEF more, fewer
    <3> QED  BY <3>1, FewerCountLess
  <2>2. Cardinality(more) <= MaxFailures
    BY DEF FailuresBounded
  <2> QED  BY <2>1, <2>2, LoginAssumption
<1>3. ASSUME NEW ip, NEW cutoff
      PROVE  /\ Count(failures', ip, cutoff) <= Count(failures, ip, cutoff)
             /\ Count(failures', ip, cutoff) \in Nat /\ Count(failures, ip, cutoff) \in Nat
  <2> DEFINE more == {f \in failures : f.ip = ip /\ f.at >= cutoff}
             fewer == {f \in failures' : f.ip = ip /\ f.at >= cutoff}
  <2>1. more \in SUBSET failures /\ fewer \in SUBSET more
    OBVIOUS
  <2>2. Count(failures, ip, cutoff) = Cardinality(more) /\ Count(failures', ip, cutoff) = Cardinality(fewer)
    BY DEF Count
  <2> HIDE DEF more, fewer
  <2> QED  BY <2>1, <2>2, FewerCountLess
<1> QED  BY <1>1, <1>2, <1>3 DEF FailuresBounded

\* A failure that is dated back to a check that left room for it.
LEMMA OneMoreFailureKeeps ==
  ASSUME IsFiniteSet(failures), FailuresBounded, failures \in SUBSET [by : Attempts, ip : Ips, at : Time],
         NEW a \in Attempts, NEW t \in Time,
         Count(failures, IpOf[a], t - Window) < MaxFailures,
         failures' = failures \cup {[by |-> a, ip |-> IpOf[a], at |-> t]}
  PROVE  IsFiniteSet(failures)' /\ FailuresBounded'
<1> DEFINE new == [by |-> a, ip |-> IpOf[a], at |-> t]
<1>1. IsFiniteSet(failures')
  BY FS_AddElement
<1>2. ASSUME NEW ip \in Ips, NEW end \in Time
      PROVE  Cardinality({f \in failures' : f.ip = ip /\ f.at \in end - Window .. end}) <= MaxFailures
  <2> DEFINE before == {f \in failures : f.ip = ip /\ f.at \in end - Window .. end}
             after == {f \in failures' : f.ip = ip /\ f.at \in end - Window .. end}
             room == {f \in failures : f.ip = IpOf[a] /\ f.at >= t - Window}
  <2>1. before \in SUBSET failures /\ IsFiniteSet(before) /\ Cardinality(before) \in Nat
    BY CountsAreFinite
  <2>2. Cardinality(before) <= MaxFailures
    BY DEF FailuresBounded
  <2>3. CASE ip = IpOf[a] /\ t \in end - Window .. end
    <3>1. before \in SUBSET room /\ room \in SUBSET failures
      BY <2>3, LoginAssumption DEF Time
    <3>2. Cardinality(room) < MaxFailures
      BY DEF Count
    <3>3. after = before \cup {new}
      BY <2>3
    <3> HIDE DEF before, after, room, new
    <3>4. Cardinality(before) <= Cardinality(room) /\ Cardinality(room) \in Nat
      BY <3>1, FewerCountLess
    <3>5. Cardinality(after) = Cardinality(before) \/ Cardinality(after) = Cardinality(before) + 1
      BY <2>1, <3>3, FS_AddElement
    <3>6. Cardinality(after) <= MaxFailures
      BY <2>1, <3>2, <3>4, <3>5, LoginAssumption
    <3> QED  BY <3>6 DEF after
  <2>4. CASE ~(ip = IpOf[a] /\ t \in end - Window .. end)
    <3>1. after = before
      BY <2>4
    <3> QED  BY <2>2, <3>1
  <2> QED  BY <2>3, <2>4
<1> QED  BY <1>1, <1>2 DEF FailuresBounded

-------------------------------------------------------------------------------
(* The steps. *)

\* What was told stays told, and nothing is told to one who does not wait for it.
AnsweredStay == \A b \in Attempts : answer[b] # "none" => answer'[b] = answer[b]

LEMMA ArriveKeeps ==
  ASSUME QueueInv, NEW a \in Attempts, Arrive(a)
  PROVE  QueueInv' /\ AnsweredStay /\ inside \subseteq inside'
<1>1. QueueInv'
  BY EnterKeeps, JoinKeeps, RefuseKeeps DEF Arrive
<1>2. AnsweredStay /\ inside \subseteq inside'
  BY DEF Arrive, QueueInv, AnsweredStay, Queue!Enter, Queue!Join, Queue!Refuse, Queue!Outside
<1> QED  BY <1>1, <1>2

LEMMA WaitTimeoutKeeps ==
  ASSUME QueueInv, NEW a \in Attempts, WaitTimeout(a)
  PROVE  QueueInv' /\ AnsweredStay /\ inside' = inside
<1>1. QueueInv'
  BY GiveUpKeeps DEF WaitTimeout, Queue!Answers
<1>2. AnsweredStay /\ inside' = inside
  BY DEF WaitTimeout, QueueInv, AnsweredStay, Queue!GiveUp
<1> QED  BY <1>1, <1>2

LEMMA LeavingKeeps ==
  ASSUME QueueInv, NEW a \in Attempts, NEW told \in Queue!Answers, Queue!Finish(a, told)
  PROVE  QueueInv' /\ AnsweredStay /\ inside = {a} /\ answer[a] = "none" /\ answer'[a] = told
BY FinishKeeps DEF QueueInv, AnsweredStay, Queue!Finish

LEMMA ReturnKeeps ==
  ASSUME QueueInv, NEW a \in Attempts, NEW how \in {"ok", "error"}, Return(a, how)
  PROVE  /\ QueueInv' /\ AnsweredStay /\ inside = {a} /\ answer[a] = "none"
         /\ answer'[a] \in {how, "overtime"}
<1>1. PICK told \in {how, "overtime"} : Queue!Finish(a, told)
  BY DEF Return
<1>2. told \in Queue!Answers
  BY DEF Queue!Answers
<1> QED  BY <1>1, <1>2, LeavingKeeps

LEMMA SessionsStayAnswered ==
  ASSUME SessionsOfAnsweredLogins, AnsweredStay, \A a \in Attempts : sessions'[a] # NoSession => sessions[a] # NoSession
  PROVE  SessionsOfAnsweredLogins'
BY DEF SessionsOfAnsweredLogins, AnsweredStay

\* An attempt whose hash is computed is alone in the queue's slot.
LEMMA HashingAlone ==
  ASSUME IInv, NEW a \in Attempts, hashing[a] # -1
  PROVE  /\ \A b \in Attempts : b # a => hashing[b] = -1
         /\ hashing[a] \in Time /\ Count(failures, IpOf[a], hashing[a] - Window) < MaxFailures
BY DEF IInv, QueueInv, FailuresInv, HashingInv, Tables

LEMMA QueueStepsKeep ==
  ASSUME IInv, NEW a \in Attempts, Arrive(a) \/ WaitTimeout(a) \/ BeginLate(a)
  PROVE  IInv'
<1>1. UNCHANGED <<now, hashing, failures, sessions, call>>
  BY DEF Arrive, WaitTimeout, BeginLate
<1>2. QueueInv' /\ AnsweredStay /\ \A b \in Attempts : hashing[b] # -1 => b \in inside'
  <2>1. CASE Arrive(a)
    BY <2>1, ArriveKeeps DEF IInv, FailuresInv, HashingInv
  <2>2. CASE WaitTimeout(a)
    BY <2>2, WaitTimeoutKeeps DEF IInv, FailuresInv, HashingInv
  <2>3. CASE BeginLate(a)
    <3>1. QueueInv' /\ AnsweredStay /\ inside = {a} /\ hashing[a] = -1
      BY <2>3, LeavingKeeps DEF BeginLate, Queue!Answers, IInv
    <3> QED  BY <3>1 DEF IInv, FailuresInv, HashingInv
  <2> QED  BY <2>1, <2>2, <2>3
<1>3. FailuresInv'
  BY <1>1, <1>2 DEF IInv, FailuresInv, HashingInv, FailuresBounded, Count
<1>4. Tables'
  BY <1>1 DEF IInv, Tables
<1> QED  BY <1>1, <1>2, <1>3, <1>4, SessionsStayAnswered DEF IInv

LEMMA CheckLockedKeeps == ASSUME IInv, NEW a \in Attempts, CheckLocked(a) PROVE IInv'
<1>1. UNCHANGED <<now, hashing, sessions, call>> /\ failures' \subseteq failures
  BY DEF CheckLocked, Pruned
<1>2. QueueInv' /\ AnsweredStay /\ inside = {a} /\ hashing[a] = -1
  BY ReturnKeeps DEF CheckLocked, IInv
<1>3. \A b \in Attempts : hashing[b] = -1
  BY <1>2 DEF IInv, FailuresInv, HashingInv
<1>4. FailuresInv'
  BY <1>1, <1>3, FewerFailuresKeep DEF IInv, FailuresInv, HashingInv
<1>5. Tables'
  BY <1>1 DEF IInv, Tables
<1> QED  BY <1>1, <1>2, <1>4, <1>5, SessionsStayAnswered DEF IInv

LEMMA CheckOpenKeeps == ASSUME IInv, NEW a \in Attempts, CheckOpen(a) PROVE IInv'
<1>1. /\ UNCHANGED <<now, inside, line, answer, sessions, call>> /\ failures' \subseteq failures
      /\ hashing' = [hashing EXCEPT ![a] = now] /\ a \in inside
      /\ Count(failures', IpOf[a], now - Window) < MaxFailures
  BY DEF CheckOpen, Pruned
<1>2. QueueInv' /\ AnsweredStay
  BY <1>1 DEF IInv, QueueInv, AnsweredStay
<1>3. Tables'
  BY <1>1 DEF IInv, Tables
<1>4. \A b \in Attempts : b # a => hashing[b] = -1
  BY <1>1 DEF IInv, QueueInv, FailuresInv, HashingInv
<1>5. HashingInv'
  <2>1. \A b \in Attempts : hashing'[b] # -1 => b = a /\ hashing'[b] = now
    BY <1>1, <1>4 DEF IInv, Tables
  <2> QED  BY <1>1, <2>1 DEF HashingInv, Count
<1>6. FailuresInv'
  BY <1>1, <1>5, FewerFailuresKeep DEF IInv, FailuresInv
<1> QED  BY <1>1, <1>2, <1>3, <1>6, SessionsStayAnswered DEF IInv

LEMMA PasswordWrongKeeps == ASSUME IInv, NEW a \in Attempts, PasswordWrong(a) PROVE IInv'
<1>1. /\ UNCHANGED <<now, sessions, call>> /\ hashing[a] # -1
      /\ hashing' = [hashing EXCEPT ![a] = -1]
      /\ failures' = failures \cup {[by |-> a, ip |-> IpOf[a], at |-> hashing[a]]}
  BY DEF PasswordWrong
<1>2. QueueInv' /\ AnsweredStay
  BY ReturnKeeps DEF PasswordWrong, IInv
<1>3. /\ \A b \in Attempts : b # a => hashing[b] = -1
      /\ hashing[a] \in Time /\ Count(failures, IpOf[a], hashing[a] - Window) < MaxFailures
  BY <1>1, HashingAlone
<1>4. Tables'
  <2>1. hashing' \in [Attempts -> Time \cup {-1}]
    BY <1>1 DEF IInv, Tables
  <2>2. [by |-> a, ip |-> IpOf[a], at |-> hashing[a]] \in [by : Attempts, ip : Ips, at : Time]
    BY <1>3, LoginAssumption
  <2>3. failures' \in SUBSET [by : Attempts, ip : Ips, at : Time]
    BY <1>1, <2>2 DEF IInv, Tables
  <2> QED  BY <1>1, <2>1, <2>3 DEF IInv, Tables
<1>5. HashingInv'
  BY <1>1, <1>3 DEF HashingInv, IInv, Tables
<1>6. FailuresInv'
  BY <1>1, <1>3, <1>5, OneMoreFailureKeeps DEF IInv, FailuresInv, Tables
<1> QED  BY <1>1, <1>2, <1>4, <1>6, SessionsStayAnswered DEF IInv

LEMMA PasswordRightKeeps == ASSUME IInv, NEW a \in Attempts, PasswordRight(a) PROVE IInv'
<1>1. /\ UNCHANGED <<now, call>> /\ hashing[a] # -1 /\ failures' \subseteq failures
      /\ hashing' = [hashing EXCEPT ![a] = -1]
      /\ sessions' = [t \in Attempts |->
           IF t = a THEN [csrf |-> 0, expires |-> hashing[a] + SessionTtl]
           ELSE IF sessions[t] # NoSession /\ sessions[t].expires <= hashing[a] THEN NoSession
           ELSE sessions[t]]
  BY DEF PasswordRight
<1>2. QueueInv' /\ AnsweredStay /\ answer'[a] \in {"ok", "overtime"}
  BY ReturnKeeps DEF PasswordRight, IInv
<1>3. (\A b \in Attempts : b # a => hashing[b] = -1) /\ hashing[a] \in Time
  BY <1>1, HashingAlone
<1>4. Tables'
  <2>1. hashing[a] + SessionTtl \in 0 .. MaxTime + SessionTtl
    BY <1>3, LoginAssumption DEF Time
  <2> QED  BY <1>1, <2>1 DEF IInv, Tables
<1>5. HashingInv'
  BY <1>1, <1>3 DEF HashingInv, IInv, Tables
<1>6. FailuresInv'
  BY <1>1, <1>5, FewerFailuresKeep DEF IInv, FailuresInv
<1>7. SessionsOfAnsweredLogins'
  BY <1>1, <1>2 DEF SessionsOfAnsweredLogins, AnsweredStay, IInv
<1> QED  BY <1>2, <1>4, <1>6, <1>7 DEF IInv

LEMMA RequestsKeep ==
  ASSUME IInv, NEW c \in Calls, Authenticate(c) \/ RotateCsrf(c) \/ Logout(c)
  PROVE  IInv'
<1>1. UNCHANGED <<now, inside, line, answer, hashing, failures>>
  BY DEF Authenticate, RotateCsrf, Logout
<1>2. QueueInv' /\ AnsweredStay
  BY <1>1 DEF IInv, QueueInv, AnsweredStay
<1>3. FailuresInv'
  BY <1>1 DEF IInv, FailuresInv, HashingInv, FailuresBounded, Count
<1>4. Tables' /\ \A a \in Attempts : sessions'[a] # NoSession => sessions[a] # NoSession
  <2>1. CASE Authenticate(c)
    BY <1>1, <2>1 DEF Authenticate, IInv, Tables
  <2> SUFFICES ASSUME RotateCsrf(c) \/ Logout(c)
               PROVE  Tables' /\ \A a \in Attempts : sessions'[a] # NoSession => sessions[a] # NoSession
    BY <2>1
  <2>2. call[c].token \in Attempts /\ call' = [call EXCEPT ![c] = Done]
    BY DEF RotateCsrf, Logout, Pending, IInv, Tables
  <2>3. CASE RotateCsrf(c)
    <3>1. sessions' = WithNextCsrf(call[c].token)
      BY <2>3 DEF RotateCsrf
    <3>2. CASE sessions[call[c].token] = NoSession
      BY <1>1, <2>2, <3>1, <3>2 DEF WithNextCsrf, IInv, Tables
    <3>3. CASE sessions[call[c].token] # NoSession
      <4>1. sessions' = [sessions EXCEPT ![call[c].token].csrf = @ + 1]
        BY <3>1, <3>3 DEF WithNextCsrf
      <4>2. sessions[call[c].token] \in [csrf : Nat, expires : 0 .. MaxTime + SessionTtl]
        BY <2>2, <3>3 DEF IInv, Tables
      <4>3. sessions' \in [Attempts -> [csrf : Nat, expires : 0 .. MaxTime + SessionTtl] \cup {NoSession}]
        BY <2>2, <4>1, <4>2 DEF IInv, Tables
      <4>4. \A a \in Attempts : sessions'[a] # NoSession => sessions[a] # NoSession
        BY <2>2, <3>3, <4>1 DEF IInv, Tables
      <4> QED  BY <1>1, <2>2, <4>3, <4>4 DEF IInv, Tables
    <3> QED  BY <3>2, <3>3
  <2>4. CASE Logout(c)
    BY <1>1, <2>2, <2>4 DEF Logout, IInv, Tables
  <2> QED  BY <2>3, <2>4
<1> QED  BY <1>2, <1>3, <1>4, SessionsStayAnswered DEF IInv

LEMMA RestartKeeps == ASSUME IInv, Restart PROVE IInv'
<1>1. QueueInv' /\ AnsweredStay
  <2>1. \A a \in Attempts : (a \in inside \/ \E i \in DOMAIN line : line[i] = a) => answer[a] = "none"
    BY DEF IInv, QueueInv
  <2>2. "cancelled" \in Queue!Answers
    BY DEF Queue!Answers
  <2> QED  BY <2>1, <2>2 DEF Restart, IInv, QueueInv, AnsweredStay
<1>2. Tables'
  BY DEF Restart, IInv, Tables
<1>3. FailuresInv'
  BY DEF Restart, IInv, FailuresInv, HashingInv, FailuresBounded
<1> QED  BY <1>1, <1>2, <1>3, SessionsStayAnswered DEF IInv, Restart

LEMMA Inductive == IInv /\ [Next]_vars => IInv'
<1> SUFFICES ASSUME IInv, [Next]_vars PROVE IInv'
  OBVIOUS
<1>1. CASE Tick \/ UNCHANGED vars
  <2>1. UNCHANGED <<inside, line, answer, hashing, failures, sessions, call>> /\ now' \in Time
    BY <1>1, LoginAssumption DEF Tick, vars, IInv, Tables, Time
  <2> QED  BY <2>1 DEF IInv, QueueInv, Tables, FailuresInv, HashingInv, FailuresBounded, Count,
                        SessionsOfAnsweredLogins
<1>2. ASSUME NEW a \in Attempts, Arrive(a) \/ WaitTimeout(a) \/ Login(a) PROVE IInv'
  BY <1>2, QueueStepsKeep, CheckLockedKeeps, CheckOpenKeeps, PasswordWrongKeeps,
     PasswordRightKeeps DEF Login
<1> QED  BY <1>1, <1>2, RequestsKeep, RestartKeeps DEF Next

LEMMA Invariance == Spec => []IInv
BY Initially, Inductive, PTL DEF Spec

-------------------------------------------------------------------------------

\* The queue, the tables and the requests under way keep their types.
THEOREM TypeCorrect == Spec => []TypeOK
<1>1. IInv => TypeOK
  BY DEF IInv, QueueInv, Tables, TypeOK
<1> QED  BY <1>1, Invariance, PTL

\* "persisted check + scrypt + failure insert atomic for every IP": the limit on failures
\* holds in every window, however many logins arrive, time out or are cut off.
THEOREM FailuresAreBounded == Spec => []FailuresBounded
<1>1. IInv => FailuresBounded
  BY DEF IInv, FailuresInv
<1> QED  BY <1>1, Invariance, PTL

\* No refused login leaves a session behind.
THEOREM SessionsAreAnswered == Spec => []SessionsOfAnsweredLogins
<1>1. IInv => SessionsOfAnsweredLogins
  BY DEF IInv
<1> QED  BY <1>1, Invariance, PTL

EndedStep ==
  \A a \in Attempts :
    answer[a] \in {"ok", "overtime"} /\ sessions[a] = NoSession => sessions'[a] = NoSession

\* Only the attempt that has the slot, which was told nothing yet, gets a session.
LEMMA EndedStepwise == IInv /\ [Next]_vars => EndedStep
<1> SUFFICES ASSUME IInv, [Next]_vars, NEW a \in Attempts, answer[a] \in {"ok", "overtime"},
                    sessions[a] = NoSession
             PROVE  sessions'[a] = NoSession
  BY DEF EndedStep
<1>1. CASE Tick \/ Restart \/ UNCHANGED vars
  BY <1>1 DEF Tick, Restart, vars
<1>2. ASSUME NEW b \in Attempts, PasswordRight(b) PROVE sessions'[a] = NoSession
  <2>1. a # b
    BY <1>2, ReturnKeeps DEF PasswordRight, IInv
  <2> QED  BY <1>2, <2>1 DEF PasswordRight
<1>3. ASSUME NEW b \in Attempts, Arrive(b) \/ WaitTimeout(b) \/ BeginLate(b) \/ CheckLocked(b)
                                  \/ CheckOpen(b) \/ PasswordWrong(b)
      PROVE  sessions'[a] = NoSession
  BY <1>3 DEF Arrive, WaitTimeout, BeginLate, CheckLocked, CheckOpen, PasswordWrong
<1>4. ASSUME NEW c \in Calls, Authenticate(c) \/ RotateCsrf(c) \/ Logout(c)
      PROVE  sessions'[a] = NoSession
  BY <1>4 DEF Authenticate, RotateCsrf, Logout, WithNextCsrf, IInv, Tables
<1> QED  BY <1>1, <1>2, <1>3, <1>4 DEF Next, Login

\* A session that was logged out, replaced or has expired does not come back, not by a
\* rotation of its CSRF token either.
THEOREM EndedSessionsAreOver == Spec => EndedSessionsStayEnded
<1>1. IInv /\ [Next]_vars => [EndedStep]_vars
  BY EndedStepwise
<1>2. [][EndedStep]_vars <=> EndedSessionsStayEnded
  BY PTL DEF EndedStep, EndedSessionsStayEnded
<1> QED  BY <1>1, <1>2, Invariance, PTL DEF Spec
===============================================================================
