----------------------------- MODULE PublicProofs -----------------------------
(* TLAPS proofs about the three components of the public service, which name    *)
(* their formulas apart so that one module can take them all: UpstreamRequest,  *)
(* PublicQuery, and PublicPage with its EmailHistory.  For any constants.       *)
EXTENDS PublicPage, PublicQuery, UpstreamRequest, SeqLemmas, FiniteSetTheorems,
        WellFoundedInduction, TLAPS

-------------------------------------------------------------------------------
(* UpstreamRequest *)


UnderWay == stage \in {"fetching", "discarding", "reading", "cancelling"}

\* What an abort leaves behind: while a request is under way its timer and listener
\* are installed, so whoever gave up has aborted the controller; and the timer fired
\* no earlier than it was due.
AbortIsHeard ==
  /\ UnderWay => armed /\ (external \/ timedOut => aborted)
  /\ ~UnderWay => ~armed
  /\ stage = "new" => ~timedOut /\ outcome = "none"
  /\ timedOut => now >= due

RequestInv == RequestTypeOK /\ AbortIsHeard

LEMMA RequestInitially == RequestInit => RequestInv
<1>1. RequestInit => RequestTypeOK
  <2>1. 0 \in Nat /\ 0 \in 0 .. MaxTime /\ 0 \in 0 .. MaxBytes
    BY RequestAssumption
  <2> QED  BY <2>1, Zenon DEF RequestInit, RequestTypeOK, Stages, Outcomes, Time
<1>2. RequestInit => AbortIsHeard
  BY DEF RequestInit, AbortIsHeard, UnderWay
<1> QED  BY <1>1, <1>2 DEF RequestInv

\* A request that fails says so with one of these errors.
LEMMA FailKeeps ==
  ASSUME RequestInv, UnderWay, NEW error \in {"tooLarge", "network"}, Fail(error)
  PROVE  RequestInv'
<1>1. outcome' \in {"cancelled", "timeout", "tooLarge", "network"}
  BY DEF Fail
<1>2. RequestTypeOK'
  BY <1>1 DEF RequestInv, RequestTypeOK, Fail, Stages, Outcomes, Time
<1>3. AbortIsHeard'
  BY DEF RequestInv, RequestTypeOK, AbortIsHeard, UnderWay, Fail, Time
<1> QED  BY <1>2, <1>3 DEF RequestInv

LEMMA SucceedKeeps ==
  ASSUME RequestInv, stage = "reading", Succeed
  PROVE  RequestInv'
<1>1. now' \in Time /\ now' >= now
  BY RequestAssumption DEF RequestInv, RequestTypeOK, Succeed, Time
<1>2. outcome' \in {"status", "invalid", "timeout", "ok"}
  BY DEF Succeed
<1>3. RequestTypeOK'
  BY <1>1, <1>2 DEF RequestInv, RequestTypeOK, Succeed, Stages, Outcomes
<1>4. AbortIsHeard'
  BY <1>1 DEF RequestInv, RequestTypeOK, AbortIsHeard, UnderWay, Succeed, Time
<1> QED  BY <1>3, <1>4 DEF RequestInv

LEMMA StartRequestKeeps ==
  ASSUME RequestInv, StartRequest
  PROVE  RequestInv'
<1>1. deadline' \in Nat
  <2>1. PICK d \in Deadlines : deadline' = IF d = NoDeadline THEN now + RequestTimeout ELSE d
    BY DEF StartRequest
  <2> QED  BY <2>1, RequestAssumption DEF RequestInv, RequestTypeOK, Time
<1>2. due' \in Nat
  BY <1>1, RequestAssumption DEF RequestInv, RequestTypeOK, StartRequest, Time, Least
<1>3. RequestTypeOK'
  BY <1>1, <1>2 DEF RequestInv, RequestTypeOK, StartRequest, Stages, Outcomes
<1>4. AbortIsHeard'
  BY DEF RequestInv, RequestTypeOK, AbortIsHeard, UnderWay, StartRequest
<1> QED  BY <1>3, <1>4 DEF RequestInv

LEMMA RequestInductive == RequestInv /\ [RequestNext]_RequestVars => RequestInv'
<1> SUFFICES ASSUME RequestInv, [RequestNext]_RequestVars PROVE RequestInv'
  OBVIOUS
<1> USE RequestAssumption DEF Time
<1>1. CASE Tick
  BY <1>1 DEF RequestInv, RequestTypeOK, AbortIsHeard, UnderWay, Tick
<1>2. CASE StartRequest
  BY <1>2, StartRequestKeeps
<1>3. CASE ExternalAbort
  BY <1>3 DEF RequestInv, RequestTypeOK, AbortIsHeard, UnderWay, ExternalAbort
<1>4. CASE TimerFires
  BY <1>4 DEF RequestInv, RequestTypeOK, AbortIsHeard, UnderWay, TimerFires
<1>5. CASE Breaks \/ SeesAbort
  BY <1>5, FailKeeps DEF Breaks, SeesAbort, UnderWay
<1>6. CASE Responds
  BY <1>6 DEF RequestInv, RequestTypeOK, AbortIsHeard, UnderWay, Responds, Stages
<1>7. CASE Chunk
  BY <1>7 DEF RequestInv, RequestTypeOK, AbortIsHeard, UnderWay, Chunk, Stages
<1>8. CASE BodyEnds
  BY <1>8, FailKeeps, SucceedKeeps DEF BodyEnds, UnderWay
<1>9. CASE Discarded \/ Cancelled
  BY <1>9, FailKeeps DEF Discarded, Cancelled, UnderWay
<1>10. CASE UNCHANGED RequestVars
  BY <1>10 DEF RequestVars, RequestInv, RequestTypeOK, AbortIsHeard, UnderWay
<1> QED
  BY <1>1, <1>2, <1>3, <1>4, <1>5, <1>6, <1>7, <1>8, <1>9, <1>10 DEF RequestNext

LEMMA RequestInvariance == RequestSpec => []RequestInv
BY RequestInitially, RequestInductive, PTL DEF RequestSpec

\* The variables keep their types; in particular no more than maxResponseBytes is
\* ever buffered.
THEOREM RequestTypeCorrect == RequestSpec => []RequestTypeOK
<1>1. RequestInv => RequestTypeOK
  BY DEF RequestInv
<1> QED  BY <1>1, RequestInvariance, PTL

-------------------------------------------------------------------------------

\* What ends a request, and how its outcome is decided.
LEMMA Ends ==
  ASSUME RequestInv, RequestNext, outcome' # outcome
  PROVE  \/ StartRequest
         \/ UnderWay /\ \E error \in {"tooLarge", "network"} : Fail(error)
         \/ stage = "reading" /\ ~aborted /\ Succeed
BY DEF RequestNext, Tick, ExternalAbort, TimerFires, Breaks, SeesAbort, Responds, Chunk,
       BodyEnds, Discarded, Cancelled, UnderWay

TimeDecidesStep ==
  outcome' # outcome =>
    /\ outcome' = "ok" => ~external /\ ~timedOut /\ now' <= deadline
    /\ outcome' = "timeout" => (timedOut /\ now >= due) \/ now' >= deadline'

LEMMA TimeDecidesStepwise == RequestInv /\ [RequestNext]_RequestVars => TimeDecidesStep
<1> SUFFICES ASSUME RequestInv, RequestNext, outcome' # outcome PROVE TimeDecidesStep
  BY DEF TimeDecidesStep, RequestVars
<1>1. CASE StartRequest
  BY <1>1 DEF StartRequest, TimeDecidesStep, RequestInv, RequestTypeOK, Time, AbortIsHeard
<1>2. CASE UnderWay /\ \E error \in {"tooLarge", "network"} : Fail(error)
  BY <1>2 DEF Fail, TimeDecidesStep, RequestInv, AbortIsHeard
<1>3. CASE stage = "reading" /\ ~aborted /\ Succeed
  <2>1. ~external /\ ~timedOut
    BY <1>3 DEF RequestInv, AbortIsHeard, UnderWay
  <2>2. now' \in Int /\ deadline \in Int /\ deadline' = deadline
    BY <1>3, RequestAssumption DEF Succeed, RequestInv, RequestTypeOK, Time
  <2> QED  BY <1>3, <2>1, <2>2 DEF Succeed, TimeDecidesStep
<1> QED  BY <1>1, <1>2, <1>3, Ends

\* No answer is delivered after the caller gave up, the timer fired or the deadline
\* passed, and "timeout" is said only when the time is over.
THEOREM TimeAlwaysDecides == RequestSpec => TimeDecides
<1>1. RequestInv /\ [RequestNext]_RequestVars => [TimeDecidesStep]_RequestVars
  BY TimeDecidesStepwise
<1>2. [][TimeDecidesStep]_RequestVars <=> TimeDecides
  BY PTL DEF TimeDecides, TimeDecidesStep
<1> QED  BY <1>1, <1>2, RequestInvariance, PTL DEF RequestSpec

GivingUpStep ==
  external /\ stage \notin {"new", "over"} /\ outcome' # outcome => outcome' = "cancelled"

LEMMA GivingUpStepwise == RequestInv /\ [RequestNext]_RequestVars => GivingUpStep
<1> SUFFICES ASSUME RequestInv, RequestNext, outcome' # outcome, external, stage \notin {"new", "over"}
             PROVE  outcome' = "cancelled"
  BY DEF GivingUpStep, RequestVars
<1>1. ~StartRequest
  BY DEF StartRequest
<1>2. CASE UnderWay /\ \E error \in {"tooLarge", "network"} : Fail(error)
  BY <1>2 DEF Fail
<1>3. CASE stage = "reading" /\ ~aborted /\ Succeed
  BY <1>3 DEF RequestInv, AbortIsHeard, UnderWay
<1> QED  BY <1>1, <1>2, <1>3, Ends

\* A caller that gave up is told so, and its abort never counts as an upstream error.
THEOREM GivingUpIsAlwaysCancelled == RequestSpec => GivingUpIsNoUpstreamError
<1>1. RequestInv /\ [RequestNext]_RequestVars => [GivingUpStep]_RequestVars
  BY GivingUpStepwise
<1>2. [][GivingUpStep]_RequestVars <=> GivingUpIsNoUpstreamError
  BY PTL DEF GivingUpIsNoUpstreamError, GivingUpStep
<1> QED  BY <1>1, <1>2, RequestInvariance, PTL DEF RequestSpec

-------------------------------------------------------------------------------
(* PublicQuery *)

\* The operators of the library mean the same in the instances.
LEMMA SameOperators ==
  /\ \A S : Queue!Cardinality(S) = Cardinality(S) /\ Pool!Cardinality(S) = Cardinality(S)
  /\ \A q, i : Queue!RemoveAt(q, i) = RemoveAt(q, i)
BY DEF Queue!Cardinality, Pool!Cardinality, Cardinality, Queue!RemoveAt, RemoveAt

\* The workflow queue: who has a slot or stands in line was not told anything yet,
\* and nobody has two places.
SlotsInv ==
  /\ inside \in SUBSET Queries
  /\ IsFiniteSet(inside)
  /\ Cardinality(inside) <= Slots
  /\ line \in Seq(Queries)
  /\ answer \in [Queries -> Queue!Answers \cup {"none", "full", "missing", "busy"}]
  /\ \A q \in inside : answer[q] = "none"
  /\ \A i \in DOMAIN line : answer[line[i]] = "none" /\ line[i] \notin inside
  /\ \A i, k \in DOMAIN line : line[i] = line[k] => i = k

LEMMA EnterKeeps == ASSUME SlotsInv, NEW q \in Queries, Queue!Enter(q) PROVE SlotsInv'
<1>1. Cardinality(inside) < Slots /\ q \notin inside
  BY SameOperators DEF Queue!Enter, Queue!Outside
<1>2. Cardinality(inside) \in Nat /\ IsFiniteSet(inside)
  BY FS_CardinalityType DEF SlotsInv
<1>3. inside' = inside \cup {q}
  BY DEF Queue!Enter
<1>4. IsFiniteSet(inside') /\ Cardinality(inside') = Cardinality(inside) + 1
  BY <1>1, <1>2, <1>3, FS_AddElement
<1>5. Cardinality(inside') <= Slots
  BY <1>1, <1>2, <1>4, QueryAssumption
<1> QED  BY <1>3, <1>4, <1>5 DEF SlotsInv, Queue!Enter, Queue!Outside

LEMMA JoinKeeps == ASSUME SlotsInv, NEW q \in Queries, Queue!Join(q) PROVE SlotsInv'
BY DEF SlotsInv, Queue!Join, Queue!Outside

LEMMA RefuseKeeps ==
  ASSUME SlotsInv, NEW q \in Queries, NEW a \in Queue!Answers \cup {"full", "missing", "busy"},
         Queue!Refuse(q, a)
  PROVE  SlotsInv'
BY DEF SlotsInv, Queue!Refuse, Queue!Outside

LEMMA GiveUpKeeps ==
  ASSUME SlotsInv, NEW q \in Queries, NEW a \in Queue!Answers, Queue!GiveUp(q, a)
  PROVE  SlotsInv'
<1>1. PICK i \in 1 .. Len(line) : line[i] = q /\ line' = RemoveAt(line, i)
  BY SameOperators DEF SlotsInv, Queue!GiveUp
<1>2. /\ line' \in Seq(Queries) /\ Len(line') = Len(line) - 1
      /\ \A j \in 1 .. Len(line) - 1 : line'[j] = IF j < i THEN line[j] ELSE line[j + 1]
  <2> DEFINE rest == RemoveAt(line, i)
  <2>1. line \in Seq(Queries)
    BY DEF SlotsInv
  <2>2. /\ rest \in Seq(Queries) /\ Len(rest) = Len(line) - 1
        /\ \A j \in 1 .. Len(line) - 1 : rest[j] = IF j < i THEN line[j] ELSE line[j + 1]
    BY <2>1, RemoveAtSplices
  <2>3. line' = rest
    BY <1>1
  <2> HIDE DEF rest
  <2> QED  BY <2>2, <2>3
<1>3. inside' = inside /\ answer' = [answer EXCEPT ![q] = a]
  BY DEF Queue!GiveUp
<1>4. \A j \in DOMAIN line' : answer'[line'[j]] = "none" /\ line'[j] \notin inside'
  <2> SUFFICES ASSUME NEW j \in 1 .. Len(line) - 1
               PROVE  answer'[line'[j]] = "none" /\ line'[j] \notin inside'
    BY <1>1, <1>2 DEF SlotsInv
  <2> DEFINE k == IF j < i THEN j ELSE j + 1
  <2>0. Len(line) \in Nat
    BY DEF SlotsInv
  <2>1. k \in 1 .. Len(line) /\ k # i /\ line'[j] = line[k]
    BY <1>1, <1>2, <2>0
  <2> HIDE DEF k
  <2>2. line[k] # q /\ answer[line[k]] = "none" /\ line[k] \notin inside /\ line[k] \in Queries
    BY <1>1, <2>1 DEF SlotsInv
  <2> QED  BY <1>3, <2>1, <2>2 DEF SlotsInv
<1>5. \A j, k \in DOMAIN line' : line'[j] = line'[k] => j = k
  <2> DEFINE Was(j) == IF j < i THEN j ELSE j + 1
  <2>1. Len(line) \in Nat /\ DOMAIN line = 1 .. Len(line) /\ DOMAIN line' = 1 .. Len(line) - 1
    BY <1>2 DEF SlotsInv
  <2> SUFFICES ASSUME NEW j \in 1 .. Len(line) - 1, NEW k \in 1 .. Len(line) - 1,
                      line'[j] = line'[k]
               PROVE  j = k
    BY <2>1
  <2>2. Was(j) \in DOMAIN line /\ Was(k) \in DOMAIN line
    BY <1>1, <2>1
  <2>3. line'[j] = line[Was(j)] /\ line'[k] = line[Was(k)]
    BY <1>2
  <2>4. Was(j) = Was(k)
    BY <2>2, <2>3 DEF SlotsInv
  <2> QED  BY <1>1, <2>1, <2>4
<1>6. answer' \in [Queries -> Queue!Answers \cup {"none", "full", "missing", "busy"}]
  BY <1>3 DEF SlotsInv
<1>7. \A r \in inside' : answer'[r] = "none"
  BY <1>1, <1>3 DEF SlotsInv
<1> QED  BY <1>2, <1>3, <1>4, <1>5, <1>6, <1>7 DEF SlotsInv

\* The slot of the one who leaves is handed on, or stays free.
LEMMA FinishCounts ==
  ASSUME SlotsInv, NEW q \in Queries, NEW a, Queue!Finish(q, a)
  PROVE  /\ inside' \in SUBSET Queries
         /\ IsFiniteSet(inside') /\ Cardinality(inside') <= Slots
<1>1. IsFiniteSet(inside) /\ Cardinality(inside) \in Nat /\ Cardinality(inside) <= Slots /\ q \in inside
  BY FS_CardinalityType DEF SlotsInv, Queue!Finish
<1>2. IsFiniteSet(inside \ {q}) /\ Cardinality(inside \ {q}) = Cardinality(inside) - 1
  BY <1>1, FS_RemoveElement
<1>3. CASE line = <<>>
  <2>1. inside' = inside \ {q}
    BY <1>3 DEF Queue!Finish
  <2> QED  BY <1>1, <1>2, <2>1, QueryAssumption DEF SlotsInv
<1>4. CASE line # <<>>
  <2>1. inside' = (inside \ {q}) \cup {line[1]} /\ line[1] \in Queries /\ line[1] \notin inside
    BY <1>4 DEF SlotsInv, Queue!Finish
  <2>2. line[1] \notin inside \ {q}
    BY <2>1
  <2>3. IsFiniteSet(inside') /\ Cardinality(inside') = Cardinality(inside \ {q}) + 1
    BY <1>2, <2>1, <2>2, FS_AddElement
  <2>4. Cardinality(inside') = Cardinality(inside)
    BY <1>1, <1>2, <2>3
  <2> QED  BY <1>1, <2>1, <2>3, <2>4 DEF SlotsInv
<1> QED  BY <1>3, <1>4

LEMMA FinishKeeps ==
  ASSUME SlotsInv, NEW q \in Queries, NEW a \in Queue!Answers, Queue!Finish(q, a)
  PROVE  SlotsInv'
<1>1. q \in inside /\ answer' = [answer EXCEPT ![q] = a]
  BY DEF Queue!Finish
<1>2. CASE line = <<>>
  <2>1. inside' = inside \ {q} /\ line' = line
    BY <1>2 DEF Queue!Finish
  <2>2. \A r \in inside' : answer'[r] = "none"
    BY <1>1, <2>1 DEF SlotsInv
  <2>3. answer' \in [Queries -> Queue!Answers \cup {"none", "full", "missing", "busy"}]
    BY <1>1 DEF SlotsInv
  <2>4. line' = <<>> /\ line' \in Seq(Queries) /\ DOMAIN line' = {}
    BY <1>2, <2>1 DEF SlotsInv
  <2> QED  BY <2>2, <2>3, <2>4, FinishCounts DEF SlotsInv
<1>3. CASE line # <<>>
  <2>1. /\ inside' = (inside \ {q}) \cup {line[1]} /\ line' = Tail(line)
        /\ line[1] \in Queries /\ line[1] # q /\ answer[line[1]] = "none"
    BY <1>1, <1>3 DEF SlotsInv, Queue!Finish
  <2>2. /\ line' \in Seq(Queries) /\ Len(line') = Len(line) - 1
        /\ \A j \in 1 .. Len(line) - 1 : line'[j] = line[j + 1]
    BY <1>3, <2>1 DEF SlotsInv
  <2>3. \A j \in DOMAIN line' : answer'[line'[j]] = "none" /\ line'[j] \notin inside'
    BY <1>1, <2>1, <2>2 DEF SlotsInv
  <2>4. \A i, k \in DOMAIN line' : line'[i] = line'[k] => i = k
    <3>1. Len(line) \in Nat /\ DOMAIN line = 1 .. Len(line) /\ DOMAIN line' = 1 .. Len(line) - 1
      BY <2>2 DEF SlotsInv
    <3> SUFFICES ASSUME NEW i \in 1 .. Len(line) - 1, NEW k \in 1 .. Len(line) - 1,
                        line'[i] = line'[k]
                 PROVE  i = k
      BY <3>1
    <3>2. i + 1 \in DOMAIN line /\ k + 1 \in DOMAIN line /\ line[i + 1] = line[k + 1]
      BY <2>2, <3>1
    <3>3. i + 1 = k + 1
      BY <3>2 DEF SlotsInv
    <3> QED  BY <3>3
  <2>5. \A r \in inside' : answer'[r] = "none"
    BY <1>1, <2>1 DEF SlotsInv
  <2>6. answer' \in [Queries -> Queue!Answers \cup {"none", "full", "missing", "busy"}]
    BY <1>1 DEF SlotsInv
  <2> QED  BY <2>2, <2>3, <2>4, <2>5, <2>6, FinishCounts DEF SlotsInv
<1> QED  BY <1>2, <1>3

-------------------------------------------------------------------------------
(* The work of the queries and their jobs in the pool. *)

WorkTypes ==
  /\ work \in [Queries -> {"none", "fetching", "parsing", "over"}]
  /\ cut \in [Queries -> Aborted \cup {"none"}]
  /\ status \in [Mails -> {"new", "pending", "done", "failed", "full", "cancelled"}]

\* Work goes on in a slot only, and the caller is told when it is over.
WorkOf(q) ==
  /\ work[q] \in {"fetching", "parsing"} => q \in inside
  /\ work[q] = "over" => answer[q] # "none"
  /\ answer[q] = "ok" => work[q] = "over"

\* Nothing is in the pool before the mails are there; a query that parses waits for a
\* job and none of its jobs has gone wrong; and only a query that failed, and was not
\* given up, leaves jobs behind.
JobsOf(q) ==
  /\ work[q] \in {"none", "fetching"} => \A m \in Of(q) : status[m] = "new"
  /\ work[q] = "parsing" =>
       /\ cut[q] = "none"
       /\ \E m \in Of(q) : status[m] = "pending"
       /\ \A m \in Of(q) : status[m] \in {"new", "done", "pending"}
  /\ work[q] = "over" =>
       \/ answer[q] = "ok" /\ cut[q] = "none" /\ \A m \in Of(q) : status[m] \in {"new", "done"}
       \/ answer[q] = "error" /\ cut[q] = "none"
       \/ answer[q] # "ok" /\ \A m \in Of(q) : status[m] # "pending"

PoolInv == IsFiniteSet(Pool!Unanswered) /\ Cardinality(Pool!Unanswered) <= PoolRoom

QueryInv == SlotsInv /\ WorkTypes /\ PoolInv /\ \A q \in Queries : WorkOf(q) /\ JobsOf(q)

\* A query that a step leaves alone.
LEMMA OthersKeep ==
  ASSUME NEW r \in Queries, WorkOf(r), JobsOf(r),
         work'[r] = work[r], cut'[r] = cut[r], answer'[r] = answer[r],
         \A m \in Of(r) : status'[m] = status[m], r \in inside => r \in inside'
  PROVE  WorkOf(r)' /\ JobsOf(r)'
<1>1. WorkOf(r)'
  BY DEF WorkOf
<1>2. JobsOf(r)'
  BY DEF JobsOf, Of
<1> QED  BY <1>1, <1>2

\* The queue's steps leave everybody else's place and answer alone.
LEMMA FinishLeavesOthers ==
  ASSUME SlotsInv, NEW q \in Queries, NEW a \in Queue!Answers, Queue!Finish(q, a)
  PROVE  /\ q \in inside /\ answer[q] = "none" /\ answer'[q] = a
         /\ \A r \in Queries \ {q} : answer'[r] = answer[r] /\ (r \in inside => r \in inside')
BY DEF SlotsInv, Queue!Finish

LEMMA ReturnKeeps ==
  ASSUME SlotsInv, WorkTypes, NEW q \in Queries, NEW how \in {"ok", "error"},
         cut'[q] \in Aborted \cup {"none"}, Return(q, how)
  PROVE  /\ SlotsInv' /\ q \in inside /\ answer[q] = "none"
         /\ work' = [work EXCEPT ![q] = "over"]
         /\ answer'[q] = IF cut'[q] = "none" THEN how ELSE cut'[q]
         /\ \A r \in Queries \ {q} : answer'[r] = answer[r] /\ (r \in inside => r \in inside')
<1> DEFINE a == IF cut'[q] = "none" THEN how ELSE cut'[q]
<1>1. Queue!Finish(q, a) /\ work' = [work EXCEPT ![q] = "over"]
  BY DEF Return
<1>2. a \in Queue!Answers
  BY DEF Queue!Answers, Aborted
<1> HIDE DEF a
<1>3. /\ SlotsInv' /\ q \in inside /\ answer[q] = "none" /\ answer'[q] = a
      /\ \A r \in Queries \ {q} : answer'[r] = answer[r] /\ (r \in inside => r \in inside')
  BY <1>1, <1>2, FinishKeeps, FinishLeavesOthers
<1> QED  BY <1>1, <1>3 DEF a

\* Promise.all, once the jobs of an aborted query are out of the pool.
LEMMA AwaitAllKeeps ==
  ASSUME SlotsInv, WorkTypes, WorkTypes', NEW q \in Queries, q \in inside, answer[q] = "none",
         cut'[q] = "none" \/ \A m \in Of(q) : status'[m] # "pending",
         AwaitAll(q)
  PROVE  /\ SlotsInv' /\ WorkOf(q)' /\ JobsOf(q)'
         /\ \A r \in Queries \ {q} :
              work'[r] = work[r] /\ answer'[r] = answer[r] /\ (r \in inside => r \in inside')
<1>0. cut'[q] \in Aborted \cup {"none"} /\ Aborted = {"cancelled", "overtime"}
  BY DEF WorkTypes, Aborted
<1>1. CASE (\E m \in Of(q) : status'[m] \in {"failed", "full", "cancelled"}) /\ Return(q, "error")
  <2>1. /\ SlotsInv' /\ work' = [work EXCEPT ![q] = "over"]
        /\ answer'[q] = IF cut'[q] = "none" THEN "error" ELSE cut'[q]
        /\ \A r \in Queries \ {q} : answer'[r] = answer[r] /\ (r \in inside => r \in inside')
    BY <1>0, <1>1, ReturnKeeps
  <2>2. work'[q] = "over" /\ \A r \in Queries \ {q} : work'[r] = work[r]
    BY <2>1 DEF WorkTypes
  <2>3. WorkOf(q)'
    BY <1>0, <2>1, <2>2 DEF WorkOf
  <2>4. JobsOf(q)'
    BY <1>0, <2>1, <2>2 DEF JobsOf, Of
  <2> QED  BY <2>1, <2>2, <2>3, <2>4
<1>2. CASE (\A m \in Of(q) : status'[m] \in {"new", "done"}) /\ Return(q, "ok")
  <2>1. /\ SlotsInv' /\ work' = [work EXCEPT ![q] = "over"]
        /\ answer'[q] = IF cut'[q] = "none" THEN "ok" ELSE cut'[q]
        /\ \A r \in Queries \ {q} : answer'[r] = answer[r] /\ (r \in inside => r \in inside')
    BY <1>0, <1>2, ReturnKeeps
  <2>2. work'[q] = "over" /\ \A r \in Queries \ {q} : work'[r] = work[r]
    BY <2>1 DEF WorkTypes
  <2>3. WorkOf(q)'
    BY <1>0, <2>1, <2>2 DEF WorkOf
  <2>4. JobsOf(q)'
    BY <1>0, <1>2, <2>1, <2>2 DEF JobsOf, Of
  <2> QED  BY <2>1, <2>2, <2>3, <2>4
<1>3. CASE /\ \A m \in Of(q) : status'[m] \in {"new", "done", "pending"}
           /\ \E m \in Of(q) : status'[m] = "pending"
           /\ work' = [work EXCEPT ![q] = "parsing"]
           /\ UNCHANGED <<inside, line, answer>>
  <2>1. work'[q] = "parsing" /\ \A r \in Queries \ {q} : work'[r] = work[r]
    BY <1>3 DEF WorkTypes
  <2>2. SlotsInv'
    BY <1>3 DEF SlotsInv
  <2>3. WorkOf(q)'
    BY <1>3, <2>1 DEF WorkOf
  <2>4. JobsOf(q)'
    BY <1>3, <2>1 DEF JobsOf, Of
  <2> QED  BY <1>3, <2>1, <2>2, <2>3, <2>4
<1> QED  BY <1>1, <1>2, <1>3 DEF AwaitAll

-------------------------------------------------------------------------------
(* The pool, as the queries see it. *)

LEMMA MailsOf ==
  ASSUME NEW S \in SUBSET Queries, IsFiniteSet(S)
  PROVE  /\ IsFiniteSet(S \X (1 .. MaxMails))
         /\ Cardinality(S \X (1 .. MaxMails)) = Cardinality(S) * MaxMails
<1> DEFINE numbers == 1 .. MaxMails
<1>1. IsFiniteSet(numbers) /\ Cardinality(numbers) = MaxMails
  BY FS_Interval, QueryAssumption
<1> HIDE DEF numbers
<1>2. IsFiniteSet(S \X numbers) /\ Cardinality(S \X numbers) = Cardinality(S) * Cardinality(numbers)
  BY <1>1, FS_Product, Zenon
<1> QED  BY <1>1, <1>2 DEF numbers

LEMMA Parts ==
  ASSUME NEW q \in Queries
  PROVE  /\ Of(q) \subseteq Mails /\ IsFiniteSet(Of(q)) /\ Cardinality(Of(q)) = MaxMails
         /\ \A r \in Queries \ {q} : Of(r) \cap Of(q) = {}
         /\ \A m \in Of(q) : m[1] = q
<1>1. IsFiniteSet({q}) /\ Cardinality({q}) = 1
  BY FS_Singleton
<1>2. IsFiniteSet(Of(q)) /\ Cardinality(Of(q)) = 1 * MaxMails
  BY <1>1, MailsOf DEF Of
<1>3. Cardinality(Of(q)) = MaxMails
  BY <1>2, QueryAssumption
<1> QED  BY <1>2, <1>3 DEF Of, Mails

\* A job is of the query that its mail belongs to.
LEMMA MailsAreOfQueries == \A m \in Mails : m[1] \in Queries /\ m \in Of(m[1])
BY DEF Mails, Of

\* Jobs that end, well or not, make room.
LEMMA RoomGrows ==
  ASSUME PoolInv, \A m \in Mails : status'[m] = "pending" => status[m] = "pending"
  PROVE  PoolInv'
<1>1. Pool!Unanswered' \subseteq Pool!Unanswered
  BY DEF Pool!Unanswered
<1>2. IsFiniteSet(Pool!Unanswered') /\ Cardinality(Pool!Unanswered') <= Cardinality(Pool!Unanswered)
  BY <1>1, FS_Subset DEF PoolInv
<1>3. Cardinality(Pool!Unanswered) \in Nat /\ Cardinality(Pool!Unanswered') \in Nat
  BY <1>2, FS_CardinalityType DEF PoolInv
<1> QED  BY <1>2, <1>3, QueryAssumption DEF PoolInv

\* What is submitted is accepted as far as there is room, and else refused.
LEMMA SubmitKeeps ==
  ASSUME WorkTypes, PoolInv, NEW q \in Queries, NEW toParse \in SUBSET Of(q), Pool!Submit(toParse)
  PROVE  /\ PoolInv'
         /\ status' \in [Mails -> {"new", "pending", "done", "failed", "full", "cancelled"}]
         /\ \A m \in Mails : status'[m] = IF m \in toParse THEN status'[m] ELSE status[m]
         /\ \A m \in toParse : status'[m] \in {"pending", "full"}
         /\ Cardinality(toParse) <= PoolRoom - Cardinality(Pool!Unanswered) =>
              \A m \in toParse : status'[m] = "pending"
<1> DEFINE held == Pool!Unanswered
           room == PoolRoom - Cardinality(held)
<1>0. \A m \in toParse : status[m] = "new"
  BY DEF Pool!Submit
<1>1. PICK accepted \in SUBSET toParse :
        /\ Cardinality(accepted) = IF Cardinality(toParse) < room THEN Cardinality(toParse) ELSE room
        /\ status' = [m \in Mails |-> IF m \in accepted THEN "pending"
                                       ELSE IF m \in toParse THEN "full"
                                       ELSE status[m]]
  BY SameOperators DEF Pool!Submit
<1>2. IsFiniteSet(held) /\ Cardinality(held) \in Nat /\ Cardinality(held) <= PoolRoom
  BY FS_CardinalityType DEF PoolInv
<1>3. toParse \subseteq Mails /\ IsFiniteSet(toParse) /\ Cardinality(toParse) \in Nat
  BY Parts, FS_Subset, FS_CardinalityType
<1>4. IsFiniteSet(accepted) /\ Cardinality(accepted) \in Nat
  BY <1>1, <1>3, FS_Subset, FS_CardinalityType
<1>5. Pool!Unanswered' = held \cup accepted
  BY <1>0, <1>1, <1>3 DEF Pool!Unanswered
<1> HIDE DEF held
<1>6. /\ IsFiniteSet(held \cup accepted)
      /\ Cardinality(held \cup accepted) <= Cardinality(held) + Cardinality(accepted)
      /\ Cardinality(held \cup accepted) \in Nat
  <2>1. IsFiniteSet(held \cup accepted)
    BY <1>2, <1>4, FS_Union
  <2>2. /\ Cardinality(held \cup accepted)
             = Cardinality(held) + Cardinality(accepted) - Cardinality(held \cap accepted)
        /\ Cardinality(held \cap accepted) \in Nat
    BY <1>2, <1>4, FS_Union, FS_Intersection, FS_CardinalityType
  <2> QED  BY <1>2, <1>4, <2>1, <2>2, FS_CardinalityType
<1>7. Cardinality(accepted) <= room
  BY <1>1, <1>2, <1>3, QueryAssumption
<1>8. PoolInv'
  BY <1>2, <1>4, <1>5, <1>6, <1>7, QueryAssumption DEF PoolInv
<1>9. status' \in [Mails -> {"new", "pending", "done", "failed", "full", "cancelled"}]
  BY <1>1 DEF WorkTypes
<1>10. ASSUME Cardinality(toParse) <= room
       PROVE  \A m \in toParse : status'[m] = "pending"
  <2>1. Cardinality(accepted) = Cardinality(toParse)
    BY <1>1, <1>2, <1>3, <1>10, QueryAssumption
  <2>2. accepted = toParse
    BY <1>1, <1>3, <2>1, FS_Subset
  <2> QED  BY <1>1, <1>3, <2>2
<1>11. \A m \in Mails : m \in toParse \/ status'[m] = status[m]
  BY <1>1
<1>12. \A m \in toParse : status'[m] \in {"pending", "full"}
  BY <1>1, <1>3
<1> QED  BY <1>8, <1>9, <1>10, <1>11, <1>12 DEF held

LEMMA EndKeeps ==
  ASSUME WorkTypes, PoolInv, NEW m \in Mails, NEW how \in {"done", "failed"}, Pool!End(m, how)
  PROVE  /\ PoolInv' /\ status[m] = "pending" /\ status'[m] = how
         /\ status' \in [Mails -> {"new", "pending", "done", "failed", "full", "cancelled"}]
         /\ \A j \in Mails \ {m} : status'[j] = status[j]
<1>1. /\ status[m] = "pending" /\ status'[m] = how
      /\ status' \in [Mails -> {"new", "pending", "done", "failed", "full", "cancelled"}]
      /\ \A j \in Mails \ {m} : status'[j] = status[j]
  BY DEF WorkTypes, Pool!End
<1>2. \A j \in Mails : status'[j] = "pending" => status[j] = "pending"
  BY <1>1
<1> QED  BY <1>1, <1>2, RoomGrows

LEMMA CancelKeeps ==
  ASSUME WorkTypes, PoolInv, NEW q \in Queries, Pool!Cancel(Of(q) \cap Pool!Unanswered)
  PROVE  /\ PoolInv'
         /\ status' \in [Mails -> {"new", "pending", "done", "failed", "full", "cancelled"}]
         /\ \A m \in Of(q) : status'[m] = IF status[m] = "pending" THEN "cancelled" ELSE status[m]
         /\ \A m \in Mails \ Of(q) : status'[m] = status[m]
<1>1. /\ status' \in [Mails -> {"new", "pending", "done", "failed", "full", "cancelled"}]
      /\ \A m \in Of(q) : status'[m] = IF status[m] = "pending" THEN "cancelled" ELSE status[m]
      /\ \A m \in Mails \ Of(q) : status'[m] = status[m]
  BY Parts DEF WorkTypes, Pool!Cancel, Pool!Unanswered
<1>2. \A j \in Mails : status'[j] = "pending" => status[j] = "pending"
  BY <1>1
<1> QED  BY <1>1, <1>2, RoomGrows

-------------------------------------------------------------------------------
(* The steps of a query. *)

LEMMA QueryInitially == QueryInit => QueryInv
<1> SUFFICES ASSUME QueryInit PROVE QueryInv
  OBVIOUS
<1>1. SlotsInv
  <2>1. IsFiniteSet({}) /\ Cardinality({}) = 0
    BY FS_EmptySet
  <2> QED  BY <2>1, QueryAssumption DEF QueryInit, Queue!Init, SlotsInv
<1>2. WorkTypes
  BY DEF QueryInit, Pool!Init, WorkTypes
<1>3. PoolInv
  <2>1. IsFiniteSet({}) /\ Cardinality({}) = 0
    BY FS_EmptySet
  <2>2. Pool!Unanswered = {}
    BY DEF QueryInit, Pool!Init, Pool!Unanswered
  <2> QED  BY <2>1, <2>2, QueryAssumption DEF PoolInv
<1>4. \A q \in Queries : WorkOf(q) /\ JobsOf(q)
  BY Parts DEF QueryInit, Queue!Init, Pool!Init, WorkOf, JobsOf
<1> QED  BY <1>1, <1>2, <1>3, <1>4 DEF QueryInv

\* Who comes, waits or leaves the line: no work is touched.
LEMMA QueueStepsKeep ==
  ASSUME QueryInv, NEW q \in Queries, NoBinding(q) \/ Arrive(q) \/ GiveUp(q)
  PROVE  QueryInv'
<1>1. UNCHANGED <<work, cut, status>>
  BY DEF NoBinding, Arrive, GiveUp
<1> DEFINE Apart ==
      /\ SlotsInv' /\ inside \subseteq inside' /\ answer'[q] # "ok"
      /\ q \notin inside /\ answer[q] = "none"
      /\ \A r \in Queries \ {q} : answer'[r] = answer[r]
<1>2. Apart
  <2>1. CASE Queue!Enter(q)
    BY <2>1, EnterKeeps DEF QueryInv, SlotsInv, Queue!Enter, Queue!Outside
  <2>2. CASE Queue!Join(q)
    BY <2>2, JoinKeeps DEF QueryInv, SlotsInv, Queue!Join, Queue!Outside
  <2>3. ASSUME NEW a \in {"missing", "busy", "error", "full", "cancelled"}, Queue!Refuse(q, a)
        PROVE  Apart
    <3>1. SlotsInv'
      BY <2>3, RefuseKeeps DEF QueryInv, Queue!Answers
    <3> QED  BY <2>3, <3>1 DEF QueryInv, SlotsInv, Queue!Refuse, Queue!Outside
  <2>4. ASSUME NEW a \in {"late", "cancelled"}, Queue!GiveUp(q, a)
        PROVE  Apart
    <3>1. SlotsInv'
      BY <2>4, GiveUpKeeps DEF QueryInv, Queue!Answers
    <3> QED  BY <2>4, <3>1 DEF QueryInv, SlotsInv, Queue!GiveUp
  <2> QED  BY <2>1, <2>2, <2>3, <2>4 DEF NoBinding, Arrive, GiveUp
<1>3. WorkOf(q)' /\ JobsOf(q)'
  <2>1. work[q] = "none" /\ work'[q] = "none"
    BY <1>1, <1>2 DEF QueryInv, WorkTypes, WorkOf
  <2> QED  BY <1>1, <1>2, <2>1 DEF QueryInv, WorkOf, JobsOf
<1>4. ASSUME NEW r \in Queries \ {q} PROVE WorkOf(r)' /\ JobsOf(r)'
  BY <1>1, <1>2, OthersKeep DEF QueryInv
<1>5. WorkTypes' /\ PoolInv'
  BY <1>1 DEF QueryInv, WorkTypes, PoolInv, Pool!Unanswered
<1> QED  BY <1>2, <1>3, <1>4, <1>5 DEF QueryInv

\* Work that is never begun.
LEMMA BeginLateKeeps ==
  ASSUME QueryInv, NEW q \in Queries, BeginLate(q) \/ BeginCancelled(q)
  PROVE  QueryInv'
<1>1. PICK a \in {"late", "cancelled"} : Queue!Finish(q, a)
  BY DEF BeginLate, BeginCancelled
<1>2. /\ SlotsInv' /\ answer'[q] = a
      /\ \A r \in Queries \ {q} : answer'[r] = answer[r] /\ (r \in inside => r \in inside')
  BY <1>1, FinishKeeps, FinishLeavesOthers DEF QueryInv, Queue!Answers
<1>3. /\ work[q] = "none" /\ work' = [work EXCEPT ![q] = "over"]
      /\ cut' = cut \/ cut' = [cut EXCEPT ![q] = "cancelled"]
      /\ status' = status
  BY DEF BeginLate, BeginCancelled
<1>4. WorkTypes' /\ PoolInv'
  BY <1>3 DEF QueryInv, WorkTypes, PoolInv, Pool!Unanswered, Aborted
<1>5. WorkOf(q)' /\ JobsOf(q)'
  BY <1>2, <1>3 DEF QueryInv, WorkTypes, WorkOf, JobsOf
<1>6. ASSUME NEW r \in Queries \ {q} PROVE WorkOf(r)' /\ JobsOf(r)'
  <2>1. work'[r] = work[r] /\ cut'[r] = cut[r]
    BY <1>3 DEF QueryInv, WorkTypes
  <2> QED  BY <1>2, <1>3, <2>1, OthersKeep DEF QueryInv
<1> QED  BY <1>2, <1>4, <1>5, <1>6 DEF QueryInv

LEMMA BeginKeeps == ASSUME QueryInv, NEW q \in Queries, Begin(q) PROVE QueryInv'
<1>1. /\ q \in inside /\ work[q] = "none" /\ work' = [work EXCEPT ![q] = "fetching"]
      /\ UNCHANGED <<inside, line, answer, cut, status>>
  BY DEF Begin
<1>2. SlotsInv' /\ WorkTypes' /\ PoolInv'
  BY <1>1 DEF QueryInv, SlotsInv, WorkTypes, PoolInv, Pool!Unanswered
<1>3. WorkOf(q)' /\ JobsOf(q)'
  BY <1>1 DEF QueryInv, SlotsInv, WorkTypes, WorkOf, JobsOf
<1>4. ASSUME NEW r \in Queries \ {q} PROVE WorkOf(r)' /\ JobsOf(r)'
  BY <1>1, OthersKeep DEF QueryInv, WorkTypes
<1> QED  BY <1>2, <1>3, <1>4 DEF QueryInv

LEMMA FetchFailsKeeps == ASSUME QueryInv, NEW q \in Queries, FetchFails(q) PROVE QueryInv'
<1>1. work[q] = "fetching" /\ UNCHANGED <<cut, status>> /\ Return(q, "error")
  BY DEF FetchFails
<1>2. /\ SlotsInv' /\ work' = [work EXCEPT ![q] = "over"]
      /\ answer'[q] = IF cut[q] = "none" THEN "error" ELSE cut[q]
      /\ \A r \in Queries \ {q} : answer'[r] = answer[r] /\ (r \in inside => r \in inside')
  <2>1. cut'[q] \in Aborted \cup {"none"} /\ cut'[q] = cut[q]
    BY <1>1 DEF QueryInv, WorkTypes
  <2> QED  BY <1>1, <2>1, ReturnKeeps DEF QueryInv
<1>3. WorkTypes' /\ PoolInv'
  BY <1>1, <1>2 DEF QueryInv, WorkTypes, PoolInv, Pool!Unanswered
<1>4. WorkOf(q)' /\ JobsOf(q)'
  BY <1>1, <1>2 DEF QueryInv, WorkTypes, WorkOf, JobsOf, Aborted
<1>5. ASSUME NEW r \in Queries \ {q} PROVE WorkOf(r)' /\ JobsOf(r)'
  BY <1>1, <1>2, OthersKeep DEF QueryInv, WorkTypes
<1> QED  BY <1>2, <1>3, <1>4, <1>5 DEF QueryInv

\* The work and the cut of q may change; of the mails, only those of q do.
LEMMA AwaitedStepKeeps ==
  ASSUME QueryInv, WorkTypes', PoolInv', NEW q \in Queries, q \in inside, AwaitAll(q),
         cut'[q] = "none" \/ \A m \in Of(q) : status'[m] # "pending",
         \A r \in Queries \ {q} : cut'[r] = cut[r],
         \A m \in Mails \ Of(q) : status'[m] = status[m]
  PROVE  QueryInv'
<1>1. answer[q] = "none"
  BY DEF QueryInv, SlotsInv
<1>2. /\ SlotsInv' /\ WorkOf(q)' /\ JobsOf(q)'
      /\ \A r \in Queries \ {q} :
           work'[r] = work[r] /\ answer'[r] = answer[r] /\ (r \in inside => r \in inside')
  BY <1>1, AwaitAllKeeps DEF QueryInv
<1>3. ASSUME NEW r \in Queries \ {q} PROVE WorkOf(r)' /\ JobsOf(r)'
  <2>1. \A m \in Of(r) : status'[m] = status[m]
    BY Parts
  <2> QED  BY <1>2, <2>1, OthersKeep DEF QueryInv
<1> QED  BY <1>2, <1>3 DEF QueryInv

LEMMA FetchAnswersKeeps == ASSUME QueryInv, NEW q \in Queries, FetchAnswers(q) PROVE QueryInv'
<1>1. PICK toParse \in SUBSET Of(q) : Pool!Submit(toParse)
  BY DEF FetchAnswers
<1>2. work[q] = "fetching" /\ cut[q] = "none" /\ cut' = cut /\ AwaitAll(q) /\ q \in inside
  BY DEF FetchAnswers, QueryInv, WorkOf
<1>3. /\ PoolInv' /\ status' \in [Mails -> {"new", "pending", "done", "failed", "full", "cancelled"}]
      /\ \A m \in Mails \ Of(q) : status'[m] = status[m]
  BY <1>1, SubmitKeeps DEF QueryInv
<1>4. work' \in [Queries -> {"none", "fetching", "parsing", "over"}]
  BY <1>2 DEF AwaitAll, Return, QueryInv, WorkTypes
<1>5. WorkTypes'
  BY <1>2, <1>3, <1>4 DEF QueryInv, WorkTypes
<1>6. cut'[q] = "none" /\ \A r \in Queries \ {q} : cut'[r] = cut[r]
  BY <1>2
<1> QED  BY <1>2, <1>3, <1>5, <1>6, AwaitedStepKeeps

LEMMA JobEndsKeeps == ASSUME QueryInv, NEW m \in Mails, JobEnds(m) PROVE QueryInv'
<1> DEFINE q == m[1]
<1>1. PICK how \in {"done", "failed"} : Pool!End(m, how)
  BY DEF JobEnds
<1>2. q \in Queries /\ m \in Of(q) /\ cut' = cut
  BY MailsAreOfQueries DEF JobEnds
<1>3. /\ PoolInv' /\ status[m] = "pending" /\ status'[m] = how
      /\ status' \in [Mails -> {"new", "pending", "done", "failed", "full", "cancelled"}]
      /\ \A j \in Mails \ {m} : status'[j] = status[j]
  BY <1>1, EndKeeps DEF QueryInv
<1> HIDE DEF q
<1>4. CASE work[q] = "parsing"
  <2>1. AwaitAll(q) /\ q \in inside /\ cut[q] = "none"
    BY <1>2, <1>4 DEF JobEnds, QueryInv, WorkOf, JobsOf, q
  <2>2. work' \in [Queries -> {"none", "fetching", "parsing", "over"}]
    BY <1>2, <2>1 DEF AwaitAll, Return, QueryInv, WorkTypes
  <2>3. WorkTypes'
    BY <1>2, <1>3, <2>2 DEF QueryInv, WorkTypes
  <2>4. \A j \in Mails \ Of(q) : status'[j] = status[j]
    BY <1>2, <1>3
  <2> QED  BY <1>2, <1>3, <2>1, <2>3, <2>4, AwaitedStepKeeps
<1>5. CASE work[q] # "parsing"
  <2>1. UNCHANGED <<inside, line, answer, work>>
    BY <1>5 DEF JobEnds, q
  <2>2. SlotsInv' /\ WorkTypes'
    BY <1>2, <1>3, <2>1 DEF QueryInv, SlotsInv, WorkTypes
  <2>3. answer[q] = "error" /\ cut[q] = "none" /\ work[q] = "over"
    <3>1. \E j \in Of(q) : status[j] = "pending"
      BY <1>2, <1>3
    <3>2. work[q] = "over"
      BY <1>2, <1>5, <3>1 DEF QueryInv, WorkTypes, JobsOf
    <3> QED  BY <1>2, <3>1, <3>2 DEF QueryInv, JobsOf
  <2>4. WorkOf(q)' /\ JobsOf(q)'
    BY <1>2, <2>1, <2>3 DEF QueryInv, WorkOf, JobsOf
  <2>5. ASSUME NEW r \in Queries \ {q} PROVE WorkOf(r)' /\ JobsOf(r)'
    <3>1. \A j \in Of(r) : status'[j] = status[j]
      BY <1>2, <1>3, Parts
    <3> QED  BY <1>2, <2>1, <3>1, OthersKeep DEF QueryInv
  <2> QED  BY <1>3, <2>2, <2>4, <2>5 DEF QueryInv
<1> QED  BY <1>4, <1>5

LEMMA CutKeeps ==
  ASSUME QueryInv, NEW q \in Queries, NEW why \in Aborted, Cut(q, why)
  PROVE  QueryInv'
<1>1. /\ work[q] \in {"fetching", "parsing"} /\ cut' = [cut EXCEPT ![q] = why]
      /\ Pool!Cancel(Of(q) \cap Pool!Unanswered) /\ q \in inside
  BY DEF Cut, QueryInv, WorkOf
<1>2. /\ PoolInv'
      /\ status' \in [Mails -> {"new", "pending", "done", "failed", "full", "cancelled"}]
      /\ \A m \in Of(q) : status'[m] = IF status[m] = "pending" THEN "cancelled" ELSE status[m]
      /\ \A m \in Mails \ Of(q) : status'[m] = status[m]
  BY <1>1, CancelKeeps DEF QueryInv
<1>3. cut' \in [Queries -> Aborted \cup {"none"}] /\ \A r \in Queries \ {q} : cut'[r] = cut[r]
  BY <1>1 DEF QueryInv, WorkTypes
<1>4. CASE work[q] = "parsing"
  <2>1. AwaitAll(q)
    BY <1>4 DEF Cut
  <2>2. work' \in [Queries -> {"none", "fetching", "parsing", "over"}]
    BY <2>1 DEF AwaitAll, Return, QueryInv, WorkTypes
  <2>3. WorkTypes'
    BY <1>2, <1>3, <2>2 DEF WorkTypes
  <2>4. \A m \in Of(q) : status'[m] # "pending"
    BY <1>2
  <2> QED  BY <1>1, <1>2, <1>3, <2>1, <2>3, <2>4, AwaitedStepKeeps
<1>5. CASE work[q] = "fetching"
  <2>1. UNCHANGED <<inside, line, answer, work>>
    BY <1>5 DEF Cut
  <2>2. SlotsInv' /\ WorkTypes'
    BY <1>2, <1>3, <2>1 DEF QueryInv, SlotsInv, WorkTypes
  <2>3. \A m \in Of(q) : status'[m] = "new"
    BY <1>2, <1>5 DEF QueryInv, JobsOf
  <2>4. WorkOf(q)' /\ JobsOf(q)'
    BY <1>5, <2>1, <2>3 DEF QueryInv, WorkOf, JobsOf, Of
  <2>5. ASSUME NEW r \in Queries \ {q} PROVE WorkOf(r)' /\ JobsOf(r)'
    <3>1. \A j \in Of(r) : status'[j] = status[j]
      BY <1>2, Parts
    <3> QED  BY <1>3, <2>1, <3>1, OthersKeep DEF QueryInv
  <2> QED  BY <1>2, <2>2, <2>4, <2>5 DEF QueryInv
<1> QED  BY <1>1, <1>4, <1>5

LEMMA QueryInductive == QueryInv /\ [QueryNext]_QueryVars => QueryInv'
<1> SUFFICES ASSUME QueryInv, [QueryNext]_QueryVars PROVE QueryInv'
  OBVIOUS
<1>1. ASSUME NEW q \in Queries, NoBinding(q) \/ Arrive(q) \/ GiveUp(q) PROVE QueryInv'
  BY <1>1, QueueStepsKeep
<1>2. ASSUME NEW q \in Queries, Step(q) PROVE QueryInv'
  BY <1>2, BeginLateKeeps, BeginKeeps, FetchFailsKeeps, FetchAnswersKeeps DEF Step
<1>3. ASSUME NEW q \in Queries, NEW why \in Aborted, Cut(q, why) PROVE QueryInv'
  BY <1>3, CutKeeps
<1>4. ASSUME NEW m \in Mails, JobEnds(m) PROVE QueryInv'
  BY <1>4, JobEndsKeeps
<1>5. CASE UNCHANGED QueryVars
  BY <1>5 DEF QueryVars, QueryInv, SlotsInv, WorkTypes, PoolInv, Pool!Unanswered, WorkOf, JobsOf
<1> QED  BY <1>1, <1>2, <1>3, <1>4, <1>5 DEF QueryNext

LEMMA QueryInvariance == QuerySpec => []QueryInv
BY QueryInitially, QueryInductive, PTL DEF QuerySpec

\* No more fetches at a time than there are slots, cancelled queries included: a slot
\* is passed on only when the fetch has ended.
THEOREM FetchesInLanes == QuerySpec => []UpstreamLanes
<1>1. QueryInv => UpstreamLanes
  <2> SUFFICES ASSUME QueryInv PROVE UpstreamLanes
    OBVIOUS
  <2> DEFINE fetching == {q \in Queries : work[q] = "fetching"}
  <2>1. fetching \subseteq inside
    BY DEF QueryInv, WorkOf
  <2>2. IsFiniteSet(inside) /\ Cardinality(inside) <= Slots
    BY DEF QueryInv, SlotsInv
  <2>3. /\ IsFiniteSet(fetching) /\ Cardinality(fetching) <= Cardinality(inside)
        /\ Cardinality(fetching) \in Nat /\ Cardinality(inside) \in Nat
    BY <2>1, <2>2, FS_Subset, FS_CardinalityType
  <2> QED  BY <2>2, <2>3, QueryAssumption DEF UpstreamLanes
<1> QED  BY <1>1, QueryInvariance, PTL

\* A query that was given up leaves nothing in the pool, and one that is answered
\* "ok" was not given up and has had every mail parsed.
THEOREM AnswersAlwaysAccountForJobs == QuerySpec => []AnswersAccountForJobs
<1>1. QueryInv => AnswersAccountForJobs
  <2> SUFFICES ASSUME QueryInv PROVE AnswersAccountForJobs
    OBVIOUS
  <2>1. ASSUME NEW m \in Pool!Unanswered PROVE cut[m[1]] = "none"
    <3>1. m[1] \in Queries /\ m \in Of(m[1]) /\ status[m] = "pending"
      BY MailsAreOfQueries DEF Pool!Unanswered
    <3> QED  BY <3>1 DEF QueryInv, JobsOf, WorkTypes
  <2>2. ASSUME NEW q \in Queries, answer[q] = "ok"
        PROVE  cut[q] = "none" /\ \A m \in Of(q) : status[m] \in {"new", "done"}
    BY <2>2 DEF QueryInv, WorkOf, JobsOf
  <2> QED  BY <2>1, <2>2 DEF AnswersAccountForJobs
<1> QED  BY <1>1, QueryInvariance, PTL

\* What a query was told is not taken back.
AnswersStay == \A q \in Queries : answer[q] # "none" => answer'[q] = answer[q]

\* Nor does it fetch, wait for jobs or hand new ones to the pool once it was told; the
\* jobs that still run behind an answer are those of a query that failed.
AnsweredForGood ==
  \A q \in Queries : answer[q] # "none" =>
    /\ answer'[q] = answer[q]
    /\ work'[q] \notin {"fetching", "parsing"}
    /\ \A m \in Of(q) : status'[m] = "pending" => status[m] = "pending" /\ answer[q] = "error"

\* Only a query that has not been answered yet can be answered by the queue.
LEMMA QueueAnswersOnce ==
  ASSUME SlotsInv, NEW q \in Queries, NEW a,
         Queue!Refuse(q, a) \/ Queue!GiveUp(q, a) \/ Queue!Finish(q, a)
  PROVE  AnswersStay
<1>1. answer[q] = "none"
  BY DEF SlotsInv, Queue!Refuse, Queue!Outside, Queue!GiveUp, Queue!Finish
<1>2. answer' = [answer EXCEPT ![q] = a]
  BY DEF Queue!Refuse, Queue!GiveUp, Queue!Finish
<1> QED  BY <1>1, <1>2 DEF SlotsInv, AnswersStay

\* Jobs are handed to the pool by a query that has its mails, and no other step adds any.
LEMMA NewJobsAreOfFetches ==
  ASSUME QueryInv, [QueryNext]_QueryVars, NEW q \in Queries, NEW m \in Of(q),
         status'[m] = "pending", status[m] # "pending"
  PROVE  answer[q] = "none"
<1>1. m \in Mails
  BY Parts
<1>2. PICK r \in Queries : FetchAnswers(r)
  <2>1. ASSUME NEW j \in Mails, JobEnds(j) PROVE FALSE
    <3>1. PICK how \in {"done", "failed"} : Pool!End(j, how)
      BY <2>1 DEF JobEnds
    <3>2. status'[j] = how /\ \A i \in Mails \ {j} : status'[i] = status[i]
      BY <3>1, EndKeeps DEF QueryInv
    <3> QED  BY <1>1, <3>2
  <2>2. ASSUME NEW r \in Queries, NEW why \in Aborted, Cut(r, why) PROVE FALSE
    <3>1. Pool!Cancel(Of(r) \cap Pool!Unanswered)
      BY <2>2 DEF Cut
    <3>2. /\ \A i \in Of(r) : status'[i] = IF status[i] = "pending" THEN "cancelled" ELSE status[i]
          /\ \A i \in Mails \ Of(r) : status'[i] = status[i]
      BY <3>1, CancelKeeps DEF QueryInv
    <3> QED  BY <1>1, <3>2
  <2>3. status' # status
    OBVIOUS
  <2> QED
    BY <2>1, <2>2, <2>3 DEF QueryNext, QueryVars, Step, NoBinding, Arrive, GiveUp, BeginLate,
                            BeginCancelled, Begin, FetchFails
<1>3. PICK toParse \in SUBSET Of(r) : Pool!Submit(toParse)
  BY <1>2 DEF FetchAnswers
<1>4. m \in toParse
  BY <1>1, <1>3, SubmitKeeps DEF QueryInv
<1>5. r = q
  BY <1>3, <1>4, Parts
<1>6. q \in inside
  BY <1>2, <1>5 DEF FetchAnswers, QueryInv, WorkOf
<1> QED  BY <1>6 DEF QueryInv, SlotsInv

\* A query that was told anything but "error" has no job in the pool.
LEMMA JobsBehindAnErrorOnly ==
  ASSUME QueryInv, NEW q \in Queries, NEW m \in Of(q), status[m] = "pending",
         answer[q] # "none"
  PROVE  answer[q] = "error"
<1>1. work[q] \notin {"fetching", "parsing"}
  BY DEF QueryInv, WorkOf, SlotsInv
<1>2. work[q] = "over"
  BY <1>1 DEF QueryInv, WorkTypes, JobsOf
<1> QED  BY <1>2 DEF QueryInv, JobsOf

LEMMA AnsweredForGoodStep == QueryInv /\ [QueryNext]_QueryVars => AnsweredForGood
<1> SUFFICES ASSUME QueryInv, [QueryNext]_QueryVars PROVE AnsweredForGood
  OBVIOUS
<1>1. SlotsInv /\ SlotsInv' /\ \A q \in Queries : WorkOf(q)'
  BY QueryInductive DEF QueryInv
<1>2. ASSUME UNCHANGED answer PROVE AnswersStay
  BY <1>2 DEF AnswersStay
<1>3. ASSUME NEW q \in Queries, NEW how, Return(q, how)
      PROVE  AnswersStay
  BY <1>1, <1>3, QueueAnswersOnce DEF Return
<1>4. ASSUME NEW q \in Queries, AwaitAll(q)
      PROVE  AnswersStay
  <2>1. UNCHANGED answer \/ Return(q, "ok") \/ Return(q, "error")
    BY <1>4 DEF AwaitAll
  <2> QED  BY <1>2, <1>3, <2>1
<1>5. ASSUME NEW q \in Queries, NoBinding(q) \/ Arrive(q) \/ GiveUp(q)
      PROVE  AnswersStay
  <2>1. UNCHANGED answer \/ \E a : Queue!Refuse(q, a) \/ Queue!GiveUp(q, a)
    BY <1>5 DEF NoBinding, Arrive, GiveUp, Queue!Enter, Queue!Join
  <2> QED  BY <1>1, <1>2, <2>1, QueueAnswersOnce
<1>6. ASSUME NEW q \in Queries, Step(q)
      PROVE  AnswersStay
  <2>1. CASE BeginLate(q) \/ BeginCancelled(q)
    BY <1>1, <2>1, QueueAnswersOnce DEF BeginLate, BeginCancelled
  <2>2. CASE Begin(q)
    BY <1>2, <2>2 DEF Begin
  <2>3. CASE FetchFails(q)
    BY <1>3, <2>3 DEF FetchFails
  <2>4. CASE FetchAnswers(q)
    BY <1>4, <2>4 DEF FetchAnswers
  <2> QED  BY <1>6, <2>1, <2>2, <2>3, <2>4 DEF Step
<1>7. ASSUME NEW q \in Queries, NEW why \in Aborted, Cut(q, why)
      PROVE  AnswersStay
  <2>1. UNCHANGED answer \/ AwaitAll(q)
    BY <1>7 DEF Cut
  <2> QED  BY <1>2, <1>4, <2>1
<1>8. ASSUME NEW m \in Mails, JobEnds(m)
      PROVE  AnswersStay
  <2>1. UNCHANGED answer \/ AwaitAll(m[1])
    BY <1>8 DEF JobEnds
  <2>2. m[1] \in Queries
    BY MailsAreOfQueries
  <2> QED  BY <1>2, <1>4, <2>1, <2>2
<1>9. ASSUME UNCHANGED QueryVars PROVE AnswersStay
  BY <1>2, <1>9 DEF QueryVars
<1>10. AnswersStay
  BY <1>5, <1>6, <1>7, <1>8, <1>9 DEF QueryNext
<1>11. \A r \in Queries : work'[r] \in {"fetching", "parsing"} => answer'[r] = "none"
  <2>1. \A r \in Queries : work'[r] \in {"fetching", "parsing"} => r \in inside'
    BY <1>1 DEF WorkOf
  <2>2. \A r \in inside' : answer'[r] = "none"
    BY <1>1 DEF SlotsInv
  <2> QED  BY <2>1, <2>2
<1>12. ASSUME NEW r \in Queries, NEW m \in Of(r), answer[r] # "none", status'[m] = "pending"
       PROVE  status[m] = "pending" /\ answer[r] = "error"
  <2>1. status[m] = "pending"
    BY <1>12, NewJobsAreOfFetches
  <2> QED  BY <1>12, <2>1, JobsBehindAnErrorOnly
<1> QED  BY <1>10, <1>11, <1>12 DEF AnsweredForGood, AnswersStay

\* A query is answered once and for good, whichever of its own work, the total timer,
\* the caller and the queue comes first.  When it is, it no longer fetches or waits for
\* jobs and never hands the pool another one.  Jobs it handed over before may go on
\* parsing behind the answer only if that is "error": the orphans of a failed query.
THEOREM QueriesAreAnsweredForGood == QuerySpec => [][AnsweredForGood]_QueryVars
<1>1. QueryInv /\ [QueryNext]_QueryVars => [AnsweredForGood]_QueryVars
  BY AnsweredForGoodStep
<1> QED  BY <1>1, QueryInvariance, PTL DEF QuerySpec

-------------------------------------------------------------------------------

LEMMA OneShareLess ==
  ASSUME NEW all \in Nat, NEW n \in Nat, n <= all, NEW size \in Nat
  PROVE  (n - 1) * size <= all * size - size
<1>1. PICK k \in Nat : all = n + k
  <2>1. all - n \in Nat /\ all = n + (all - n)
    OBVIOUS
  <2> QED  BY <2>1
<1>2. (n - 1) * size = n * size - size /\ all * size = n * size + k * size
  BY <1>1
<1>3. k * size \in Nat /\ n * size \in Nat
  OBVIOUS
<1> DEFINE a == n * size
           b == k * size
<1>4. (n - 1) * size = a - size /\ all * size = a + b /\ a \in Nat /\ b \in Nat
  BY <1>2, <1>3
<1> HIDE DEF a, b
<1> QED  BY <1>4

\* The jobs of the queries in the other slots leave room for all the mails of this one.
LEMMA RoomForOwnMails ==
  ASSUME QueryInv, Orphans = {}, NEW q \in Queries, work[q] = "fetching"
  PROVE  MaxMails <= PoolRoom - Cardinality(Pool!Unanswered)
<1> DEFINE others == inside \ {q}
           theirs == others \X (1 .. MaxMails)
<1>1. Pool!Unanswered \subseteq theirs
  <2> SUFFICES ASSUME NEW m \in Mails, status[m] = "pending" PROVE m \in theirs
    BY DEF Pool!Unanswered
  <2>1. m[1] \in Queries /\ m \in Of(m[1]) /\ m = <<m[1], m[2]>> /\ m[2] \in 1 .. MaxMails
    BY MailsAreOfQueries DEF Mails
  <2>2. answer[m[1]] = "none"
    BY DEF Orphans, Pool!Unanswered
  <2>3. work[m[1]] = "parsing"
    BY <2>1, <2>2 DEF QueryInv, WorkTypes, WorkOf, JobsOf
  <2>4. m[1] \in inside /\ m[1] # q
    BY <2>1, <2>3 DEF QueryInv, WorkOf
  <2> QED  BY <2>1, <2>4
<1>2. IsFiniteSet(inside) /\ Cardinality(inside) <= Slots /\ Cardinality(inside) \in Nat /\ q \in inside
  BY FS_CardinalityType DEF QueryInv, SlotsInv, WorkOf
<1>3. IsFiniteSet(others) /\ Cardinality(others) = Cardinality(inside) - 1
  BY <1>2, FS_RemoveElement
<1>4. IsFiniteSet(theirs) /\ Cardinality(theirs) = Cardinality(others) * MaxMails
  <2>1. others \in SUBSET Queries
    BY DEF QueryInv, SlotsInv
  <2> HIDE DEF others
  <2> QED  BY <1>3, <2>1, MailsOf
<1> HIDE DEF theirs, others
<1>5. Cardinality(Pool!Unanswered) <= Cardinality(theirs) /\ Cardinality(Pool!Unanswered) \in Nat
  BY <1>1, <1>4, FS_Subset, FS_CardinalityType
<1>6. Cardinality(theirs) = (Cardinality(inside) - 1) * MaxMails
  BY <1>3, <1>4
<1>7. (Cardinality(inside) - 1) * MaxMails <= Slots * MaxMails - MaxMails
  <2>1. Slots \in Nat /\ MaxMails \in Nat
    BY QueryAssumption
  <2> QED  BY <1>2, <2>1, OneShareLess, Zenon
<1> DEFINE all == Slots * MaxMails
<1>8. Cardinality(theirs) <= all - MaxMails
  BY <1>6, <1>7
<1>9. all \in Nat /\ MaxMails \in Nat /\ all <= PoolRoom /\ PoolRoom \in Nat
  BY QueryAssumption
<1>10. Cardinality(theirs) \in Nat
  BY <1>4, FS_CardinalityType
<1> HIDE DEF all
<1> QED  BY <1>5, <1>8, <1>9, <1>10

RefusedBehindOrphans ==
  \A m \in Mails : status[m] # "full" /\ status'[m] = "full" =>
    /\ Orphans # {}
    /\ \A o \in Orphans : answer[o[1]] = "error"

LEMMA OnlyFailedQueriesLeaveJobs == QueryInv => \A o \in Orphans : answer[o[1]] = "error"
<1> SUFFICES ASSUME QueryInv, NEW o \in Mails, status[o] = "pending", answer[o[1]] # "none"
             PROVE  answer[o[1]] = "error"
  BY DEF Orphans, Pool!Unanswered
<1>1. o[1] \in Queries /\ o \in Of(o[1])
  BY MailsAreOfQueries
<1>2. work[o[1]] = "over"
  BY <1>1 DEF QueryInv, SlotsInv, WorkTypes, WorkOf, JobsOf
<1> QED  BY <1>1, <1>2 DEF QueryInv, JobsOf

LEMMA RefusedBehindOrphansStep == QueryInv /\ [QueryNext]_QueryVars => RefusedBehindOrphans
<1> SUFFICES ASSUME QueryInv, [QueryNext]_QueryVars, NEW m \in Mails,
                    status[m] # "full", status'[m] = "full"
             PROVE  Orphans # {}
  BY OnlyFailedQueriesLeaveJobs DEF RefusedBehindOrphans
<1>1. PICK q \in Queries : FetchAnswers(q)
  <2>1. ASSUME NEW q \in Queries, NEW why \in Aborted, Cut(q, why) PROVE FALSE
    <3>1. Pool!Cancel(Of(q) \cap Pool!Unanswered)
      BY <2>1 DEF Cut
    <3>2. /\ \A j \in Of(q) : status'[j] = IF status[j] = "pending" THEN "cancelled" ELSE status[j]
          /\ \A j \in Mails \ Of(q) : status'[j] = status[j]
      BY <3>1, CancelKeeps DEF QueryInv
    <3> QED  BY <3>2
  <2>2. ASSUME NEW j \in Mails, JobEnds(j) PROVE FALSE
    <3>1. PICK how \in {"done", "failed"} : Pool!End(j, how)
      BY <2>2 DEF JobEnds
    <3>2. status'[j] = how /\ \A k \in Mails \ {j} : status'[k] = status[k]
      BY <3>1, EndKeeps DEF QueryInv
    <3> QED  BY <3>2
  <2>3. ASSUME NEW q \in Queries,
               \/ NoBinding(q) \/ Arrive(q) \/ GiveUp(q)
               \/ BeginLate(q) \/ BeginCancelled(q) \/ Begin(q) \/ FetchFails(q)
        PROVE  FALSE
    BY <2>3 DEF NoBinding, Arrive, GiveUp, BeginLate, BeginCancelled, Begin, FetchFails
  <2>4. ~UNCHANGED QueryVars
    BY DEF QueryVars
  <2> QED  BY <2>1, <2>2, <2>3, <2>4 DEF QueryNext, Step
<1>2. PICK toParse \in SUBSET Of(q) : Pool!Submit(toParse)
  BY <1>1 DEF FetchAnswers
<1>3. work[q] = "fetching"
  BY <1>1 DEF FetchAnswers
<1>4. m \in toParse /\ ~(Cardinality(toParse) <= PoolRoom - Cardinality(Pool!Unanswered))
  BY <1>2, SubmitKeeps DEF QueryInv
<1>5. /\ Cardinality(toParse) <= MaxMails /\ Cardinality(toParse) \in Nat
  BY <1>2, Parts, FS_Subset, FS_CardinalityType
<1>6. Cardinality(Pool!Unanswered) \in Nat
  BY FS_CardinalityType DEF QueryInv, PoolInv
<1>7. ~(MaxMails <= PoolRoom - Cardinality(Pool!Unanswered))
  BY <1>4, <1>5, <1>6, QueryAssumption
<1> QED  BY <1>3, <1>7, RoomForOwnMails

\* Only behind the jobs of a query that failed is a mail ever refused for want of
\* room: the queries in their slots fit the pool together.
THEOREM AlwaysRefusedBehindOrphans == QuerySpec => RefusedOnlyBehindOrphans
<1>1. QueryInv /\ [QueryNext]_QueryVars => [RefusedBehindOrphans]_QueryVars
  BY RefusedBehindOrphansStep
<1>2. [][RefusedBehindOrphans]_QueryVars <=> RefusedOnlyBehindOrphans
  BY PTL DEF RefusedOnlyBehindOrphans, RefusedBehindOrphans
<1> QED  BY <1>1, <1>2, QueryInvariance, PTL DEF QuerySpec

-------------------------------------------------------------------------------
(* What a query does to the pool in one turn of the event loop - it submits all  *)
(* its mails, or gives up all its jobs - is a run of the abstract pool, job by   *)
(* job, so that MailPool, which implements that pool, can take it.               *)

Statuses == {"new", "pending", "done", "failed", "full", "cancelled"}

\* A step of the abstract pool, as a relation of the jobs before and after it.
PoolStep(s, t) ==
  \E m \in Mails :
    \/ /\ s[m] = "new"
       /\ \/ /\ Cardinality({j \in Mails : s[j] = "pending"}) < PoolRoom
             /\ t = [s EXCEPT ![m] = "pending"]
          \/ /\ Cardinality({j \in Mails : s[j] = "pending"}) = PoolRoom
             /\ t = [s EXCEPT ![m] = "full"]
          \/ t = [s EXCEPT ![m] = "cancelled"]
    \/ /\ s[m] = "pending"
       /\ \E how \in {"done", "failed", "cancelled"} : t = [s EXCEPT ![m] = how]

LEMMA PoolStepIsNext ==
  ASSUME WorkTypes, PoolInv
  PROVE  Pool!Next <=> PoolStep(status, status')
<1> DEFINE held == Pool!Unanswered
           count == Cardinality(held)
<1>1. held = {j \in Mails : status[j] = "pending"}
  BY DEF Pool!Unanswered
<1>2. count \in Nat /\ count <= PoolRoom /\ PoolRoom \in Nat
  BY FS_CardinalityType, QueryAssumption DEF PoolInv
<1>3. ASSUME NEW m \in Mails, status[m] = "new"
      PROVE  Pool!Submit({m}) <=>
               \/ count < PoolRoom /\ status' = [status EXCEPT ![m] = "pending"]
               \/ count = PoolRoom /\ status' = [status EXCEPT ![m] = "full"]
  <2> DEFINE After(accepted) ==
        [j \in Mails |-> IF j \in accepted THEN "pending" ELSE IF j \in {m} THEN "full" ELSE status[j]]
             some == IF 1 < PoolRoom - count THEN 1 ELSE PoolRoom - count
  <2>1. Cardinality({m}) = 1 /\ Cardinality({}) = 0
    BY FS_Singleton, FS_EmptySet
  <2>2. Pool!Submit({m}) <=> \E accepted \in SUBSET {m} :
                               Cardinality(accepted) = some /\ status' = After(accepted)
    BY <1>3, <2>1, SameOperators DEF Pool!Submit
  <2>3. \A accepted \in SUBSET {m} : accepted = {} \/ accepted = {m}
    OBVIOUS
  <2>4. After({m}) = [status EXCEPT ![m] = "pending"] /\ After({}) = [status EXCEPT ![m] = "full"]
    BY DEF WorkTypes
  <2> HIDE DEF After, count
  <2>5. Pool!Submit({m}) <=> \/ some = 1 /\ status' = After({m})
                             \/ some = 0 /\ status' = After({})
    <3>1. {m} \in SUBSET {m} /\ {} \in SUBSET {m}
      OBVIOUS
    <3> HIDE DEF some
    <3> QED  BY <2>1, <2>2, <2>3, <3>1
  <2>6. (some = 1 <=> count < PoolRoom) /\ (some = 0 <=> count = PoolRoom)
    BY <1>2
  <2> QED  BY <2>4, <2>5, <2>6
<1>4. ASSUME NEW m \in Mails
      PROVE  Pool!Cancel({m}) <=> status[m] = "pending" /\ status' = [status EXCEPT ![m] = "cancelled"]
  BY DEF Pool!Cancel, Pool!Unanswered, WorkTypes
<1> HIDE DEF count
<1>5. Pool!Next <=>
        \E m \in Mails :
          \/ status[m] = "new" /\ Pool!Submit({m})
          \/ status[m] = "new" /\ status' = [status EXCEPT ![m] = "cancelled"]
          \/ Pool!Cancel({m})
          \/ \E how \in {"done", "failed"} :
               status[m] = "pending" /\ status' = [status EXCEPT ![m] = how]
  BY DEF Pool!Next, Pool!Submit, Pool!SubmitAborted, Pool!End
<1> QED  BY <1>1, <1>3, <1>4, <1>5 DEF PoolStep, count

\* Finitely many steps of the pool, one after the other.
PoolRun(s, t) ==
  \E n \in Nat : \E run \in [0 .. n -> [Mails -> Statuses]] :
    run[0] = s /\ run[n] = t /\ \A k \in 0 .. n - 1 : PoolStep(run[k], run[k + 1])

\* The jobs after the first k of a list have got their new status.
Midway(s, t, listed, k) ==
  [m \in Mails |-> IF \E i \in 1 .. k : listed[i] = m THEN t[m] ELSE s[m]]

\* A list of jobs in which none comes twice, and one that has all that change.
Listing(n, listed) ==
  /\ n \in Nat /\ listed \in [1 .. n -> Mails]
  /\ \A i, k \in 1 .. n : listed[i] = listed[k] => i = k

ListsChanges(n, listed, s, t) ==
  \A m \in Mails : s[m] # t[m] => \E i \in 1 .. n : listed[i] = m

MovesInTurn(n, listed, s, t) ==
  \A k \in 0 .. n - 1 : PoolStep(Midway(s, t, listed, k), Midway(s, t, listed, k + 1))

Standings == [Mails -> Statuses]

LEMMA MidwayMoves ==
  ASSUME NEW n, NEW listed, Listing(n, listed),
         NEW s \in Standings, NEW t \in Standings, NEW k \in 0 .. n - 1
  PROVE  /\ k + 1 \in 1 .. n /\ listed[k + 1] \in Mails
         /\ Midway(s, t, listed, k)[listed[k + 1]] = s[listed[k + 1]]
         /\ Midway(s, t, listed, k + 1)
              = [Midway(s, t, listed, k) EXCEPT ![listed[k + 1]] = t[listed[k + 1]]]
<1> USE DEF Listing, Standings
<1> DEFINE next == listed[k + 1]
           before == Midway(s, t, listed, k)
           after == Midway(s, t, listed, k + 1)
<1>1. k + 1 \in 1 .. n /\ next \in Mails /\ k \in Nat
  OBVIOUS
<1>2. ~\E i \in 1 .. k : listed[i] = next
  BY <1>1
<1>3. before[next] = s[next]
  BY <1>1, <1>2 DEF Midway
<1>4. after[next] = t[next]
  BY <1>1 DEF Midway
<1>5. ASSUME NEW m \in Mails, m # next PROVE after[m] = before[m]
  <2>1. (\E i \in 1 .. k + 1 : listed[i] = m) <=> (\E i \in 1 .. k : listed[i] = m)
    BY <1>1, <1>5
  <2> QED  BY <2>1 DEF Midway
<1>6. after = [m \in Mails |-> after[m]] /\ before = [m \in Mails |-> before[m]]
  BY DEF Midway
<1> HIDE DEF next, before, after
<1>7. after = [before EXCEPT ![next] = t[next]]
  BY <1>1, <1>4, <1>5, <1>6
<1> QED  BY <1>1, <1>3, <1>7 DEF next, before, after

\* Jobs that can move one after the other can move in a run.
LEMMA OneByOne ==
  ASSUME NEW n, NEW listed, Listing(n, listed), NEW s \in Standings, NEW t \in Standings,
         ListsChanges(n, listed, s, t), MovesInTurn(n, listed, s, t)
  PROVE  PoolRun(s, t)
<1> USE DEF Listing, Standings, ListsChanges, MovesInTurn
<1> DEFINE run == [k \in 0 .. n |-> Midway(s, t, listed, k)]
<1>1. \A k \in 0 .. n : Midway(s, t, listed, k) \in [Mails -> Statuses]
  BY DEF Midway
<1>2. run \in [0 .. n -> [Mails -> Statuses]]
  BY <1>1
<1>3. Midway(s, t, listed, 0) = s
  BY DEF Midway
<1>4. Midway(s, t, listed, n) = t
  BY DEF Midway
<1>5. run[0] = s /\ run[n] = t
  BY <1>3, <1>4
<1>6. ASSUME NEW k \in 0 .. n - 1 PROVE PoolStep(run[k], run[k + 1])
  <2>1. k \in 0 .. n /\ k + 1 \in 0 .. n
    OBVIOUS
  <2>2. run[k] = Midway(s, t, listed, k) /\ run[k + 1] = Midway(s, t, listed, k + 1)
    BY <2>1
  <2> QED  BY <2>2
<1> HIDE DEF run
<1> QED  BY <1>2, <1>5, <1>6 DEF PoolRun

LEMMA StandingStill == ASSUME NEW s \in [Mails -> Statuses] PROVE PoolRun(s, s)
<1> DEFINE run == [k \in 0 .. 0 |-> s]
<1>1. run \in [0 .. 0 -> [Mails -> Statuses]] /\ run[0] = s
  OBVIOUS
<1>2. \A k \in 0 .. 0 - 1 : PoolStep(run[k], run[k + 1])
  OBVIOUS
<1> HIDE DEF run
<1> QED  BY <1>1, <1>2 DEF PoolRun

\* The jobs of a set can be listed.
LEMMA Listed ==
  ASSUME NEW S \in SUBSET Mails, IsFiniteSet(S)
  PROVE  \E n \in Nat : \E listed \in [1 .. n -> S] :
           /\ \A i, k \in 1 .. n : listed[i] = listed[k] => i = k
           /\ \A m \in S : \E i \in 1 .. n : listed[i] = m
<1>1. PICK n \in Nat : ExistsBijection(1 .. n, S)
  BY FS_NatBijection
<1>2. PICK listed : listed \in Bijection(1 .. n, S)
  BY <1>1 DEF ExistsBijection
<1> QED  BY <1>2 DEF Bijection, Injection, IsInjective, Surjection

\* Jobs that are given up leave the pool one by one.
LEMMA CancelledInTurn ==
  ASSUME NEW S \in SUBSET Mails, IsFiniteSet(S),
         NEW s \in [Mails -> Statuses], NEW t \in [Mails -> Statuses],
         \A m \in S : s[m] = "pending" /\ t[m] = "cancelled",
         \A m \in Mails \ S : t[m] = s[m]
  PROVE  PoolRun(s, t)
<1>1. PICK n \in Nat : \E listed \in [1 .. n -> S] :
        /\ \A i, k \in 1 .. n : listed[i] = listed[k] => i = k
        /\ \A m \in S : \E i \in 1 .. n : listed[i] = m
  BY Listed
<1>2. PICK listed \in [1 .. n -> S] :
        /\ \A i, k \in 1 .. n : listed[i] = listed[k] => i = k
        /\ \A m \in S : \E i \in 1 .. n : listed[i] = m
  BY <1>1
<1>3. Listing(n, listed) /\ ListsChanges(n, listed, s, t) /\ s \in Standings /\ t \in Standings
  BY <1>2 DEF Listing, ListsChanges, Standings
<1>4. ASSUME NEW k \in 0 .. n - 1
      PROVE  PoolStep(Midway(s, t, listed, k), Midway(s, t, listed, k + 1))
  <2> DEFINE next == listed[k + 1]
             before == Midway(s, t, listed, k)
             after == Midway(s, t, listed, k + 1)
  <2>1. /\ k + 1 \in 1 .. n /\ next \in Mails /\ before[next] = s[next]
        /\ after = [before EXCEPT ![next] = t[next]]
    BY <1>3, MidwayMoves
  <2>2. next \in S
    BY <1>2, <2>1
  <2> HIDE DEF next, before, after
  <2>3. before[next] = "pending" /\ after = [before EXCEPT ![next] = "cancelled"]
    BY <2>1, <2>2
  <2>4. PoolStep(before, after)
    BY <2>1, <2>3 DEF PoolStep
  <2> QED  BY <2>4 DEF before, after
<1>5. MovesInTurn(n, listed, s, t)
  BY <1>4 DEF MovesInTurn
<1> QED  BY <1>3, <1>5, OneByOne

\* An abort takes back the jobs of a query.
LEMMA CancelRuns ==
  ASSUME WorkTypes, PoolInv, NEW q \in Queries, Pool!Cancel(Of(q) \cap Pool!Unanswered)
  PROVE  PoolRun(status, status')
<1> DEFINE S == Of(q) \cap Pool!Unanswered
<1>1. S \in SUBSET Mails /\ IsFiniteSet(S)
  BY Parts, FS_Subset DEF PoolInv
<1>2. status \in [Mails -> Statuses] /\ status' \in [Mails -> Statuses]
  BY CancelKeeps DEF WorkTypes, Statuses
<1>3. /\ \A m \in S : status[m] = "pending" /\ status'[m] = "cancelled"
      /\ \A m \in Mails \ S : status'[m] = status[m]
  BY CancelKeeps DEF Pool!Unanswered
<1> HIDE DEF S
<1> QED  BY <1>1, <1>2, <1>3, CancelledInTurn

\* The room is used up before a job is refused.
LEMMA RefusedWhenFull ==
  ASSUME WorkTypes, PoolInv, NEW q \in Queries, NEW toParse \in SUBSET Of(q), Pool!Submit(toParse),
         NEW m \in toParse, status'[m] = "full"
  PROVE  Cardinality(Pool!Unanswered') = PoolRoom
<1> DEFINE held == Pool!Unanswered
           room == PoolRoom - Cardinality(held)
<1>0. \A j \in toParse : status[j] = "new"
  BY DEF Pool!Submit
<1>1. PICK accepted \in SUBSET toParse :
        /\ Cardinality(accepted) = IF Cardinality(toParse) < room THEN Cardinality(toParse) ELSE room
        /\ status' = [j \in Mails |-> IF j \in accepted THEN "pending"
                                       ELSE IF j \in toParse THEN "full"
                                       ELSE status[j]]
  BY SameOperators DEF Pool!Submit
<1>2. IsFiniteSet(held) /\ Cardinality(held) \in Nat /\ Cardinality(held) <= PoolRoom
  BY FS_CardinalityType DEF PoolInv
<1>3. toParse \subseteq Mails /\ IsFiniteSet(toParse) /\ Cardinality(toParse) \in Nat
  BY Parts, FS_Subset, FS_CardinalityType
<1>4. IsFiniteSet(accepted) /\ Cardinality(accepted) \in Nat
  BY <1>1, <1>3, FS_Subset, FS_CardinalityType
<1>5. Pool!Unanswered' = held \cup accepted /\ held \cap accepted = {}
  BY <1>0, <1>1, <1>3 DEF Pool!Unanswered
<1>6. accepted # toParse
  BY <1>1, <1>3
<1>7. Cardinality(accepted) # Cardinality(toParse)
  BY <1>1, <1>3, <1>6, FS_Subset
<1> HIDE DEF held
<1>8. Cardinality(accepted) = PoolRoom - Cardinality(held)
  BY <1>1, <1>7
<1>9. Cardinality(held \cup accepted) = Cardinality(held) + Cardinality(accepted)
  <2>1. Cardinality(held \cup accepted)
          = Cardinality(held) + Cardinality(accepted) - Cardinality(held \cap accepted)
    BY <1>2, <1>4, FS_Union
  <2>2. Cardinality(held \cap accepted) = 0
    BY <1>5, FS_EmptySet DEF held
  <2> QED  BY <1>2, <1>4, <2>1, <2>2
<1> QED  BY <1>2, <1>4, <1>5, <1>8, <1>9, QueryAssumption DEF held

\* Jobs that are submitted enter the pool one by one, those that find room first.
LEMMA SubmittedInTurn ==
  ASSUME NEW accepted \in SUBSET Mails, NEW refused \in SUBSET Mails,
         IsFiniteSet(accepted), IsFiniteSet(refused), accepted \cap refused = {},
         NEW s \in [Mails -> Statuses], NEW t \in [Mails -> Statuses],
         \A m \in accepted : s[m] = "new" /\ t[m] = "pending",
         \A m \in refused : s[m] = "new" /\ t[m] = "full",
         \A m \in Mails \ (accepted \cup refused) : t[m] = s[m],
         IsFiniteSet({j \in Mails : t[j] = "pending"}),
         Cardinality({j \in Mails : t[j] = "pending"}) <= PoolRoom,
         refused # {} => Cardinality({j \in Mails : t[j] = "pending"}) = PoolRoom
  PROVE  PoolRun(s, t)
<1>1. PICK a \in Nat : \E first \in [1 .. a -> accepted] :
        /\ \A i, k \in 1 .. a : first[i] = first[k] => i = k
        /\ \A m \in accepted : \E i \in 1 .. a : first[i] = m
  BY Listed
<1>2. PICK first \in [1 .. a -> accepted] :
        /\ \A i, k \in 1 .. a : first[i] = first[k] => i = k
        /\ \A m \in accepted : \E i \in 1 .. a : first[i] = m
  BY <1>1
<1>3. PICK b \in Nat : \E second \in [1 .. b -> refused] :
        /\ \A i, k \in 1 .. b : second[i] = second[k] => i = k
        /\ \A m \in refused : \E i \in 1 .. b : second[i] = m
  BY Listed
<1>4. PICK second \in [1 .. b -> refused] :
        /\ \A i, k \in 1 .. b : second[i] = second[k] => i = k
        /\ \A m \in refused : \E i \in 1 .. b : second[i] = m
  BY <1>3
<1> DEFINE n == a + b
           listed == [i \in 1 .. n |-> IF i <= a THEN first[i] ELSE second[i - a]]
<1>5. n \in Nat
  OBVIOUS
<1>6. ASSUME NEW i \in 1 .. n
      PROVE  \/ i \in 1 .. a /\ listed[i] = first[i] /\ listed[i] \in accepted
             \/ i - a \in 1 .. b /\ ~(i <= a) /\ listed[i] = second[i - a] /\ listed[i] \in refused
  <2>1. CASE i <= a
    <3>1. i \in 1 .. a
      BY <2>1
    <3> QED  BY <2>1, <3>1
  <2>2. CASE ~(i <= a)
    <3>1. i - a \in 1 .. b
      BY <2>2
    <3> QED  BY <2>2, <3>1
  <2> QED  BY <2>1, <2>2
<1>7. /\ \A i \in 1 .. a : i \in 1 .. n /\ listed[i] = first[i]
      /\ \A i \in 1 .. b : i + a \in 1 .. n /\ listed[i + a] = second[i]
  <2>1. ASSUME NEW i \in 1 .. a PROVE i \in 1 .. n /\ listed[i] = first[i]
    OBVIOUS
  <2>2. ASSUME NEW i \in 1 .. b PROVE i + a \in 1 .. n /\ listed[i + a] = second[i]
    <3>1. i + a \in 1 .. n /\ ~(i + a <= a) /\ i + a - a = i
      OBVIOUS
    <3> QED  BY <3>1
  <2> QED  BY <2>1, <2>2
<1>8. listed \in [1 .. n -> Mails]
  <2>1. \A i \in 1 .. n : listed[i] \in Mails
    BY <1>6
  <2> QED  BY <2>1
<1> HIDE DEF listed
<1>9. ASSUME NEW i \in 1 .. n, NEW k \in 1 .. n, listed[i] = listed[k] PROVE i = k
  <2>1. CASE i \in 1 .. a /\ k \in 1 .. a
    BY <1>2, <1>7, <1>9, <2>1
  <2>2. CASE i \notin 1 .. a /\ k \notin 1 .. a
    <3>1. i - a = k - a
      BY <1>4, <1>6, <1>9, <2>2
    <3> QED  BY <3>1
  <2>3. CASE i \in 1 .. a /\ k \notin 1 .. a
    BY <1>6, <1>9, <2>3
  <2>4. CASE i \notin 1 .. a /\ k \in 1 .. a
    BY <1>6, <1>9, <2>4
  <2> QED  BY <2>1, <2>2, <2>3, <2>4
<1>10. ASSUME NEW m \in Mails, s[m] # t[m] PROVE \E i \in 1 .. n : listed[i] = m
  <2>1. m \in accepted \/ m \in refused
    BY <1>10
  <2>2. CASE m \in accepted
    BY <1>2, <1>7, <2>2
  <2>3. CASE m \in refused
    <3>1. PICK i \in 1 .. b : second[i] = m
      BY <1>4, <2>3
    <3> QED  BY <1>7, <3>1
  <2> QED  BY <2>1, <2>2, <2>3
<1> HIDE DEF n
<1>11. Listing(n, listed) /\ s \in Standings /\ t \in Standings
  BY <1>5, <1>8, <1>9 DEF Listing, Standings
<1>12. ListsChanges(n, listed, s, t)
  BY <1>10 DEF ListsChanges
<1>13. ASSUME NEW k \in 0 .. n - 1
       PROVE  PoolStep(Midway(s, t, listed, k), Midway(s, t, listed, k + 1))
  <2> DEFINE next == listed[k + 1]
             before == Midway(s, t, listed, k)
             after == Midway(s, t, listed, k + 1)
             waiting == {j \in Mails : before[j] = "pending"}
             all == {j \in Mails : t[j] = "pending"}
  <2>1. /\ k + 1 \in 1 .. n /\ next \in Mails /\ before[next] = s[next]
        /\ after = [before EXCEPT ![next] = t[next]]
    BY <1>11, MidwayMoves
  <2>2. next \in accepted \/ next \in refused
    BY <1>6, <2>1 DEF n
  <2>3. before[next] = "new"
    BY <2>1, <2>2
  <2>4. \A j \in Mails : before[j] = "pending" => t[j] = "pending"
    <3>1. \A j \in Mails : s[j] = "pending" => t[j] = "pending"
      OBVIOUS
    <3> QED  BY <3>1 DEF Midway
  <2>5. waiting \subseteq all /\ IsFiniteSet(waiting) /\ Cardinality(waiting) \in Nat
    BY <2>4, FS_Subset, FS_CardinalityType
  <2>6. CASE next \in accepted
    <3>1. next \in all /\ next \notin waiting
      BY <2>3, <2>6
    <3> HIDE DEF waiting, all
    <3>2. IsFiniteSet(all) /\ Cardinality(all) \in Nat /\ Cardinality(all) <= PoolRoom
      BY FS_CardinalityType DEF all
    <3>3. Cardinality(waiting) <= Cardinality(all) /\ (Cardinality(waiting) = Cardinality(all) => waiting = all)
      BY <2>5, <3>2, FS_Subset
    <3>4. Cardinality(waiting) < PoolRoom
      BY <2>5, <3>1, <3>2, <3>3, QueryAssumption
    <3>5. after = [before EXCEPT ![next] = "pending"]
      BY <2>1, <2>6
    <3> HIDE DEF next, before, after
    <3>6. PoolStep(before, after)
      BY <2>1, <2>3, <3>4, <3>5 DEF PoolStep, waiting
    <3> QED  BY <3>6 DEF before, after
  <2>7. CASE next \in refused
    <3>1. ~(k + 1 <= a)
      BY <1>6, <2>1, <2>7 DEF n
    <3>2. ASSUME NEW j \in all PROVE j \in waiting
      <4>1. CASE j \in accepted \cup refused
        <5>1. j \in accepted
          BY <3>2, <4>1
        <5>2. PICK i \in 1 .. a : first[i] = j
          BY <1>2, <5>1
        <5>3. i \in 1 .. k /\ listed[i] = j
          BY <1>7, <3>1, <5>2
        <5> QED  BY <3>2, <5>3 DEF Midway
      <4>2. CASE j \notin accepted \cup refused
        BY <3>2, <4>2 DEF Midway
      <4> QED  BY <4>1, <4>2
    <3>3. waiting = all
      BY <2>5, <3>2
    <3>4. Cardinality(waiting) = PoolRoom
      BY <2>7, <3>3
    <3>5. after = [before EXCEPT ![next] = "full"]
      BY <2>1, <2>7
    <3> HIDE DEF next, before, after
    <3>6. PoolStep(before, after)
      BY <2>1, <2>3, <3>4, <3>5 DEF PoolStep
    <3> QED  BY <3>6 DEF before, after
  <2> QED  BY <2>2, <2>6, <2>7
<1>14. MovesInTurn(n, listed, s, t)
  BY <1>13 DEF MovesInTurn
<1> QED  BY <1>11, <1>12, <1>14, OneByOne

\* The mails of a query are submitted together.
LEMMA SubmitRuns ==
  ASSUME WorkTypes, PoolInv, NEW q \in Queries, NEW toParse \in SUBSET Of(q), Pool!Submit(toParse)
  PROVE  PoolRun(status, status')
<1> DEFINE accepted == {m \in toParse : status'[m] = "pending"}
           refused == {m \in toParse : status'[m] = "full"}
           held == {j \in Mails : status'[j] = "pending"}
<1>1. toParse \subseteq Mails /\ IsFiniteSet(toParse)
  BY Parts, FS_Subset
<1>2. accepted \in SUBSET Mails /\ IsFiniteSet(accepted) /\ refused \in SUBSET Mails /\ IsFiniteSet(refused)
  BY <1>1, FS_Subset
<1>3. /\ status \in [Mails -> Statuses] /\ status' \in [Mails -> Statuses]
      /\ PoolInv' /\ toParse = accepted \cup refused
      /\ \A m \in toParse : status[m] = "new"
      /\ \A m \in Mails \ toParse : status'[m] = status[m]
  <2>1. \A m \in toParse : status[m] = "new"
    BY DEF Pool!Submit
  <2>2. \A m \in toParse : status'[m] \in {"pending", "full"}
    BY SubmitKeeps
  <2> QED  BY <2>1, <2>2, SubmitKeeps DEF WorkTypes, Statuses
<1>4. /\ \A m \in accepted : status[m] = "new" /\ status'[m] = "pending"
      /\ \A m \in refused : status[m] = "new" /\ status'[m] = "full"
      /\ \A m \in Mails \ (accepted \cup refused) : status'[m] = status[m]
      /\ accepted \cap refused = {}
  BY <1>1, <1>3
<1>5. refused # {} => Cardinality(held) = PoolRoom
  BY RefusedWhenFull DEF Pool!Unanswered
<1>6. IsFiniteSet(held) /\ Cardinality(held) <= PoolRoom
  BY <1>3 DEF PoolInv, Pool!Unanswered
<1> HIDE DEF accepted, refused
<1> QED  BY <1>2, <1>3, <1>4, <1>5, <1>6, SubmittedInTurn

LEMMA EndRuns ==
  ASSUME WorkTypes, PoolInv, NEW m \in Mails, NEW how \in {"done", "failed"}, Pool!End(m, how)
  PROVE  PoolRun(status, status')
<1> DEFINE run == [k \in 0 .. 1 |-> IF k = 0 THEN status ELSE status']
<1>1. status \in [Mails -> Statuses] /\ status' \in [Mails -> Statuses]
  BY EndKeeps DEF WorkTypes, Statuses
<1>2. run \in [0 .. 1 -> [Mails -> Statuses]] /\ run[0] = status /\ run[0 + 1] = status' /\ run[1] = status'
  BY <1>1
<1>3. PoolStep(status, status')
  BY DEF Pool!End, PoolStep
<1> HIDE DEF run
<1>4. \A k \in 0 .. 1 - 1 : PoolStep(run[k], run[k + 1])
  BY <1>2, <1>3
<1> QED  BY <1>2, <1>4 DEF PoolRun

LEMMA QueriesStepThePool == QueryInv /\ [QueryNext]_QueryVars => PoolRun(status, status')
<1> SUFFICES ASSUME QueryInv, [QueryNext]_QueryVars PROVE PoolRun(status, status')
  OBVIOUS
<1>0. WorkTypes /\ PoolInv /\ status \in [Mails -> Statuses]
  BY DEF QueryInv, WorkTypes, Statuses
<1>1. ASSUME NEW q \in Queries, FetchAnswers(q) PROVE PoolRun(status, status')
  <2>1. PICK toParse \in SUBSET Of(q) : Pool!Submit(toParse)
    BY <1>1 DEF FetchAnswers
  <2> QED  BY <1>0, <2>1, SubmitRuns
<1>2. ASSUME NEW q \in Queries, NEW why \in Aborted, Cut(q, why) PROVE PoolRun(status, status')
  BY <1>0, <1>2, CancelRuns DEF Cut
<1>3. ASSUME NEW m \in Mails, JobEnds(m) PROVE PoolRun(status, status')
  BY <1>0, <1>3, EndRuns DEF JobEnds
<1>4. ASSUME NEW q \in Queries,
             \/ NoBinding(q) \/ Arrive(q) \/ GiveUp(q)
             \/ BeginLate(q) \/ BeginCancelled(q) \/ Begin(q) \/ FetchFails(q)
      PROVE  PoolRun(status, status')
  <2>1. status' = status
    BY <1>4 DEF NoBinding, Arrive, GiveUp, BeginLate, BeginCancelled, Begin, FetchFails
  <2> QED  BY <1>0, <2>1, StandingStill
<1>5. CASE UNCHANGED QueryVars
  <2>1. status' = status
    BY <1>5 DEF QueryVars
  <2> QED  BY <1>0, <2>1, StandingStill
<1> QED  BY <1>1, <1>2, <1>3, <1>4, <1>5 DEF QueryNext, Step

\* What a query does in one turn - submits all its mails (parseMany), gives up all its
\* jobs (the abort listeners), takes an answer - is a run of the abstract pool job by
\* job, so what MailPool was shown to implement is all that a query relies on.
THEOREM PoolUsedAsPromised == QuerySpec => [][PoolRun(status, status')]_QueryVars
<1>1. QueryInv /\ [QueryNext]_QueryVars => [PoolRun(status, status')]_QueryVars
  BY QueriesStepThePool
<1> QED  BY <1>1, QueryInvariance, PTL DEF QuerySpec

-------------------------------------------------------------------------------
(* EmailHistory.  Its loops are recursive functions of the number of turns.     *)

LEMMA LeastNatural ==
  ASSUME NEW T \in SUBSET Nat, T # {}
  PROVE  \E n \in T : \A m \in T : n <= m
<1> DEFINE R == OpToRel(<, Nat)
<1>1. IsWellFoundedOn(R, Nat)
  BY NatLessThanWellFounded
<1>2. \A m, n \in Nat : m < n => <<m, n>> \in R
  BY DEF OpToRel
<1> HIDE DEF R
<1>3. \E n \in T : \A m \in T : ~(<<m, n>> \in R)
  BY <1>1, WFMin
<1>4. PICK n \in T : \A m \in T : ~(<<m, n>> \in R)
  BY <1>3
<1>5. \A m \in T : ~(m < n)
  BY <1>2, <1>4, Zenon
<1> QED  BY <1>5

\* What holds before the first turn, and after a turn if it held before it, holds
\* after every turn.
LEMMA TurnByTurn ==
  ASSUME NEW turns \in Nat, NEW S, 0 \in S, \A n \in 1 .. turns : n - 1 \in S => n \in S
  PROVE  \A n \in 0 .. turns : n \in S
<1> DEFINE T == {n \in 0 .. turns : n \notin S}
<1> SUFFICES ASSUME T # {} PROVE FALSE
  OBVIOUS
<1>1. PICK n \in T : \A m \in T : n <= m
  <2>1. T \in SUBSET Nat
    OBVIOUS
  <2> HIDE DEF T
  <2> QED  BY <2>1, LeastNatural
<1>2. n \in 1 .. turns /\ n - 1 \in 0 .. turns /\ n - 1 \notin T
  BY <1>1
<1> QED  BY <1>1, <1>2

\* The function that sanitizeHistory's loop defines.
LEMMA CollectedTurns ==
  ASSUME NEW values \in Seq(Addresses)
  PROVE  /\ Collected(values)[0] = <<>>
         /\ \A n \in 1 .. Len(values) :
              Collected(values)[n] = Taken(Collected(values)[n - 1], values[n])
<1> DEFINE Turns(g, n) ==
             g = [k \in 0 .. n |-> IF k = 0 THEN <<>> ELSE Taken(g[k - 1], values[k])]
           S == {n \in Nat : \E g : Turns(g, n)}
<1>1. 0 \in S
  <2> DEFINE g == [k \in 0 .. 0 |-> <<>>]
  <2>1. \A k \in 0 .. 0 : k = 0
    OBVIOUS
  <2>2. [k \in 0 .. 0 |-> IF k = 0 THEN <<>> ELSE Taken(g[k - 1], values[k])] = g
    BY <2>1
  <2>3. Turns(g, 0)
    BY <2>2
  <2> QED  BY <2>3
<1>2. ASSUME NEW n \in 1 .. Len(values), n - 1 \in S PROVE n \in S
  <2>1. PICK g : Turns(g, n - 1)
    BY <1>2
  <2> DEFINE h == [k \in 0 .. n |-> IF k = n THEN Taken(g[n - 1], values[n]) ELSE g[k]]
  <2>2. ASSUME NEW k \in 0 .. n
        PROVE  h[k] = IF k = 0 THEN <<>> ELSE Taken(h[k - 1], values[k])
    <3>1. CASE k = n
      <4>1. h[k] = Taken(g[n - 1], values[n]) /\ h[k - 1] = g[n - 1] /\ k # 0
        BY <3>1
      <4> QED  BY <3>1, <4>1
    <3>2. CASE k # n
      <4>1. k \in 0 .. n - 1 /\ h[k] = g[k] /\ (k # 0 => h[k - 1] = g[k - 1])
        BY <3>2
      <4>2. g[k] = IF k = 0 THEN <<>> ELSE Taken(g[k - 1], values[k])
        BY <2>1, <4>1
      <4> QED  BY <4>1, <4>2
    <3> QED  BY <3>1, <3>2
  <2>3. h = [k \in 0 .. n |-> IF k = 0 THEN <<>> ELSE Taken(h[k - 1], values[k])]
    <3> DEFINE e == [k \in 0 .. n |-> IF k = 0 THEN <<>> ELSE Taken(h[k - 1], values[k])]
    <3>1. \A k \in 0 .. n : h[k] = e[k]
      BY <2>2
    <3> QED  BY <3>1
  <2>4. Turns(h, n)
    BY <2>3
  <2> HIDE DEF h
  <2>5. \E f : Turns(f, n)
    BY <2>4
  <2> HIDE DEF Turns
  <2> QED  BY <2>5
<1>3. Len(values) \in S
  <2>1. Len(values) \in Nat
    OBVIOUS
  <2> HIDE DEF S
  <2>2. \A n \in 0 .. Len(values) : n \in S
    BY <1>1, <1>2, <2>1, TurnByTurn
  <2> QED  BY <2>1, <2>2
<1>4. Turns(Collected(values), Len(values))
  BY <1>3, Zenon DEF Collected
<1> QED  BY <1>4

\* A turn keeps what every list of the history is.
LEMMA TakenKeeps ==
  ASSUME NEW list \in Seq(Addresses), WellFormed(list), NEW value \in Addresses
  PROVE  Taken(list, value) \in Seq(Addresses) /\ WellFormed(Taken(list, value))
<1>1. CASE \/ value \in Refused
           \/ \E n \in DOMAIN list : SameKey(list[n], value)
           \/ Len(list) = Limit
  BY <1>1 DEF Taken
<1>2. CASE ~(\/ value \in Refused
             \/ \E n \in DOMAIN list : SameKey(list[n], value)
             \/ Len(list) = Limit)
  <2> DEFINE longer == Append(list, value)
  <2>1. /\ longer \in Seq(Addresses) /\ Len(longer) = Len(list) + 1
        /\ DOMAIN longer = 1 .. Len(list) + 1
        /\ longer[Len(list) + 1] = value
        /\ \A n \in 1 .. Len(list) : longer[n] = list[n]
    OBVIOUS
  <2>2. Len(list) \in Nat /\ DOMAIN list = 1 .. Len(list) /\ Len(list) <= Limit
    BY DEF WellFormed
  <2>0. Len(list) # Limit
    BY <1>2
  <2>3. Len(list) + 1 <= Limit
    <3> DEFINE length == Len(list)
    <3>1. length \in Nat /\ Limit \in Nat /\ length <= Limit /\ length # Limit
      BY <2>0, <2>2, HistoryAssumption
    <3> HIDE DEF length
    <3>2. length + 1 <= Limit
      BY <3>1
    <3> QED  BY <3>2 DEF length
  <2> HIDE DEF longer
  <2>4. \A n \in DOMAIN longer : n = Len(list) + 1 \/ n \in DOMAIN list
    BY <2>1, <2>2
  <2>5. \A n \in DOMAIN longer : longer[n] \in Addresses \ Refused
    <3> SUFFICES ASSUME NEW n \in DOMAIN longer PROVE longer[n] \in Addresses \ Refused
      OBVIOUS
    <3>1. CASE n = Len(list) + 1
      BY <1>2, <2>1, <3>1
    <3>2. CASE n \in DOMAIN list
      BY <2>1, <2>2, <3>2 DEF WellFormed
    <3> QED  BY <2>4, <3>1, <3>2
  <2>6. ASSUME NEW m \in DOMAIN longer, NEW n \in DOMAIN longer, SameKey(longer[m], longer[n])
        PROVE  m = n
    BY <1>2, <2>1, <2>2, <2>4, <2>6 DEF WellFormed, SameKey
  <2>7. Taken(list, value) = longer
    BY <1>2 DEF Taken, longer
  <2> QED  BY <2>1, <2>3, <2>5, <2>6, <2>7 DEF WellFormed
<1> QED  BY <1>1, <1>2

LEMMA EmptyWellFormed == <<>> \in Seq(Addresses) /\ WellFormed(<<>>)
BY HistoryAssumption DEF WellFormed

\* sanitizeHistory, whatever list it is given (what the storage holds, say): no two
\* spellings of a mailbox, nothing that is refused, no more than the limit.
THEOREM SanitizedWellFormed ==
  ASSUME NEW values \in Seq(Addresses)
  PROVE  Sanitized(values) \in Seq(Addresses) /\ WellFormed(Sanitized(values))
<1> DEFINE S == {n \in 0 .. Len(values) : /\ Collected(values)[n] \in Seq(Addresses)
                                         /\ WellFormed(Collected(values)[n])}
<1>0. Len(values) \in Nat
  OBVIOUS
<1>1. 0 \in S
  <2>1. Collected(values)[0] = <<>> /\ 0 \in 0 .. Len(values)
    BY <1>0, CollectedTurns
  <2>2. Collected(values)[0] \in Seq(Addresses) /\ WellFormed(Collected(values)[0])
    BY <2>1, EmptyWellFormed
  <2> QED  BY <2>1, <2>2
<1>2. ASSUME NEW n \in 1 .. Len(values), n - 1 \in S PROVE n \in S
  <2>1. Collected(values)[n] = Taken(Collected(values)[n - 1], values[n]) /\ values[n] \in Addresses
    BY CollectedTurns
  <2> QED  BY <1>2, <2>1, TakenKeeps
<1> HIDE DEF S
<1>3. Len(values) \in S
  <2>1. \A n \in 0 .. Len(values) : n \in S
    BY <1>0, <1>1, <1>2, TurnByTurn
  <2> QED  BY <1>0, <2>1
<1> QED  BY <1>3 DEF S, Sanitized

\* What sanitizeHistory returned once it returns again, in the same order: nothing is
\* left to take out, so what the page stores is what it will load.
THEOREM SanitizedAgain ==
  ASSUME NEW values \in Seq(Addresses), WellFormed(values)
  PROVE  Sanitized(values) = values
<1> DEFINE S == {n \in 0 .. Len(values) : Collected(values)[n] = SubSeq(values, 1, n)}
<1>0. Len(values) \in Nat /\ Len(values) <= Limit
  BY DEF WellFormed
<1>1. 0 \in S
  <2>1. SubSeq(values, 1, 0) = <<>>
    OBVIOUS
  <2>2. Collected(values)[0] = <<>> /\ 0 \in 0 .. Len(values)
    BY <1>0, CollectedTurns
  <2> QED  BY <2>1, <2>2
<1>2. ASSUME NEW n \in 1 .. Len(values), n - 1 \in S PROVE n \in S
  <2> DEFINE before == SubSeq(values, 1, n - 1)
  <2>1. Collected(values)[n] = Taken(before, values[n])
    BY <1>2, CollectedTurns
  <2>2. /\ before \in Seq(Addresses) /\ Len(before) = n - 1 /\ DOMAIN before = 1 .. n - 1
        /\ \A m \in 1 .. n - 1 : before[m] = values[m]
    OBVIOUS
  <2>3. Append(before, values[n]) = SubSeq(values, 1, n)
    <3> DEFINE longer == Append(before, values[n])
               after == SubSeq(values, 1, n)
    <3>1. /\ longer \in Seq(Addresses) /\ Len(longer) = n
          /\ \A m \in 1 .. n : longer[m] = values[m]
      BY <2>2
    <3>2. /\ after \in Seq(Addresses) /\ Len(after) = n
          /\ \A m \in 1 .. n : after[m] = values[m]
      OBVIOUS
    <3> HIDE DEF longer, after
    <3>3. longer = after
      BY <3>1, <3>2, SeqEqual
    <3> QED  BY <3>3 DEF longer, after
  <2> HIDE DEF before
  <2>4. ~(\/ values[n] \in Refused
          \/ \E m \in DOMAIN before : SameKey(before[m], values[n])
          \/ Len(before) = Limit)
    <3>1. n \in DOMAIN values /\ values[n] \notin Refused
      BY DEF WellFormed
    <3>2. ASSUME NEW m \in DOMAIN before PROVE ~SameKey(before[m], values[n])
      <4>1. m \in DOMAIN values /\ m # n /\ before[m] = values[m]
        BY <2>2
      <4> QED  BY <3>1, <4>1 DEF WellFormed
    <3> QED  BY <1>0, <2>2, <3>1, <3>2, HistoryAssumption
  <2>5. Taken(before, values[n]) = Append(before, values[n])
    BY <2>4 DEF Taken
  <2> QED  BY <2>1, <2>3, <2>5
<1> HIDE DEF S
<1>3. Len(values) \in S
  <2>1. \A n \in 0 .. Len(values) : n \in S
    BY <1>0, <1>1, <1>2, TurnByTurn
  <2> QED  BY <1>0, <2>1
<1>4. SubSeq(values, 1, Len(values)) = values
  OBVIOUS
<1> QED  BY <1>3, <1>4 DEF S, Sanitized

\* The function that the filter defines.
LEMMA SparedTurns ==
  ASSUME NEW entries \in Seq(Addresses), NEW email
  PROVE  /\ Spared(entries, email)[0] = <<>>
         /\ \A n \in 1 .. Len(entries) :
              Spared(entries, email)[n] =
                IF SameKey(entries[n], email) THEN Spared(entries, email)[n - 1]
                ELSE Append(Spared(entries, email)[n - 1], entries[n])
<1> DEFINE Turn(list, n) == IF SameKey(entries[n], email) THEN list ELSE Append(list, entries[n])
           Turns(g, n) == g = [k \in 0 .. n |-> IF k = 0 THEN <<>> ELSE Turn(g[k - 1], k)]
           S == {n \in Nat : \E g : Turns(g, n)}
<1> HIDE DEF Turn
<1>1. 0 \in S
  <2> DEFINE g == [k \in 0 .. 0 |-> <<>>]
  <2>1. \A k \in 0 .. 0 : k = 0
    OBVIOUS
  <2>2. [k \in 0 .. 0 |-> IF k = 0 THEN <<>> ELSE Turn(g[k - 1], k)] = g
    BY <2>1
  <2>3. Turns(g, 0)
    BY <2>2
  <2> QED  BY <2>3
<1>2. ASSUME NEW n \in 1 .. Len(entries), n - 1 \in S PROVE n \in S
  <2>1. PICK g : Turns(g, n - 1)
    BY <1>2
  <2> DEFINE h == [k \in 0 .. n |-> IF k = n THEN Turn(g[n - 1], n) ELSE g[k]]
  <2>2. ASSUME NEW k \in 0 .. n
        PROVE  h[k] = IF k = 0 THEN <<>> ELSE Turn(h[k - 1], k)
    <3>1. CASE k = n
      <4>1. h[k] = Turn(g[n - 1], n) /\ h[k - 1] = g[n - 1] /\ k # 0
        BY <3>1
      <4> QED  BY <3>1, <4>1
    <3>2. CASE k # n
      <4>1. k \in 0 .. n - 1 /\ h[k] = g[k] /\ (k # 0 => h[k - 1] = g[k - 1])
        BY <3>2
      <4>2. g[k] = IF k = 0 THEN <<>> ELSE Turn(g[k - 1], k)
        BY <2>1, <4>1
      <4> QED  BY <4>1, <4>2
    <3> QED  BY <3>1, <3>2
  <2>3. h = [k \in 0 .. n |-> IF k = 0 THEN <<>> ELSE Turn(h[k - 1], k)]
    <3> DEFINE e == [k \in 0 .. n |-> IF k = 0 THEN <<>> ELSE Turn(h[k - 1], k)]
    <3>1. \A k \in 0 .. n : h[k] = e[k]
      BY <2>2
    <3> QED  BY <3>1
  <2>4. Turns(h, n)
    BY <2>3
  <2> HIDE DEF h
  <2>5. \E f : Turns(f, n)
    BY <2>4
  <2> HIDE DEF Turns
  <2> QED  BY <2>5
<1>3. Len(entries) \in S
  <2>1. Len(entries) \in Nat
    OBVIOUS
  <2> HIDE DEF S
  <2>2. \A n \in 0 .. Len(entries) : n \in S
    BY <1>1, <1>2, <2>1, TurnByTurn
  <2> QED  BY <2>1, <2>2
<1>4. Turns(Spared(entries, email), Len(entries))
  BY <1>3, Zenon DEF Spared, Turn
<1>5. /\ Spared(entries, email)[0] = <<>>
      /\ \A n \in 1 .. Len(entries) :
           Spared(entries, email)[n] = Turn(Spared(entries, email)[n - 1], n)
  BY <1>4
<1> QED  BY <1>5, Zenon DEF Turn

\* The filter leaves, of a list without two spellings of a mailbox, such a list in
\* which the mailbox does not occur.
THEOREM WithoutWellFormed ==
  ASSUME NEW values \in Seq(Addresses), NEW email \in Addresses
  PROVE  /\ Without(values, email) \in Seq(Addresses)
         /\ WellFormed(Without(values, email))
         /\ \A n \in DOMAIN Without(values, email) : ~SameKey(Without(values, email)[n], email)
<1> DEFINE entries == Sanitized(values)
<1>0. entries \in Seq(Addresses) /\ WellFormed(entries)
  BY SanitizedWellFormed
<1> HIDE DEF entries
<1> DEFINE From(list, n) ==
             /\ list \in Seq(Addresses)
             /\ Len(list) <= n
             /\ \A k \in DOMAIN list : ~SameKey(list[k], email) /\ list[k] \notin Refused
             /\ \A k \in DOMAIN list : \E m \in 1 .. n : list[k] = entries[m]
             /\ \A j, k \in DOMAIN list : SameKey(list[j], list[k]) => j = k
           S == {n \in 0 .. Len(entries) : From(Spared(entries, email)[n], n)}
<1>1. 0 \in S
  <2>1. Spared(entries, email)[0] = <<>> /\ 0 \in 0 .. Len(entries)
    BY <1>0, SparedTurns
  <2>2. From(<<>>, 0)
    OBVIOUS
  <2> QED  BY <2>1, <2>2
<1>2. ASSUME NEW n \in 1 .. Len(entries), n - 1 \in S PROVE n \in S
  <2> DEFINE list == Spared(entries, email)[n - 1]
             next == Spared(entries, email)[n]
             longer == Append(list, entries[n])
  <2>1. next = IF SameKey(entries[n], email) THEN list ELSE longer
    BY <1>0, SparedTurns
  <2>2. From(list, n - 1) /\ n \in 0 .. Len(entries) /\ entries[n] \in Addresses /\ n \in DOMAIN entries
    BY <1>0, <1>2
  <2> HIDE DEF list, next
  <2>3. From(list, n)
    <3>1. Len(list) <= n
      BY <2>2
    <3>2. \A m \in 1 .. n - 1 : m \in 1 .. n
      OBVIOUS
    <3> QED  BY <2>2, <3>1, <3>2
  <2>4. CASE ~SameKey(entries[n], email)
    <3>1. /\ longer \in Seq(Addresses) /\ Len(longer) = Len(list) + 1
          /\ DOMAIN longer = 1 .. Len(list) + 1 /\ longer[Len(list) + 1] = entries[n]
          /\ \A k \in 1 .. Len(list) : longer[k] = list[k]
          /\ DOMAIN list = 1 .. Len(list) /\ Len(list) \in Nat
      BY <2>2
    <3>2. Len(longer) <= n
      BY <2>2, <3>1
    <3> HIDE DEF longer
    <3>3. \A k \in DOMAIN longer : k = Len(list) + 1 \/ k \in DOMAIN list
      BY <3>1
    <3>4. entries[n] \notin Refused
      BY <1>0, <2>2 DEF WellFormed
    <3>5. ASSUME NEW k \in DOMAIN longer
          PROVE  ~SameKey(longer[k], email) /\ longer[k] \notin Refused
      BY <2>2, <2>4, <3>1, <3>3, <3>4
    <3>6. ASSUME NEW k \in DOMAIN longer
          PROVE  \E m \in 1 .. n : longer[k] = entries[m]
      <4>1. CASE k = Len(list) + 1
        <5>1. n \in 1 .. n
          OBVIOUS
        <5> QED  BY <3>1, <4>1, <5>1
      <4>2. CASE k \in DOMAIN list
        BY <2>3, <3>1, <4>2
      <4> QED  BY <3>3, <4>1, <4>2
    <3>7. ASSUME NEW k \in DOMAIN list PROVE ~SameKey(list[k], entries[n])
      <4>1. PICK m \in 1 .. n - 1 : list[k] = entries[m]
        BY <2>2
      <4>2. m \in DOMAIN entries /\ m # n
        BY <1>0
      <4> QED  BY <1>0, <2>2, <4>1, <4>2 DEF WellFormed
    <3>8. ASSUME NEW j \in DOMAIN longer, NEW k \in DOMAIN longer, SameKey(longer[j], longer[k])
          PROVE  j = k
      <4>1. CASE j \in DOMAIN list /\ k \in DOMAIN list
        BY <2>2, <3>1, <3>8, <4>1
      <4>2. CASE j \in DOMAIN list /\ k = Len(list) + 1
        BY <3>1, <3>7, <3>8, <4>2
      <4>3. CASE j = Len(list) + 1 /\ k \in DOMAIN list
        BY <3>1, <3>7, <3>8, <4>3 DEF SameKey
      <4> QED  BY <3>3, <4>1, <4>2, <4>3
    <3>9. From(longer, n)
      BY <3>1, <3>2, <3>5, <3>6, <3>8
    <3> QED  BY <2>1, <2>2, <2>4, <3>9 DEF next
  <2>5. CASE SameKey(entries[n], email)
    BY <2>1, <2>2, <2>3, <2>5 DEF next
  <2> QED  BY <2>4, <2>5
<1> HIDE DEF S
<1>3. Len(entries) \in S /\ Len(entries) \in Nat
  <2>1. Len(entries) \in Nat
    BY <1>0
  <2>2. \A n \in 0 .. Len(entries) : n \in S
    BY <1>1, <1>2, <2>1, TurnByTurn
  <2> QED  BY <2>1, <2>2
<1> DEFINE kept == Spared(entries, email)[Len(entries)]
<1>4. Without(values, email) = kept
  BY DEF Without, entries
<1>5. From(kept, Len(entries))
  BY <1>3 DEF S
<1> HIDE DEF kept
<1>6. kept \in Seq(Addresses) /\ \A n \in DOMAIN kept : ~SameKey(kept[n], email)
  BY <1>5
<1>7. WellFormed(kept)
  <2>1. Len(kept) <= Limit
    <3>1. Len(kept) <= Len(entries) /\ Len(entries) <= Limit /\ Len(kept) \in Nat
      BY <1>0, <1>5 DEF WellFormed
    <3> QED  BY <1>3, <3>1, HistoryAssumption
  <2>2. \A n \in DOMAIN kept : kept[n] \in Addresses \ Refused
    BY <1>5
  <2> QED  BY <1>5, <2>1, <2>2 DEF WellFormed
<1> QED  BY <1>4, <1>6, <1>7

\* rememberSuccessfulEmail returns a list of the history again, which begins with the
\* address even if the history was full.
THEOREM RememberedWellFormed ==
  ASSUME NEW values \in Seq(Addresses), NEW email \in Addresses
  PROVE  /\ Remembered(values, email) \in Seq(Addresses)
         /\ WellFormed(Remembered(values, email))
         /\ email \notin Refused =>
              1 \in DOMAIN Remembered(values, email) /\ Remembered(values, email)[1] = email
<1>1. CASE email \in Refused
  BY <1>1, SanitizedWellFormed DEF Remembered
<1>2. CASE email \notin Refused
  <2> DEFINE rest == Without(values, email)
             all == <<email>> \o rest
             upTo == IF Len(all) < Limit THEN Len(all) ELSE Limit
             first == SubSeq(all, 1, upTo)
  <2>1. /\ rest \in Seq(Addresses) /\ WellFormed(rest)
        /\ \A n \in DOMAIN rest : ~SameKey(rest[n], email)
    BY WithoutWellFormed
  <2> HIDE DEF rest
  <2>2. /\ all \in Seq(Addresses) /\ Len(all) = Len(rest) + 1 /\ Len(rest) \in Nat
        /\ all[1] = email /\ \A n \in 2 .. Len(all) : all[n] = rest[n - 1] /\ n - 1 \in DOMAIN rest
    BY <2>1
  <2> HIDE DEF all
  <2>3. upTo \in Nat /\ upTo <= Limit /\ upTo <= Len(all)
    BY <2>2, HistoryAssumption
  <2> HIDE DEF upTo
  <2>4. /\ first \in Seq(Addresses) /\ Len(first) = upTo /\ DOMAIN first = 1 .. upTo
        /\ \A n \in 1 .. upTo : first[n] = all[n]
    BY <2>2, <2>3
  <2> HIDE DEF first
  <2>5. ASSUME NEW n \in 1 .. upTo PROVE n = 1 \/ n \in 2 .. Len(all)
    BY <2>2, <2>3
  <2>6. ASSUME NEW n \in DOMAIN first PROVE first[n] \in Addresses \ Refused
    <3>1. CASE n = 1
      BY <1>2, <2>2, <2>4, <3>1
    <3>2. CASE n \in 2 .. Len(all)
      BY <2>1, <2>2, <2>4, <3>2 DEF WellFormed
    <3> QED  BY <2>4, <2>5, <3>1, <3>2
  <2>7. ASSUME NEW m \in DOMAIN first, NEW n \in DOMAIN first, SameKey(first[m], first[n])
        PROVE  m = n
    <3>0. m \in 1 .. upTo /\ n \in 1 .. upTo /\ first[m] = all[m] /\ first[n] = all[n]
      BY <2>4
    <3>1. CASE m = 1 /\ n = 1
      BY <3>1
    <3>2. CASE m = 1 /\ n \in 2 .. Len(all)
      BY <2>1, <2>2, <2>7, <3>0, <3>2 DEF SameKey
    <3>3. CASE m \in 2 .. Len(all) /\ n = 1
      BY <2>1, <2>2, <2>7, <3>0, <3>3
    <3>4. CASE m \in 2 .. Len(all) /\ n \in 2 .. Len(all)
      <4>1. m - 1 = n - 1
        BY <2>1, <2>2, <2>7, <3>0, <3>4 DEF WellFormed
      <4> QED  BY <3>4, <4>1
    <3> QED  BY <2>5, <3>0, <3>1, <3>2, <3>3, <3>4
  <2>8. WellFormed(first)
    BY <2>3, <2>4, <2>6, <2>7 DEF WellFormed
  <2>9. Remembered(values, email) = first
    BY <1>2 DEF Remembered, first, upTo, all, rest
  <2>10. 1 \in 1 .. upTo
    BY <2>2, HistoryAssumption DEF upTo
  <2>11. 1 \in DOMAIN first /\ first[1] = email
    BY <2>2, <2>4, <2>10
  <2> QED  BY <2>4, <2>8, <2>9, <2>11
<1> QED  BY <1>1, <1>2

-------------------------------------------------------------------------------
(* PublicPage *)

\* The list of the page and the one in the storage.
HistoryInv ==
  /\ history \in Seq(Addresses)
  /\ WellFormed(history)
  /\ stored \in Seq(Addresses)
  /\ synced \in BOOLEAN
  /\ ReloadKeepsHistory

\* The rest of TypeOK.
ScreenTypes ==
  /\ input \in Addresses \cup {NoAddress}
  /\ busy \in BOOLEAN
  /\ refreshable \in BOOLEAN
  /\ active \in 0 .. MaxQueries
  /\ query \in [Calls -> [stage : Waiting \cup {"none", "answered", "over"},
                          address : Addresses \cup {NoAddress}, aborted : BOOLEAN]]
  /\ last \in Addresses \cup {NoAddress}
  /\ hidden \in BOOLEAN
  /\ shown \in [of : Addresses \cup {NoAddress}, mails : {"none", "newest"}]
  /\ notice \in {"none", "busy", "timeout", "error"}

\* The controller is that of a query that waits, every query asks for an address, and
\* what was rendered last is of the last success.
ScreenInv ==
  /\ ScreenTypes
  /\ \A k \in Calls : query[k].stage # "none" => query[k].address \in Addresses
  /\ active # 0 => query[active].stage \in Waiting
  /\ shown.of = last
  /\ ButtonsFollowTheQuery
  /\ ShownBelongsToTheQuery

PageInv == HistoryInv /\ ScreenInv

LEMMA PersistKeeps ==
  ASSUME HistoryInv, history' \in Seq(Addresses), WellFormed(history'), PersistHistory
  PROVE  HistoryInv'
<1>1. PICK done \in BOOLEAN : stored' = (IF done THEN history' ELSE stored) /\ synced' = done
  BY DEF PersistHistory
<1>2. Sanitized(history') = history'
  BY SanitizedAgain
<1>3. WellFormed(history)'
  BY DEF WellFormed
<1>4. stored' \in Seq(Addresses)
  BY <1>1 DEF HistoryInv
<1>5. ReloadKeepsHistory'
  BY <1>1, <1>2 DEF ReloadKeepsHistory
<1> QED  BY <1>1, <1>3, <1>4, <1>5 DEF HistoryInv

LEMMA RememberKeeps ==
  ASSUME HistoryInv, NEW email \in Addresses, Remember(email)
  PROVE  HistoryInv'
<1>1. history' = Remembered(history, email)
  BY DEF Remember
<1>2. history' \in Seq(Addresses) /\ WellFormed(history')
  BY <1>1, RememberedWellFormed DEF HistoryInv
<1>3. CASE email \in Refused
  <2>1. stored' = stored /\ synced' = synced
    BY <1>3 DEF Remember
  <2>2. history' = history
    BY <1>1, <1>3, SanitizedAgain DEF Remembered, HistoryInv
  <2> QED  BY <2>1, <2>2 DEF HistoryInv, ReloadKeepsHistory, WellFormed
<1>4. CASE email \notin Refused
  BY <1>2, <1>4, PersistKeeps DEF Remember
<1> QED  BY <1>3, <1>4

LEMMA LoadKeeps ==
  ASSUME HistoryInv, NEW readable \in BOOLEAN, LoadEmailHistory(readable)
  PROVE  HistoryInv'
<1>1. history' = (IF readable THEN Sanitized(stored) ELSE <<>>) /\ synced' = readable /\ stored' = stored
  BY DEF LoadEmailHistory
<1>2. history' \in Seq(Addresses) /\ WellFormed(history')
  BY <1>1, SanitizedWellFormed, EmptyWellFormed DEF HistoryInv
<1>3. ReloadKeepsHistory'
  BY <1>1 DEF ReloadKeepsHistory
<1> QED  BY <1>1, <1>2, <1>3 DEF HistoryInv, WellFormed

LEMMA LeftAreLists == \A list \in Left : list \in Seq(Addresses)
<1> SUFFICES ASSUME NEW list \in Left PROVE list \in Seq(Addresses)
  OBVIOUS
<1>1. PICK n \in 0 .. MaxStored : list \in [1 .. n -> Addresses]
  BY DEF Left
<1> QED  BY <1>1, PageAssumption

\* The newest entry fills the field.
LEMMA FieldFilled ==
  ASSUME NEW list \in Seq(Addresses)
  PROVE  (IF list = <<>> THEN NoAddress ELSE list[1]) \in Addresses \cup {NoAddress}
OBVIOUS

LEMMA PageInitially == Init => PageInv
<1> SUFFICES ASSUME Init PROVE PageInv
  OBVIOUS
<1>1. stored \in Seq(Addresses)
  BY LeftAreLists DEF Init
<1>2. history \in Seq(Addresses) /\ WellFormed(history)
  BY <1>1, SanitizedWellFormed DEF Init
<1>3. HistoryInv
  BY <1>1, <1>2 DEF Init, HistoryInv, ReloadKeepsHistory
<1>4. input \in Addresses \cup {NoAddress}
  BY <1>2, FieldFilled DEF Init
<1>5. ScreenTypes
  <2>1. query \in [Calls -> [stage : Waiting \cup {"none", "answered", "over"},
                             address : Addresses \cup {NoAddress}, aborted : BOOLEAN]]
    BY DEF Init, InitialQuery, NotCalled
  <2>2. 0 \in 0 .. MaxQueries
    BY PageAssumption
  <2> QED  BY <1>4, <2>1, <2>2 DEF Init, ScreenTypes, NothingShown
<1>6. \A k \in Calls : query[k].stage = "none"
  BY DEF Init, InitialQuery, NotCalled
<1>7. ScreenInv
  BY <1>5, <1>6 DEF Init, ScreenInv, ButtonsFollowTheQuery, ShownBelongsToTheQuery, Waiting, NothingShown
<1> QED  BY <1>3, <1>7 DEF PageInv

\* The page is loaded anew.
LEMMA ReloadKeeps == ASSUME PageInv, Reload PROVE PageInv'
<1>1. HistoryInv'
  BY LoadKeeps DEF Reload, PageInv
<1>2. input' \in Addresses \cup {NoAddress}
  BY <1>1, FieldFilled DEF Reload, HistoryInv
<1>3. /\ busy' = FALSE /\ refreshable' = FALSE /\ active' = 0 /\ query' = InitialQuery
      /\ last' = NoAddress /\ hidden' = TRUE /\ shown' = NothingShown /\ notice' = "none"
  BY DEF Reload
<1>4. ScreenTypes'
  <2>1. query' \in [Calls -> [stage : Waiting \cup {"none", "answered", "over"},
                              address : Addresses \cup {NoAddress}, aborted : BOOLEAN]]
    BY <1>3 DEF InitialQuery, NotCalled
  <2>2. 0 \in 0 .. MaxQueries
    BY PageAssumption
  <2> QED  BY <1>2, <1>3, <2>1, <2>2 DEF ScreenTypes, NothingShown
<1>5. \A k \in Calls : query'[k].stage = "none"
  BY <1>3 DEF InitialQuery, NotCalled
<1>6. ScreenInv'
  BY <1>3, <1>4, <1>5
  DEF ScreenInv, ButtonsFollowTheQuery, ShownBelongsToTheQuery, Waiting, NothingShown
<1> QED  BY <1>1, <1>6 DEF PageInv

LEMMA TypeKeeps ==
  ASSUME PageInv, NEW a \in Addresses \cup {NoAddress}, Type(a)
  PROVE  PageInv'
<1>1. /\ busy = FALSE /\ input' = a /\ active = 0 /\ refreshable' = CanRefresh(a, last)
      /\ UNCHANGED <<busy, active, query, last, hidden, shown, notice, history, stored, synced>>
  BY DEF Type, PageInv, ScreenInv, ScreenTypes, ButtonsFollowTheQuery
<1>2. HistoryInv'
  BY <1>1 DEF PageInv, HistoryInv, ReloadKeepsHistory, WellFormed
<1>3. ScreenTypes'
  BY <1>1 DEF PageInv, ScreenInv, ScreenTypes, CanRefresh
<1>4. ScreenInv'
  BY <1>1, <1>3 DEF PageInv, ScreenInv, ButtonsFollowTheQuery, ShownBelongsToTheQuery, CanRefresh
<1> QED  BY <1>2, <1>4 DEF PageInv

\* A query starts: no other one is under way.
LEMMA StartKeeps ==
  ASSUME PageInv, NEW a \in Addresses, NEW isRefresh \in BOOLEAN, busy = FALSE, isRefresh => a = last,
         Start(a, isRefresh)
  PROVE  PageInv'
<1> DEFINE asked == [stage |-> "head", address |-> a, aborted |-> FALSE]
<1>1. active = 0 /\ \A j \in Calls : query[j].stage \notin Waiting
  <2>1. active = 0
    BY DEF PageInv, ScreenInv, ButtonsFollowTheQuery
  <2>2. \A j \in Calls : j # 0
    BY PageAssumption DEF Calls
  <2> QED  BY <2>1, <2>2 DEF PageInv, ScreenInv, ButtonsFollowTheQuery
<1>2. PICK k \in Calls :
        /\ query[k].stage = "none"
        /\ query' = [j \in Calls |-> IF j = k THEN asked
                                     ELSE IF j = active THEN [query[j] EXCEPT !.aborted = TRUE]
                                     ELSE query[j]]
        /\ active' = k
        /\ hidden' = (hidden \/ (~isRefresh /\ a # last))
        /\ busy' = TRUE /\ refreshable' = FALSE /\ notice' = "busy"
        /\ UNCHANGED <<input, last, shown, history, stored, synced>>
  BY DEF Start
<1>3. query' = [query EXCEPT ![k] = asked]
  <2>1. DOMAIN query = Calls
    BY DEF PageInv, ScreenInv, ScreenTypes
  <2>2. \A j \in Calls : j # active
    BY <1>1, PageAssumption DEF Calls
  <2>3. query' = [j \in Calls |-> IF j = k THEN asked ELSE query[j]]
    BY <1>2, <2>2
  <2> QED  BY <2>1, <2>3
<1>4. k \in 1 .. MaxQueries /\ k # 0 /\ MaxQueries \in Nat
  BY PageAssumption DEF Calls
<1>5. query'[k] = asked /\ \A j \in Calls : j # k => query'[j] = query[j]
  BY <1>3 DEF PageInv, ScreenInv, ScreenTypes
<1>6. HistoryInv'
  BY <1>2 DEF PageInv, HistoryInv, ReloadKeepsHistory, WellFormed
<1>7. ScreenTypes'
  <2>1. query' \in [Calls -> [stage : Waiting \cup {"none", "answered", "over"},
                              address : Addresses \cup {NoAddress}, aborted : BOOLEAN]]
    BY <1>3 DEF PageInv, ScreenInv, ScreenTypes, Waiting
  <2>2. active' \in 0 .. MaxQueries
    BY <1>2, <1>4
  <2> QED  BY <1>2, <2>1, <2>2 DEF PageInv, ScreenInv, ScreenTypes
<1>8. \A j \in Calls : query'[j].stage # "none" => query'[j].address \in Addresses
  BY <1>5 DEF PageInv, ScreenInv
<1>9. query'[active'].stage \in Waiting
  BY <1>2, <1>5 DEF Waiting
<1>10. ButtonsFollowTheQuery'
  BY <1>1, <1>2, <1>4, <1>5 DEF ButtonsFollowTheQuery
<1>11. ShownBelongsToTheQuery'
  BY <1>2, <1>5 DEF PageInv, ScreenInv, ScreenTypes, ShownBelongsToTheQuery
<1> QED  BY <1>2, <1>6, <1>7, <1>8, <1>9, <1>10, <1>11 DEF PageInv, ScreenInv

\* The catch, or the answer, and then finally: it was the query of the controller.
LEMMA FinallyKeeps ==
  ASSUME ScreenInv, NEW k \in Calls, query[k].stage \in Waiting,
         NEW over \in {"answered", "over"}, Finally(k, over),
         last' \in Addresses \cup {NoAddress}, hidden' \in BOOLEAN,
         shown' \in [of : Addresses \cup {NoAddress}, mails : {"none", "newest"}],
         notice' \in {"none", "busy", "timeout", "error"},
         shown'.of = last'
  PROVE  ScreenInv'
<1>1. active = k /\ \A j \in Calls : query[j].stage \in Waiting => j = k
  BY DEF ScreenInv, ButtonsFollowTheQuery
<1>2. /\ query' = [query EXCEPT ![k].stage = over] /\ active' = 0 /\ busy' = FALSE
      /\ refreshable' = CanRefresh(input, last') /\ input' = input
  BY <1>1 DEF Finally, ScreenInv, ScreenTypes
<1>3. /\ query'[k].stage = over /\ query'[k].address = query[k].address
      /\ \A j \in Calls : j # k => query'[j] = query[j]
  BY <1>2 DEF ScreenInv, ScreenTypes
<1>4. ScreenTypes'
  <2>1. query' \in [Calls -> [stage : Waiting \cup {"none", "answered", "over"},
                              address : Addresses \cup {NoAddress}, aborted : BOOLEAN]]
    BY <1>2 DEF ScreenInv, ScreenTypes
  <2>2. 0 \in 0 .. MaxQueries
    BY PageAssumption
  <2>3. CanRefresh(input, last') \in BOOLEAN
    BY DEF CanRefresh
  <2> QED  BY <1>2, <2>1, <2>2, <2>3 DEF ScreenInv, ScreenTypes
<1>5. \A j \in Calls : query'[j].stage # "none" => query'[j].address \in Addresses
  BY <1>3 DEF ScreenInv, Waiting
<1>6. \A j \in Calls : query'[j].stage \notin Waiting
  BY <1>1, <1>3 DEF Waiting
<1>7. ButtonsFollowTheQuery'
  BY <1>2, <1>6 DEF ButtonsFollowTheQuery, CanRefresh
<1>8. ShownBelongsToTheQuery'
  BY <1>2 DEF ShownBelongsToTheQuery
<1> QED  BY <1>2, <1>4, <1>5, <1>7, <1>8 DEF ScreenInv

LEMMA ShowErrorKeeps ==
  ASSUME PageInv, NEW k \in Calls, query[k].stage \in Waiting, ShowError(k) \/ ShowTimeout(k)
  PROVE  PageInv'
<1>1. /\ UNCHANGED <<last, hidden, shown, history, stored, synced>> /\ Finally(k, "over")
      /\ notice' \in {"error", "timeout", notice}
  BY DEF ShowError, ShowTimeout
<1>2. HistoryInv'
  BY <1>1 DEF PageInv, HistoryInv, ReloadKeepsHistory, WellFormed
<1>3. ScreenInv'
  BY <1>1, FinallyKeeps DEF PageInv, ScreenInv, ScreenTypes
<1> QED  BY <1>2, <1>3 DEF PageInv

LEMMA ShowMailsKeeps ==
  ASSUME PageInv, NEW k \in Calls, query[k].stage \in Waiting,
         NEW mails \in {"none", "newest"}, NEW over \in {"answered", "over"}, ShowMails(k, mails, over)
  PROVE  PageInv'
<1>1. query[k].address \in Addresses
  BY DEF PageInv, ScreenInv, Waiting
<1>2. /\ shown' = [of |-> query[k].address, mails |-> mails] /\ last' = query[k].address
      /\ Remember(query[k].address) /\ hidden' = FALSE /\ notice' = "none" /\ Finally(k, over)
  BY DEF ShowMails
<1>3. HistoryInv'
  BY <1>1, <1>2, RememberKeeps DEF PageInv
<1>4. ScreenInv'
  BY <1>1, <1>2, FinallyKeeps DEF PageInv
<1> QED  BY <1>3, <1>4 DEF PageInv

\* A query goes on waiting: it may be aborted, or its head arrives.
LEMMA WaitingOnKeeps ==
  ASSUME PageInv, NEW k \in Calls, Timeout(k) \/ HeadArrives(k)
  PROVE  PageInv'
<1>1. /\ query[k].stage \in Waiting /\ UNCHANGED <<page, history, stored, synced>>
      /\ \/ query' = [query EXCEPT ![k].aborted = TRUE]
         \/ \E next \in {"body", "errorBody"} : query' = [query EXCEPT ![k].stage = next]
  BY DEF Timeout, HeadArrives, Waiting
<1>2. HistoryInv'
  BY <1>1 DEF PageInv, HistoryInv, ReloadKeepsHistory, WellFormed
<1> DEFINE Typed == [Calls -> [stage : Waiting \cup {"none", "answered", "over"},
                              address : Addresses \cup {NoAddress}, aborted : BOOLEAN]]
<1>3. query' \in Typed
  <2>1. query \in Typed
    BY DEF PageInv, ScreenInv, ScreenTypes
  <2>2. CASE query' = [query EXCEPT ![k].aborted = TRUE]
    BY <2>1, <2>2
  <2>3. ASSUME NEW next \in {"body", "errorBody"}, query' = [query EXCEPT ![k].stage = next]
        PROVE  query' \in Typed
    BY <2>1, <2>3 DEF Waiting
  <2> QED  BY <1>1, <2>2, <2>3
<1>4. /\ query'[k].stage \in Waiting /\ query'[k].address = query[k].address
      /\ \A j \in Calls : j # k => query'[j] = query[j]
  BY <1>1 DEF PageInv, ScreenInv, ScreenTypes, Waiting
<1>5. UNCHANGED <<input, busy, refreshable, active, last, hidden, shown, notice>>
  BY <1>1 DEF page
<1>6. ScreenTypes'
  BY <1>3, <1>5 DEF PageInv, ScreenInv, ScreenTypes
<1>7. \A j \in Calls : query'[j].stage # "none" => query'[j].address \in Addresses
  BY <1>1, <1>4 DEF PageInv, ScreenInv, Waiting
<1>8. active = k
  BY <1>1 DEF PageInv, ScreenInv, ButtonsFollowTheQuery
<1>9. ButtonsFollowTheQuery' /\ ShownBelongsToTheQuery'
  BY <1>1, <1>4, <1>5, <1>8 DEF PageInv, ScreenInv, ButtonsFollowTheQuery, ShownBelongsToTheQuery
<1> QED  BY <1>2, <1>4, <1>5, <1>6, <1>7, <1>8, <1>9 DEF PageInv, ScreenInv

\* The list changes, on the page or in the storage, and nothing else.
LEMMA ListChangesKeep ==
  ASSUME PageInv, RemoveEntry \/ Clear \/ OtherTab
  PROVE  PageInv'
<1>1. ScreenInv'
  <2>1. UNCHANGED <<page, query>>
    BY DEF RemoveEntry, Clear, OtherTab
  <2> QED
    BY <2>1 DEF page, PageInv, ScreenInv, ScreenTypes, ButtonsFollowTheQuery, ShownBelongsToTheQuery
<1>2. CASE RemoveEntry
  <2>1. PICK n \in DOMAIN history : history' = Without(history, history[n])
    BY <1>2 DEF RemoveEntry
  <2>2. history' \in Seq(Addresses) /\ WellFormed(history')
    <3>1. history \in Seq(Addresses) /\ history[n] \in Addresses
      BY DEF PageInv, HistoryInv
    <3> QED  BY <2>1, <3>1, WithoutWellFormed
  <2> QED  BY <1>1, <1>2, <2>2, PersistKeeps DEF RemoveEntry, PageInv
<1>3. CASE Clear
  BY <1>1, <1>3, EmptyWellFormed, PersistKeeps DEF Clear, PageInv
<1>4. CASE OtherTab
  <2>1. stored' \in Seq(Addresses) /\ synced' = FALSE /\ history' = history
    BY <1>4, LeftAreLists DEF OtherTab
  <2> QED  BY <1>1, <2>1 DEF PageInv, HistoryInv, ReloadKeepsHistory, WellFormed
<1> QED  BY <1>2, <1>3, <1>4

LEMMA PageInductive == PageInv /\ [Next]_vars => PageInv'
<1> SUFFICES ASSUME PageInv, [Next]_vars PROVE PageInv'
  OBVIOUS
<1>1. CASE Reload
  BY <1>1, ReloadKeeps
<1>2. ASSUME NEW a \in Addresses \cup {NoAddress}, Type(a) PROVE PageInv'
  BY <1>2, TypeKeeps
<1>3. CASE Submit
  <2>1. input \in Addresses /\ busy = FALSE
    BY <1>3 DEF Submit, PageInv, ScreenInv, ScreenTypes
  <2> QED  BY <1>3, <2>1, StartKeeps DEF Submit
<1>4. CASE Refresh
  <2>1. last \in Addresses /\ busy = FALSE
    BY <1>4 DEF Refresh, CanRefresh, PageInv, ScreenInv, ScreenTypes, ButtonsFollowTheQuery
  <2> QED  BY <1>4, <2>1, StartKeeps DEF Refresh
<1>5. ASSUME NEW k \in Calls, Timeout(k) \/ HeadArrives(k) PROVE PageInv'
  BY <1>5, WaitingOnKeeps
<1>6. ASSUME NEW k \in Calls, FetchRejects(k) \/ ErrorBodyEnds(k) PROVE PageInv'
  BY <1>6, ShowErrorKeeps DEF FetchRejects, ErrorBodyEnds, Waiting
<1>7. ASSUME NEW k \in Calls, BodyArrives(k) \/ BodyBreaks(k) PROVE PageInv'
  BY <1>7, ShowMailsKeeps DEF BodyArrives, BodyBreaks, Waiting
<1>8. CASE RemoveEntry \/ Clear \/ OtherTab
  BY <1>8, ListChangesKeep
<1>9. CASE UNCHANGED vars
  BY <1>9 DEF vars, PageInv, HistoryInv, ScreenInv, ScreenTypes, WellFormed,
              ButtonsFollowTheQuery, ShownBelongsToTheQuery, ReloadKeepsHistory
<1> QED  BY <1>1, <1>2, <1>3, <1>4, <1>5, <1>6, <1>7, <1>8, <1>9 DEF Next

LEMMA PageInvariance == Spec => []PageInv
BY PageInitially, PageInductive, PTL DEF Spec

\* The types of the page; in particular the list has no two spellings of a mailbox, no
\* address that is refused, and no more than the limit.
THEOREM PageTypeCorrect == Spec => []TypeOK
<1>1. PageInv => TypeOK
  BY DEF PageInv, HistoryInv, ScreenInv, ScreenTypes, TypeOK
<1> QED  BY <1>1, PageInvariance, PTL

\* The buttons are disabled while a query is under way and only then, and the refresh
\* button asks again for what was rendered last.
THEOREM ButtonsAlwaysFollow == Spec => []ButtonsFollowTheQuery
<1>1. PageInv => ButtonsFollowTheQuery
  BY DEF PageInv, ScreenInv
<1> QED  BY <1>1, PageInvariance, PTL

\* The mails on screen are those of the last success, and of the address that is asked
\* for while a query is under way.
THEOREM ShownAlwaysBelongs == Spec => []ShownBelongsToTheQuery
<1>1. PageInv => ShownBelongsToTheQuery
  BY DEF PageInv, ScreenInv
<1> QED  BY <1>1, PageInvariance, PTL

\* A reload lists what the page lists, unless another tab wrote or the storage refused.
THEOREM ReloadAlwaysKeeps == Spec => []ReloadKeepsHistory
<1>1. PageInv => ReloadKeepsHistory
  BY DEF PageInv, HistoryInv
<1> QED  BY <1>1, PageInvariance, PTL
===============================================================================
