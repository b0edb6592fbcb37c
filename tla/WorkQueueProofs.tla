--------------------------- MODULE WorkQueueProofs ----------------------------
(***************************************************************************)
(* The queue's invariants and its implementation of AdmissionControl, for  *)
(* every set of requests, concurrency, line and timeout.                   *)
(***************************************************************************)
EXTENDS WorkQueue, FiniteSetTheorems, SeqLemmas, TLAPS

\* A call has an answer exactly when it is settled.
AnsweredWhenSettled ==
  \A r \in Requests : outcome[r] # "none" <=> phase[r] = "settled"

\* The controller of a running call has heard of every abort of its caller.
AbortHeard ==
  \A r \in Requests : phase[r] = "running" /\ r \in cancelled => reason[r] # "none"

\* The inductive invariant.  SlotsConserved needs WorkConserving (a slot is
\* handed over or given back according to the line), which needs the line to be
\* free of expired entries (LineMatchesWaiters).
IInv ==
  /\ TypeOK
  /\ SlotsConserved
  /\ LineMatchesWaiters
  /\ WorkConserving
  /\ AnsweredWhenSettled
  /\ AbortHeard

-------------------------------------------------------------------------------

\* The parts of the invariant that the line and the slots are about.
Counts == SlotsConserved /\ LineMatchesWaiters /\ WorkConserving

\* A waiter leaves the line by its timer or its abort.
LEMMA LeavingKeepsCounts ==
  ASSUME TypeOK, Counts, NEW r \in Requests, phase[r] = "waiting",
         waiting' = RemoveFirst(waiting, r),
         phase' = [phase EXCEPT ![r] = "settled"],
         UNCHANGED active
  PROVE  Counts' /\ waiting' \in Seq(Requests)
<1>0. /\ waiting \in Seq(Requests)
      /\ phase \in [Requests -> Phases]
      /\ DOMAIN waiting = 1 .. Len(waiting)
      /\ Len(waiting) \in Nat
  BY DEF TypeOK
<1>1. PICK i \in 1 .. Len(waiting) : waiting[i] = r
  BY <1>0 DEF Counts, LineMatchesWaiters
<1>2. \A j, k \in DOMAIN waiting : waiting[j] = waiting[k] => j = k
  BY DEF Counts, LineMatchesWaiters
<1>3. /\ waiting' \in Seq(Requests)
      /\ Len(waiting') = Len(waiting) - 1
      /\ DOMAIN waiting' = 1 .. Len(waiting) - 1
      /\ \A j \in 1 .. Len(waiting) - 1 :
           waiting'[j] = IF j < i THEN waiting[j] ELSE waiting[j + 1]
  <2>1. RemoveFirst(waiting, waiting[i]) \in Seq(Requests)
    BY <1>0, <1>2, RemoveFirstSplices
  <2>2. Len(RemoveFirst(waiting, waiting[i])) = Len(waiting) - 1
    BY <1>0, <1>2, RemoveFirstSplices
  <2>3. \A j \in 1 .. Len(waiting) - 1 :
          RemoveFirst(waiting, waiting[i])[j]
            = IF j < i THEN waiting[j] ELSE waiting[j + 1]
    BY <1>0, <1>2, RemoveFirstSplices
  <2> QED
    BY <1>0, <1>1, <2>1, <2>2, <2>3
<1>4. Holders' = Holders
  BY <1>0 DEF Holders, Phases
<1>5. SlotsConserved'
  BY <1>4 DEF Counts, SlotsConserved
<1>6. LineMatchesWaiters'
  <2>1. ASSUME NEW q \in Requests
        PROVE  phase'[q] = "waiting" <=> \E j \in DOMAIN waiting' : waiting'[j] = q
    <3>1. CASE q = r
      <4>1. phase'[q] = "settled"
        BY <1>0, <3>1
      <4>2. \A j \in DOMAIN waiting' : waiting'[j] # waiting[i]
        BY <1>0, <1>2, <1>3
      <4> QED
        BY <1>1, <3>1, <4>1, <4>2
    <3>2. CASE q # r
      <4>1. phase'[q] = phase[q]
        BY <1>0, <3>2
      <4>2. ASSUME NEW j \in DOMAIN waiting', waiting'[j] = q
            PROVE  \E k \in DOMAIN waiting : waiting[k] = q
        <5>1. waiting[IF j < i THEN j ELSE j + 1] = q
          BY <1>3, <4>2
        <5> QED
          BY <1>0, <1>3, <4>2, <5>1
      <4>3. ASSUME NEW k \in DOMAIN waiting, waiting[k] = q
            PROVE  \E j \in DOMAIN waiting' : waiting'[j] = q
        <5>1. k # i
          BY <1>1, <3>2, <4>3
        <5>2. CASE k < i
          <6>1. k \in DOMAIN waiting' /\ waiting'[k] = q
            BY <1>0, <1>3, <4>3, <5>2
          <6> QED
            BY <6>1
        <5>3. CASE k > i
          <6>1. k - 1 \in DOMAIN waiting' /\ waiting'[k - 1] = q
            BY <1>0, <1>3, <4>3, <5>3
          <6> QED
            BY <6>1
        <5> QED
          BY <1>0, <4>3, <5>1, <5>2, <5>3
      <4> QED
        BY <4>1, <4>2, <4>3 DEF Counts, LineMatchesWaiters
    <3> QED
      BY <3>1, <3>2
  <2>2. ASSUME NEW j \in DOMAIN waiting', NEW k \in DOMAIN waiting',
               waiting'[j] = waiting'[k]
        PROVE  j = k
    <3> DEFINE at(m) == IF m < i THEN m ELSE m + 1
    <3>1. waiting[at(j)] = waiting[at(k)]
      BY <1>3, <2>2
    <3>2. at(j) \in DOMAIN waiting /\ at(k) \in DOMAIN waiting
      BY <1>0, <1>3, <2>2
    <3>3. at(j) = at(k)
      BY <1>2, <3>1, <3>2
    <3> QED
      BY <1>3, <3>3
  <2>3. Len(waiting') <= MaxQueue
    BY <1>0, <1>3, QueueAssumption DEF Counts, LineMatchesWaiters
  <2> QED
    BY <2>1, <2>2, <2>3 DEF LineMatchesWaiters
<1>7. WorkConserving'
  BY <1>0, <1>3 DEF Counts, WorkConserving
<1> QED
  BY <1>3, <1>5, <1>6, <1>7 DEF Counts

\* What #release does when no entry in line has expired: the head of the line
\* inherits the slot.
LEMMA ReleaseHandsOver ==
  ASSUME TypeOK, LineMatchesWaiters, NEW r \in Requests, r \in Holders,
         NEW how, Release(r, how)
  PROVE  \/ /\ waiting = <<>> /\ waiting' = <<>>
            /\ active' = IF active > 0 THEN active - 1 ELSE 0
            /\ phase' = [phase EXCEPT ![r] = "settled"]
         \/ /\ waiting # <<>> /\ waiting' = Tail(waiting)
            /\ active' = active
            /\ Head(waiting) \in Requests
            /\ phase[Head(waiting)] = "waiting"
            /\ phase' = [phase EXCEPT ![r] = "settled", ![Head(waiting)] = "granted"]
<1>0. /\ waiting \in Seq(Requests)
      /\ DOMAIN waiting = 1 .. Len(waiting)
      /\ Len(waiting) \in Nat
  BY DEF TypeOK
<1>1. \A i \in DOMAIN waiting : ~Expired(waiting[i])
  BY <1>0 DEF LineMatchesWaiters, Expired
<1>2. CASE waiting = <<>>
  BY <1>0, <1>2 DEF Release
<1>3. CASE waiting # <<>>
  <2>1. 1 \in DOMAIN waiting
    BY <1>0, <1>3
  <2>2. PICK i \in DOMAIN waiting :
          /\ \A j \in 1 .. i - 1 : Expired(waiting[j])
          /\ waiting' = SubSeq(waiting, i + 1, Len(waiting))
          /\ phase' = [phase EXCEPT ![r] = "settled", ![waiting[i]] = "granted"]
          /\ UNCHANGED active
    BY <1>1, <2>1 DEF Release
  <2>3. i = 1
    BY <1>0, <1>1, <2>1, <2>2
  <2>4. Head(waiting) = waiting[1]
    BY <1>0, <1>3
  <2>5. SubSeq(waiting, 2, Len(waiting)) = Tail(waiting)
    BY <1>0, <1>3, TailIsSubSeq
  <2>6. phase[waiting[1]] = "waiting" /\ waiting[1] \in Requests
    BY <1>0, <1>1, <2>1 DEF Expired
  <2> QED
    BY <1>3, <2>2, <2>3, <2>4, <2>5, <2>6
<1> QED
  BY <1>2, <1>3

\* A call that holds a slot leaves, and the slot goes to the head of the line
\* or back to the queue.
LEMMA ReleaseKeepsCounts ==
  ASSUME TypeOK, Counts, NEW r \in Requests, r \in Holders,
         NEW how, Release(r, how)
  PROVE  /\ Counts'
         /\ waiting' \in Seq(Requests)
         /\ active' \in Nat
         /\ phase' \in [Requests -> Phases]
<1>0. /\ waiting \in Seq(Requests)
      /\ phase \in [Requests -> Phases]
      /\ DOMAIN waiting = 1 .. Len(waiting)
      /\ Len(waiting) \in Nat
      /\ active \in Nat
      /\ phase[r] \in {"granted", "running"}
  BY DEF TypeOK, Holders
<1>1. /\ IsFiniteSet(Holders)
      /\ active = Cardinality(Holders)
      /\ active <= Concurrency
  BY DEF Counts, SlotsConserved
<1>2. /\ IsFiniteSet(Holders \ {r})
      /\ Cardinality(Holders \ {r}) = Cardinality(Holders) - 1
  BY <1>1, FS_RemoveElement
<1>3. CASE /\ waiting = <<>> /\ waiting' = <<>>
           /\ active' = IF active > 0 THEN active - 1 ELSE 0
           /\ phase' = [phase EXCEPT ![r] = "settled"]
  <2>1. Holders' = Holders \ {r}
    BY <1>0, <1>3 DEF Holders
  <2>2. active > 0
    <3>1. Cardinality(Holders) # 0
      BY <1>1, FS_EmptySet
    <3> QED
      BY <1>0, <1>1, <3>1
  <2>3. SlotsConserved'
    <3>1. active' = active - 1
      BY <1>3, <2>2
    <3> QED
      BY <1>0, <1>1, <1>2, <2>1, <3>1, QueueAssumption DEF SlotsConserved
  <2>4. LineMatchesWaiters'
    <3>1. \A q \in Requests : phase'[q] # "waiting"
      BY <1>0, <1>3 DEF Counts, LineMatchesWaiters
    <3> QED
      BY <1>3, <3>1, QueueAssumption DEF LineMatchesWaiters
  <2>5. WorkConserving'
    BY <1>3 DEF WorkConserving
  <2> QED
    BY <1>0, <1>3, <2>2, <2>3, <2>4, <2>5 DEF Counts, Phases
<1>4. CASE /\ waiting # <<>> /\ waiting' = Tail(waiting)
           /\ active' = active
           /\ Head(waiting) \in Requests
           /\ phase[Head(waiting)] = "waiting"
           /\ phase' = [phase EXCEPT ![r] = "settled", ![Head(waiting)] = "granted"]
  <2> DEFINE h == Head(waiting)
  <2>1. /\ h \in Requests
        /\ h = waiting[1]
        /\ h # r
        /\ h \notin Holders
    BY <1>0, <1>4 DEF Holders
  <2>2. /\ waiting' \in Seq(Requests)
        /\ Len(waiting') = Len(waiting) - 1
        /\ DOMAIN waiting' = 1 .. Len(waiting) - 1
        /\ \A j \in 1 .. Len(waiting) - 1 : waiting'[j] = waiting[j + 1]
    BY <1>0, <1>4
  <2>3. Holders' = (Holders \ {r}) \cup {h}
    BY <1>0, <1>4, <2>1 DEF Holders
  <2>4. SlotsConserved'
    <3>1. /\ IsFiniteSet((Holders \ {r}) \cup {h})
          /\ Cardinality((Holders \ {r}) \cup {h}) = Cardinality(Holders \ {r}) + 1
      BY <1>2, <2>1, FS_AddElement
    <3> QED
      BY <1>0, <1>1, <1>2, <1>4, <2>3, <3>1 DEF SlotsConserved
  <2>5. \A j, k \in DOMAIN waiting : waiting[j] = waiting[k] => j = k
    BY DEF Counts, LineMatchesWaiters
  <2>6. ASSUME NEW q \in Requests
        PROVE  phase'[q] = "waiting" <=> \E j \in DOMAIN waiting' : waiting'[j] = q
    <3>1. phase'[q] = "waiting" <=> phase[q] = "waiting" /\ q # h
      BY <1>0, <1>4, <2>1
    <3>2. ASSUME NEW j \in DOMAIN waiting', waiting'[j] = q
          PROVE  phase[q] = "waiting" /\ q # h
      <4>1. j + 1 \in DOMAIN waiting /\ waiting[j + 1] = q
        BY <1>0, <2>2, <3>2
      <4>2. 1 \in DOMAIN waiting /\ j + 1 # 1
        BY <1>0, <1>4, <2>2
      <4> QED
        BY <2>1, <2>5, <4>1, <4>2 DEF Counts, LineMatchesWaiters
    <3>3. ASSUME phase[q] = "waiting", q # h
          PROVE  \E j \in DOMAIN waiting' : waiting'[j] = q
      <4>1. PICK k \in DOMAIN waiting : waiting[k] = q
        BY <3>3 DEF Counts, LineMatchesWaiters
      <4>2. k - 1 \in DOMAIN waiting' /\ waiting'[k - 1] = q
        BY <1>0, <2>1, <2>2, <3>3, <4>1
      <4> QED
        BY <4>2
    <3> QED
      BY <3>1, <3>2, <3>3
  <2>7. \A j, k \in DOMAIN waiting' : waiting'[j] = waiting'[k] => j = k
    <3> TAKE j, k \in DOMAIN waiting'
    <3>1. j + 1 \in DOMAIN waiting /\ k + 1 \in DOMAIN waiting
      BY <1>0, <2>2
    <3>2. waiting[j + 1] = waiting[k + 1] => j + 1 = k + 1
      BY <2>5, <3>1
    <3> QED
      BY <1>0, <2>2, <3>2
  <2>8. Len(waiting') <= MaxQueue
    BY <1>0, <2>2, QueueAssumption DEF Counts, LineMatchesWaiters
  <2>9. LineMatchesWaiters'
    BY <2>6, <2>7, <2>8 DEF LineMatchesWaiters
  <2>10. WorkConserving'
    BY <1>4 DEF Counts, WorkConserving
  <2> QED
    BY <1>0, <1>4, <2>1, <2>2, <2>4, <2>9, <2>10 DEF Counts, Phases
<1> QED
  BY <1>3, <1>4, ReleaseHandsOver DEF Counts

\* A step that moves nobody in or out of a slot or of the line.
LEMMA SameCounts ==
  ASSUME Counts, UNCHANGED <<active, waiting>>,
         \A r \in Requests : (phase'[r] = "waiting") = (phase[r] = "waiting"),
         Holders' = Holders
  PROVE  Counts'
BY DEF Counts, SlotsConserved, LineMatchesWaiters, WorkConserving

-------------------------------------------------------------------------------

\* What the steps keep of the types, the counts and the answers.
LEMMA InvariantInit == Init => IInv
<1> SUFFICES ASSUME Init PROVE IInv
  OBVIOUS
<1>1. TypeOK
  BY QueueAssumption
  DEF Init, TypeOK, Phases, Reasons, Outcomes, Horizon
<1>2. Holders = {}
  BY DEF Init, Holders
<1>3. SlotsConserved
  BY <1>2, FS_EmptySet, QueueAssumption DEF Init, SlotsConserved
<1>4. LineMatchesWaiters /\ WorkConserving /\ AnsweredWhenSettled /\ AbortHeard
  BY QueueAssumption
  DEF Init, LineMatchesWaiters, WorkConserving, AnsweredWhenSettled, AbortHeard
<1> QED
  BY <1>1, <1>3, <1>4 DEF IInv

\* A slot is released with an answer: the types, the counts and the answers hold
\* after it, for every way run() releases.
LEMMA ReleaseKeepsInvariant ==
  ASSUME IInv, NEW r \in Requests, r \in Holders,
         NEW how \in Outcomes \ {"none"}, Release(r, how),
         UNCHANGED <<age, cancelled>>,
         reason' \in [Requests -> Reasons],
         \A q \in Requests \ {r} : reason'[q] = reason[q]
  PROVE  IInv'
<1>1. /\ Counts'
      /\ waiting' \in Seq(Requests)
      /\ active' \in Nat
      /\ phase' \in [Requests -> Phases]
  BY ReleaseKeepsCounts DEF IInv, Counts
<1>2. outcome' = [outcome EXCEPT ![r] = how]
  BY DEF Release
<1>3. TypeOK'
  BY <1>1, <1>2 DEF IInv, TypeOK
<1>4. /\ phase'[r] = "settled"
      /\ \A q \in Requests \ {r} :
           \/ phase'[q] = phase[q]
           \/ phase[q] = "waiting" /\ phase'[q] = "granted"
  BY ReleaseHandsOver DEF IInv, TypeOK, Holders
<1>5. AnsweredWhenSettled'
  BY <1>2, <1>4 DEF IInv, TypeOK, AnsweredWhenSettled
<1>6. AbortHeard'
  BY <1>4 DEF IInv, TypeOK, AbortHeard
<1> QED
  BY <1>1, <1>3, <1>5, <1>6 DEF IInv, Counts

\* Every action of the queue preserves the inductive invariant.
LEMMA InvariantStep == IInv /\ [Next]_vars => IInv'
<1> SUFFICES ASSUME IInv, [Next]_vars PROVE IInv'
  OBVIOUS
<1>0. /\ TypeOK
      /\ Counts
      /\ AnsweredWhenSettled
      /\ AbortHeard
  BY DEF IInv, Counts
<1>1. CASE Tick
  <2>1. TypeOK'
    BY <1>0, <1>1, QueueAssumption DEF Tick, TypeOK, Horizon
  <2>2. Counts'
    BY <1>0, <1>1, SameCounts DEF Tick, Holders
  <2>3. AnsweredWhenSettled' /\ AbortHeard'
    BY <1>0, <1>1 DEF Tick, AnsweredWhenSettled, AbortHeard
  <2> QED
    BY <2>1, <2>2, <2>3 DEF IInv, Counts
<1>2. ASSUME NEW r \in Requests, AcquireCancelled(r) \/ AcquireFull(r)
      PROVE  IInv'
  <2>1. TypeOK'
    BY <1>0, <1>2 DEF AcquireCancelled, AcquireFull, Settle, TypeOK, Phases, Outcomes
  <2>2. Counts'
    BY <1>0, <1>2, SameCounts
    DEF AcquireCancelled, AcquireFull, Settle, TypeOK, Holders
  <2>3. AnsweredWhenSettled' /\ AbortHeard'
    BY <1>0, <1>2
    DEF AcquireCancelled, AcquireFull, Settle, TypeOK, AnsweredWhenSettled, AbortHeard
  <2> QED
    BY <2>1, <2>2, <2>3 DEF IInv, Counts
<1>3. ASSUME NEW r \in Requests, AcquireSlot(r)
      PROVE  IInv'
  <2>1. TypeOK'
    BY <1>0, <1>3 DEF AcquireSlot, TypeOK, Phases
  <2>2. r \notin Holders /\ Holders' = Holders \cup {r}
    BY <1>0, <1>3 DEF AcquireSlot, TypeOK, Holders
  <2>3. SlotsConserved'
    <3>1. /\ IsFiniteSet(Holders \cup {r})
          /\ Cardinality(Holders \cup {r}) = Cardinality(Holders) + 1
      BY <1>0, <2>2, FS_AddElement DEF Counts, SlotsConserved
    <3>2. active \in Nat /\ active < Concurrency /\ active' = active + 1
      BY <1>0, <1>3 DEF AcquireSlot, TypeOK
    <3> QED
      BY <1>0, <2>2, <3>1, <3>2, QueueAssumption DEF Counts, SlotsConserved
  <2>4. waiting = <<>> /\ waiting' = <<>>
    BY <1>0, <1>3, QueueAssumption DEF AcquireSlot, TypeOK, Counts, WorkConserving
  <2>5. LineMatchesWaiters'
    BY <1>0, <1>3, <2>4 DEF AcquireSlot, TypeOK, Counts, LineMatchesWaiters
  <2>6. WorkConserving' /\ AnsweredWhenSettled' /\ AbortHeard'
    BY <1>0, <1>3, <2>4
    DEF AcquireSlot, TypeOK, WorkConserving, AnsweredWhenSettled, AbortHeard
  <2> QED
    BY <2>1, <2>3, <2>5, <2>6 DEF IInv
<1>4. ASSUME NEW r \in Requests, AcquireWait(r)
      PROVE  IInv'
  <2>1. TypeOK'
    BY <1>0, <1>4 DEF AcquireWait, TypeOK, Phases
  <2>2. Holders' = Holders
    BY <1>0, <1>4 DEF AcquireWait, TypeOK, Holders
  <2>3. SlotsConserved'
    BY <1>0, <1>4, <2>2 DEF AcquireWait, Counts, SlotsConserved
  <2>4. WorkConserving'
    BY <1>0, <1>4, QueueAssumption
    DEF AcquireWait, TypeOK, Counts, SlotsConserved, WorkConserving
  <2>5. /\ waiting \in Seq(Requests)
        /\ DOMAIN waiting = 1 .. Len(waiting)
        /\ Len(waiting) \in Nat
        /\ Len(waiting') = Len(waiting) + 1
        /\ DOMAIN waiting' = 1 .. Len(waiting) + 1
        /\ waiting'[Len(waiting) + 1] = r
        /\ \A j \in 1 .. Len(waiting) : waiting'[j] = waiting[j]
        /\ phase' = [phase EXCEPT ![r] = "waiting"]
        /\ phase[r] = "new"
    BY <1>0, <1>4 DEF AcquireWait, TypeOK
  <2>6. LineMatchesWaiters'
    <3>1. \A i \in 1 .. Len(waiting) : waiting[i] # r
      BY <1>0, <2>5 DEF Counts, LineMatchesWaiters
    <3>2. ASSUME NEW q \in Requests
          PROVE  phase'[q] = "waiting" <=> \E j \in DOMAIN waiting' : waiting'[j] = q
      <4>1. CASE q = r
        <5>1. phase'[q] = "waiting"
          BY <1>0, <2>5, <4>1 DEF TypeOK
        <5>2. Len(waiting) + 1 \in DOMAIN waiting' /\ waiting'[Len(waiting) + 1] = q
          BY <2>5, <4>1
        <5> QED
          BY <5>1, <5>2
      <4>2. CASE q # r
        <5>1. phase'[q] = phase[q]
          BY <1>0, <2>5, <4>2 DEF TypeOK
        <5>2. (\E j \in DOMAIN waiting' : waiting'[j] = q)
                <=> \E j \in DOMAIN waiting : waiting[j] = q
          BY <2>5, <4>2
        <5> QED
          BY <1>0, <5>1, <5>2 DEF Counts, LineMatchesWaiters
      <4> QED
        BY <4>1, <4>2
    <3>3. ASSUME NEW j \in DOMAIN waiting', NEW k \in DOMAIN waiting',
                 waiting'[j] = waiting'[k]
          PROVE  j = k
      <4>1. CASE j \in DOMAIN waiting /\ k \in DOMAIN waiting
        BY <1>0, <2>5, <3>3, <4>1 DEF Counts, LineMatchesWaiters
      <4>2. CASE j = Len(waiting) + 1 \/ k = Len(waiting) + 1
        BY <2>5, <3>1, <3>3, <4>2
      <4> QED
        BY <2>5, <4>1, <4>2
    <3>4. Len(waiting') <= MaxQueue
      BY <1>4, <2>5, QueueAssumption DEF AcquireWait
    <3> QED
      BY <3>2, <3>3, <3>4 DEF LineMatchesWaiters
  <2>7. AnsweredWhenSettled' /\ AbortHeard'
    BY <1>0, <1>4 DEF AcquireWait, TypeOK, AnsweredWhenSettled, AbortHeard
  <2> QED
    BY <2>1, <2>3, <2>4, <2>6, <2>7 DEF IInv
<1>5. ASSUME NEW r \in Requests, WaitTimeout(r) \/ AbortWaiting(r)
      PROVE  IInv'
  <2>1. Counts' /\ waiting' \in Seq(Requests)
    BY <1>0, <1>5, LeavingKeepsCounts DEF WaitTimeout, AbortWaiting, Settle
  <2>2. TypeOK'
    BY <1>0, <1>5, <2>1
    DEF WaitTimeout, AbortWaiting, Settle, TypeOK, Phases, Outcomes
  <2>3. AnsweredWhenSettled' /\ AbortHeard'
    BY <1>0, <1>5
    DEF WaitTimeout, AbortWaiting, Settle, TypeOK, AnsweredWhenSettled, AbortHeard
  <2> QED
    BY <2>1, <2>2, <2>3 DEF IInv, Counts
<1>6. ASSUME NEW r \in Requests,
             AbortUnheard(r) \/ AbortRunning(r) \/ BeginWork(r) \/ TotalTimer(r)
      PROVE  IInv'
  <2>1. TypeOK'
    BY <1>0, <1>6
    DEF AbortUnheard, AbortRunning, BeginWork, TotalTimer, TypeOK, Phases, Reasons
  <2>2. Counts'
    <3>1. /\ UNCHANGED <<active, waiting>>
          /\ \A q \in Requests : (phase'[q] = "waiting") = (phase[q] = "waiting")
          /\ Holders' = Holders
      BY <1>0, <1>6
      DEF AbortUnheard, AbortRunning, BeginWork, TotalTimer, TypeOK, Holders
    <3> QED
      BY <1>0, <3>1, SameCounts
  <2>3. AnsweredWhenSettled' /\ AbortHeard'
    BY <1>0, <1>6
    DEF AbortUnheard, AbortRunning, BeginWork, TotalTimer, TypeOK, AnsweredWhenSettled,
        AbortHeard
  <2> QED
    BY <2>1, <2>2, <2>3 DEF IInv, Counts
<1>7. ASSUME NEW r \in Requests,
             BeginLate(r) \/ BeginCancelled(r) \/ WorkReturns(r) \/ WorkThrows(r)
      PROVE  IInv'
  <2>1. PICK how \in Outcomes \ {"none"} : Release(r, how)
    BY <1>0, <1>7
    DEF BeginLate, BeginCancelled, WorkReturns, WorkThrows, TypeOK, Reasons, Outcomes
  <2>2. /\ r \in Holders
        /\ UNCHANGED <<age, cancelled>>
        /\ reason' \in [Requests -> Reasons]
        /\ \A q \in Requests \ {r} : reason'[q] = reason[q]
    BY <1>0, <1>7
    DEF BeginLate, BeginCancelled, WorkReturns, WorkThrows, TypeOK, Reasons, Holders
  <2> QED
    BY <2>1, <2>2, ReleaseKeepsInvariant
<1>8. CASE UNCHANGED vars
  <2>1. Holders' = Holders
    BY <1>8 DEF vars, Holders
  <2> QED
    BY <1>8, <2>1
    DEF IInv, vars, TypeOK, SlotsConserved, LineMatchesWaiters, WorkConserving,
        AnsweredWhenSettled, AbortHeard
<1> QED
  BY <1>1, <1>2, <1>3, <1>4, <1>5, <1>6, <1>7, <1>8
  DEF Next, Acquire, Abort, Begin, WorkEnds

-------------------------------------------------------------------------------

\* The queue's state always has the types it is declared with, its slots are
\* conserved, its line is exactly the waiting calls, and no slot is free while
\* a call waits.
THEOREM InvariantHolds == Spec => []IInv
BY InvariantInit, InvariantStep, PTL DEF Spec

\* #active, #waiting and every per-call field keep their types.
THEOREM TypeCorrect == Spec => []TypeOK
BY InvariantHolds, PTL DEF IInv

\* However timers, aborts and ends of work interleave, #active is the number of
\* calls that hold a slot, and at most the concurrency.
THEOREM SlotsAreConserved == Spec => []SlotsConserved
BY InvariantHolds, PTL DEF IInv

\* #waiting holds the waiting calls, each once, and never an expired entry: the
\* "continue" in #release is never taken.
THEOREM LineIsExact == Spec => []LineMatchesWaiters
BY InvariantHolds, PTL DEF IInv

\* A call waits only while every slot is taken.
THEOREM NoSlotIdlesWhileACallWaits == Spec => []WorkConserving
BY InvariantHolds, PTL DEF IInv

\* A step of run() that answers or starts a call does so once, and not after
\* the call was aborted.
THEOREM AnswersAreFinal == Spec => AnsweredOnce /\ NoAnswerAfterAbort
<1> DEFINE Once == \A r \in Requests :
             outcome[r] # "none" => outcome'[r] = outcome[r] /\ phase'[r] = "settled"
           Kept == \A r \in Requests :
             /\ outcome'[r] = "ok" /\ outcome[r] # "ok" =>
                  r \notin cancelled /\ reason[r] = "none"
             /\ phase'[r] = "running" /\ phase[r] # "running" =>
                  r \notin cancelled /\ age[r] < TotalTimeout
<1>1. IInv /\ [Next]_vars => [Once /\ Kept]_vars
  <2> SUFFICES ASSUME IInv, Next PROVE Once /\ Kept
    OBVIOUS
  <2>0. TypeOK /\ LineMatchesWaiters /\ AnsweredWhenSettled /\ AbortHeard
    BY DEF IInv
  <2>1. ASSUME NEW r \in Requests,
               BeginLate(r) \/ BeginCancelled(r) \/ WorkReturns(r) \/ WorkThrows(r)
        PROVE  Once /\ Kept
    <3>1. PICK how \in Outcomes \ {"none"} :
            /\ Release(r, how)
            /\ how = "ok" => r \notin cancelled /\ reason[r] = "none"
      BY <2>0, <2>1
      DEF BeginLate, BeginCancelled, WorkReturns, WorkThrows, TypeOK, Reasons, Outcomes,
          AbortHeard
    <3>2. r \in Holders /\ phase[r] # "settled"
      BY <2>0, <2>1
      DEF BeginLate, BeginCancelled, WorkReturns, WorkThrows, Holders
    <3>3. \A q \in Requests \ {r} :
            \/ phase'[q] = phase[q]
            \/ phase[q] = "waiting" /\ phase'[q] = "granted"
      BY <2>0, <3>1, <3>2, ReleaseHandsOver DEF TypeOK
    <3>4. phase'[r] = "settled" /\ outcome' = [outcome EXCEPT ![r] = how]
      BY <2>0, <3>1, <3>2, ReleaseHandsOver DEF TypeOK, Release
    <3> QED
      BY <2>0, <3>1, <3>2, <3>3, <3>4 DEF TypeOK, AnsweredWhenSettled
  <2>2. CASE Tick
    BY <2>0, <2>2 DEF Tick, AnsweredWhenSettled
  <2>3. ASSUME NEW r \in Requests, Acquire(r) \/ WaitTimeout(r) \/ AbortWaiting(r)
        PROVE  Once /\ Kept
    BY <2>0, <2>3
    DEF Acquire, AcquireCancelled, AcquireSlot, AcquireFull, AcquireWait, WaitTimeout,
        AbortWaiting, Settle, TypeOK, AnsweredWhenSettled
  <2>4. ASSUME NEW r \in Requests,
               AbortUnheard(r) \/ AbortRunning(r) \/ BeginWork(r) \/ TotalTimer(r)
        PROVE  Once /\ Kept
    BY <2>0, <2>4
    DEF AbortUnheard, AbortRunning, BeginWork, TotalTimer, TypeOK, AnsweredWhenSettled
  <2> QED
    BY <2>1, <2>2, <2>3, <2>4 DEF Next, Abort, Begin, WorkEnds
<1>2. [][Once /\ Kept]_vars => AnsweredOnce /\ NoAnswerAfterAbort
  <2>1. [Once /\ Kept]_vars => [Once]_vars /\ [Kept]_vars
    OBVIOUS
  <2> QED
    BY <2>1, PTL DEF AnsweredOnce, NoAnswerAfterAbort
<1> QED
  BY <1>1, <1>2, InvariantHolds, PTL DEF Spec

\* Slots go in the order of the line.
THEOREM LineIsFair == Spec => NoOvertaking
<1> DEFINE Fair == \A r \in Requests :
             phase'[r] = "granted" /\ phase[r] # "granted" =>
               \/ phase[r] = "new" /\ waiting = <<>>
               \/ \E i \in DOMAIN waiting :
                    /\ waiting[i] = r
                    /\ \A j \in 1 .. i - 1 : phase'[waiting[j]] # "waiting"
<1>1. IInv /\ [Next]_vars => [Fair]_vars
  <2> SUFFICES ASSUME IInv, Next PROVE Fair
    OBVIOUS
  <2>0. TypeOK /\ LineMatchesWaiters /\ WorkConserving
    BY DEF IInv
  <2>1. ASSUME NEW r \in Requests,
               BeginLate(r) \/ BeginCancelled(r) \/ WorkReturns(r) \/ WorkThrows(r)
        PROVE  Fair
    <3>1. r \in Holders /\ \E how : Release(r, how)
      BY <2>0, <2>1
      DEF BeginLate, BeginCancelled, WorkReturns, WorkThrows, Holders
    <3>2. ASSUME NEW q \in Requests, phase'[q] = "granted", phase[q] # "granted"
          PROVE  1 \in DOMAIN waiting /\ waiting[1] = q
      <4>1. waiting # <<>> /\ q = Head(waiting)
        BY <2>0, <3>1, <3>2, ReleaseHandsOver DEF TypeOK
      <4> QED
        BY <2>0, <4>1 DEF TypeOK
    <3> QED
      BY <3>2
  <2>2. CASE Tick
    BY <2>0, <2>2 DEF Tick
  <2>3. ASSUME NEW r \in Requests, AcquireSlot(r)
        PROVE  Fair
    <3>1. waiting = <<>>
      BY <2>0, <2>3, QueueAssumption DEF AcquireSlot, TypeOK, WorkConserving
    <3> QED
      BY <2>0, <2>3, <3>1 DEF AcquireSlot, TypeOK
  <2>4. ASSUME NEW r \in Requests,
               \/ AcquireCancelled(r) \/ AcquireFull(r) \/ AcquireWait(r)
               \/ WaitTimeout(r) \/ Abort(r) \/ BeginWork(r) \/ TotalTimer(r)
        PROVE  Fair
    BY <2>0, <2>4
    DEF AcquireCancelled, AcquireFull, AcquireWait, WaitTimeout, Abort, AbortUnheard,
        AbortWaiting, AbortRunning, BeginWork, TotalTimer, Settle, TypeOK
  <2> QED
    BY <2>1, <2>2, <2>3, <2>4 DEF Next, Acquire, Begin, WorkEnds
<1> QED
  BY <1>1, InvariantHolds, PTL DEF Spec, NoOvertaking

-------------------------------------------------------------------------------

\* A call that has not reached #acquire is outside the admission control.
LEMMA NewIsOutside ==
  ASSUME IInv, NEW r \in Requests, phase[r] = "new"
  PROVE  Admission!Outside(r)
BY DEF IInv, Holders, LineMatchesWaiters, AnsweredWhenSettled, Admission!Outside

\* A release by a call that holds a slot is the abstract Finish.
LEMMA ReleaseFinishes ==
  ASSUME IInv, NEW r \in Requests, r \in Holders,
         NEW how \in Admission!Answers, Release(r, how)
  PROVE  Admission!Finish(r, how)
<1>0. TypeOK /\ LineMatchesWaiters
  BY DEF IInv
<1>1. outcome' = [outcome EXCEPT ![r] = how]
  BY DEF Release
<1>2. CASE /\ waiting = <<>> /\ waiting' = <<>>
           /\ phase' = [phase EXCEPT ![r] = "settled"]
  <2>1. Holders' = Holders \ {r}
    BY <1>0, <1>2 DEF Holders, TypeOK
  <2> QED
    BY <1>1, <1>2, <2>1 DEF Admission!Finish
<1>3. CASE /\ waiting # <<>> /\ waiting' = Tail(waiting)
           /\ Head(waiting) \in Requests
           /\ phase[Head(waiting)] = "waiting"
           /\ phase' = [phase EXCEPT ![r] = "settled", ![Head(waiting)] = "granted"]
  <2>1. Holders' = (Holders \ {r}) \cup {Head(waiting)}
    BY <1>0, <1>3 DEF Holders, TypeOK
  <2> QED
    BY <1>1, <1>3, <2>1 DEF Admission!Finish
<1> QED
  BY <1>0, <1>2, <1>3, ReleaseHandsOver

\* The operators of the library mean the same in the instance.
LEMMA SameOperators ==
  /\ \A S : Admission!Cardinality(S) = Cardinality(S)
  /\ \A q, i : Admission!RemoveAt(q, i) = RemoveAt(q, i)
BY DEF Admission!Cardinality, Cardinality, Admission!RemoveAt, RemoveAt

\* Every step of the queue is a step of the admission control or leaves it as it is.
LEMMA AdmissionStep == IInv /\ [Next]_vars => [Admission!Next]_(Admission!vars)
<1> SUFFICES ASSUME IInv, [Next]_vars
             PROVE  Admission!Next \/ UNCHANGED <<Holders, waiting, outcome>>
  BY DEF Admission!vars
<1>0. /\ TypeOK
      /\ SlotsConserved
      /\ LineMatchesWaiters
      /\ WorkConserving
  BY DEF IInv
<1>1. CASE Tick \/ UNCHANGED vars
  BY <1>0, <1>1 DEF Tick, vars, Holders
<1>2. ASSUME NEW r \in Requests, AcquireCancelled(r)
      PROVE  Admission!Next
  <2>0. Admission!Outside(r)
    BY <1>2, NewIsOutside DEF AcquireCancelled
  <2>1. Holders' = Holders
    BY <1>0, <1>2 DEF AcquireCancelled, Settle, TypeOK, Holders
  <2>2. Admission!Refuse(r, "cancelled")
    BY <1>2, <2>1, <2>0 DEF AcquireCancelled, Settle, Admission!Refuse
  <2> QED
    BY <2>2 DEF Admission!Next
<1>3. ASSUME NEW r \in Requests, AcquireFull(r)
      PROVE  Admission!Next
  <2>0. Admission!Outside(r)
    BY <1>3, NewIsOutside DEF AcquireFull
  <2>1. Holders' = Holders
    BY <1>0, <1>3 DEF AcquireFull, Settle, TypeOK, Holders
  <2>2. Cardinality(Holders) = Concurrency /\ Len(waiting) = MaxQueue
    BY <1>0, <1>3, QueueAssumption
    DEF AcquireFull, TypeOK, SlotsConserved, LineMatchesWaiters
  <2>3. Admission!Refuse(r, "full")
    BY <1>3, <2>1, <2>2, <2>0, SameOperators DEF AcquireFull, Settle, Admission!Refuse
  <2> QED
    BY <2>3 DEF Admission!Next
<1>4. ASSUME NEW r \in Requests, AcquireSlot(r)
      PROVE  Admission!Next
  <2>0. Admission!Outside(r)
    BY <1>4, NewIsOutside DEF AcquireSlot
  <2>1. Holders' = Holders \cup {r}
    BY <1>0, <1>4 DEF AcquireSlot, TypeOK, Holders
  <2>2. waiting = <<>> /\ Cardinality(Holders) < Concurrency
    BY <1>0, <1>4, QueueAssumption DEF AcquireSlot, TypeOK, SlotsConserved, WorkConserving
  <2>3. Admission!Enter(r)
    BY <1>4, <2>1, <2>2, <2>0, SameOperators DEF AcquireSlot, Admission!Enter
  <2> QED
    BY <2>3 DEF Admission!Next
<1>5. ASSUME NEW r \in Requests, AcquireWait(r)
      PROVE  Admission!Next
  <2>0. Admission!Outside(r)
    BY <1>5, NewIsOutside DEF AcquireWait
  <2>1. Holders' = Holders
    BY <1>0, <1>5 DEF AcquireWait, TypeOK, Holders
  <2>2. Cardinality(Holders) = Concurrency
    BY <1>0, <1>5, QueueAssumption DEF AcquireWait, TypeOK, SlotsConserved
  <2>3. Admission!Join(r)
    BY <1>5, <2>1, <2>2, <2>0, <1>0, SameOperators DEF AcquireWait, TypeOK, Admission!Join
  <2> QED
    BY <2>3 DEF Admission!Next
<1>6. ASSUME NEW r \in Requests, WaitTimeout(r) \/ AbortWaiting(r)
      PROVE  Admission!Next
  <2>1. Holders' = Holders
    BY <1>0, <1>6 DEF WaitTimeout, AbortWaiting, Settle, TypeOK, Holders
  <2>2. PICK i \in DOMAIN waiting : waiting[i] = r
    BY <1>0, <1>6 DEF WaitTimeout, AbortWaiting, LineMatchesWaiters
  <2>3. waiting' = Admission!RemoveAt(waiting, i)
    <3>1. RemoveFirst(waiting, waiting[i]) = RemoveAt(waiting, i)
      BY <1>0, RemoveFirstIsRemoveAt DEF TypeOK, LineMatchesWaiters
    <3> QED
      BY <1>6, <2>2, <3>1, SameOperators DEF WaitTimeout, AbortWaiting
  <2>4. Admission!GiveUp(r, "late") \/ Admission!GiveUp(r, "cancelled")
    BY <1>6, <2>1, <2>2, <2>3 DEF WaitTimeout, AbortWaiting, Settle, Admission!GiveUp
  <2> QED
    BY <2>4 DEF Admission!Next
<1>7. ASSUME NEW r \in Requests,
             AbortUnheard(r) \/ AbortRunning(r) \/ BeginWork(r) \/ TotalTimer(r)
      PROVE  UNCHANGED <<Holders, waiting, outcome>>
  BY <1>0, <1>7
  DEF AbortUnheard, AbortRunning, BeginWork, TotalTimer, TypeOK, Holders
<1>8. ASSUME NEW r \in Requests,
             BeginLate(r) \/ BeginCancelled(r) \/ WorkReturns(r) \/ WorkThrows(r)
      PROVE  Admission!Next
  <2>1. PICK how \in Admission!Answers : Release(r, how)
    BY <1>0, <1>8
    DEF BeginLate, BeginCancelled, WorkReturns, WorkThrows, TypeOK, Reasons,
        Admission!Answers
  <2>2. r \in Holders
    BY <1>8 DEF BeginLate, BeginCancelled, WorkReturns, WorkThrows, Holders
  <2> QED
    BY <2>1, <2>2, ReleaseFinishes DEF Admission!Next
<1> QED
  BY <1>1, <1>2, <1>3, <1>4, <1>5, <1>6, <1>7, <1>8
  DEF Next, Acquire, Abort, Begin, WorkEnds

\* The queue implements the admission control it stands for.
THEOREM QueueImplementsAdmission == Spec => ImplementsAdmission
<1>1. Init => Admission!Init
  <2>1. Init => Holders = {}
    BY DEF Init, Holders
  <2> QED
    BY <2>1 DEF Init, Admission!Init
<1> QED
  BY <1>1, AdmissionStep, InvariantHolds, PTL DEF Spec, ImplementsAdmission, Admission!Spec
===============================================================================
