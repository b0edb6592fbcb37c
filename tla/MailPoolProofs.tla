---------------------------- MODULE MailPoolProofs -----------------------------
(***************************************************************************)
(* The worker pool keeps every job in one place, never runs more threads   *)
(* than its size and implements ParsingService, for every set of jobs and  *)
(* every size and limit.                                                   *)
(***************************************************************************)
EXTENDS MailPool, FiniteSetTheorems, SeqLemmas, TLAPS

InQueue(q, j) == \E i \in DOMAIN q : q[i] = j

\* JobInOnePlace, of a queue q, slots S with jobs J, and pending jobs P.
Places(q, S, J, P) ==
  /\ q \in Seq(Jobs)
  /\ J \in [Workers -> Jobs \cup {NoJob}]
  /\ \A j \in Jobs : j \in P <=> InQueue(q, j) \/ \E w \in Workers : J[w] = j
  /\ \A i, k \in DOMAIN q : q[i] = q[k] => i = k
  /\ \A v, w \in Workers : J[v] # NoJob /\ J[v] = J[w] => v = w
  /\ \A i \in DOMAIN q : \A w \in Workers : q[i] # J[w]
  /\ \A w \in Workers : J[w] # NoJob => w \in S

\* ThreadWorksOnSlotsJob, with what it needs of the threads that are no slot's:
\* the dead ones are on their way out, the others hold no job and no answer.
Runs(S, D, J, T, I, R) ==
  /\ IsFiniteSet(S) /\ Cardinality(S) <= Size
  /\ T \in [Workers -> Threads]
  /\ I \in [Workers -> Jobs \cup {NoJob}]
  /\ R \in [Workers -> Jobs \cup {NoJob}]
  /\ S = {w \in Workers : T[w] = "up"}
  /\ D = {w \in Workers : T[w] \in {"stopping", "crashed"}}
  /\ \A w \in Workers : T[w] \in {"none", "crashed"} => I[w] = NoJob
  /\ \A w \in Workers : T[w] = "none" => R[w] = NoJob
  /\ \A w \in S :
       /\ J[w] # NoJob <=> I[w] # NoJob \/ R[w] # NoJob
       /\ I[w] \in {NoJob, J[w]}
       /\ R[w] \in {NoJob, J[w]}
       /\ I[w] = NoJob \/ R[w] = NoJob

Pending == {j \in Jobs : status[j] = "pending"}

IInv ==
  /\ status \in [Jobs -> Statuses]
  /\ Places(queue, slots, job, Pending)
  /\ Runs(slots, dead, job, thread, inbox, reply)
  /\ NoStrandedJob
  /\ Cardinality(Pending) <= MaxQueue

-------------------------------------------------------------------------------
(* #dispatch *)

\* What #dispatch does to the pool: the first n jobs go to the threads to[1],
\* ..., to[n], idle or fresh, and what stays in the queue finds the pool full.
Dispatched(n, to, q, S, J, T, I) ==
  /\ n \in 0 .. Len(q)
  /\ to \in [1 .. n -> Workers]
  /\ \A i, k \in 1 .. n : to[i] = to[k] => i = k
  /\ \A i \in 1 .. n : (to[i] \in S /\ J[to[i]] = NoJob) \/ T[to[i]] = "none"
  /\ queue' = SubSeq(q, n + 1, Len(q))
  /\ slots' = S \cup {to[i] : i \in 1 .. n}
  /\ job' \in [Workers -> Jobs \cup {NoJob}]
  /\ inbox' \in [Workers -> Jobs \cup {NoJob}]
  /\ thread' \in [Workers -> Threads]
  /\ \A i \in 1 .. n : job'[to[i]] = q[i] /\ inbox'[to[i]] = q[i] /\ thread'[to[i]] = "up"
  /\ \A w \in Workers : (\A i \in 1 .. n : to[i] # w) =>
       job'[w] = J[w] /\ inbox'[w] = I[w] /\ thread'[w] = T[w]
  /\ IsFiniteSet(slots') /\ Cardinality(slots') <= Size
  /\ n < Len(q) => Cardinality(slots') = Size /\ \A w \in slots' : job'[w] # NoJob

\* The threads that are taken: as many as the jobs, no more than the room.
LEMMA TakenAreCounted ==
  ASSUME NEW n \in Nat, NEW taken, NEW to \in [1 .. n -> taken],
         \A i, k \in 1 .. n : to[i] = to[k] => i = k,
         \A t \in taken : \E i \in 1 .. n : to[i] = t
  PROVE  IsFiniteSet(taken) /\ Cardinality(taken) = n
<1>1. ExistsBijection(1 .. n, taken)
  <2>1. IsInjective(to)
    BY DEF IsInjective
  <2>2. to \in Bijection(1 .. n, taken)
    BY <2>1 DEF Bijection, Injection, Surjection
  <2> QED  BY <2>2 DEF ExistsBijection
<1>2. IsFiniteSet(1 .. n) /\ Cardinality(1 .. n) = n
  BY FS_Interval
<1> QED  BY <1>1, <1>2, FS_Bijection

LEMMA DispatchDoes ==
  ASSUME NEW q \in Seq(Jobs), NEW S \in SUBSET Workers, NEW J \in [Workers -> Jobs \cup {NoJob}],
         NEW T \in [Workers -> Threads], NEW I \in [Workers -> Jobs \cup {NoJob}],
         S = {w \in Workers : T[w] = "up"}, S \cap dead = {},
         IsFiniteSet(S), Cardinality(S) <= Size,
         \A i \in DOMAIN q : q[i] # NoJob,
         Dispatch(q, S, J, T, I)
  PROVE  \E n, to : Dispatched(n, to, q, S, J, T, I)
<1> DEFINE idle == Idle(S, J)
           room == Cardinality(idle) + Size - Cardinality(S)
           n == IF room > 0 THEN Smaller(Len(q), room) ELSE 0
           fresh == {w \in Workers : T[w] = "none"}
<1>1. idle = {w \in S : J[w] = NoJob}
  BY DEF Idle
<1>2. PICK to \in [1 .. n -> idle \cup fresh] :
        LET taken == {to[i] : i \in 1 .. n}
            spawned == taken \ S
        IN /\ \A i, k \in 1 .. n : to[i] = to[k] => i = k
           /\ spawned # {} => idle \subseteq taken
           /\ \A v \in spawned, w \in fresh \ spawned : v < w
           /\ queue' = SubSeq(q, n + 1, Len(q))
           /\ slots' = S \cup spawned
           /\ job' = [w \in Workers |->
                        IF w \in taken THEN q[CHOOSE i \in 1 .. n : to[i] = w] ELSE J[w]]
           /\ thread' = [w \in Workers |-> IF w \in spawned THEN "up" ELSE T[w]]
           /\ inbox' = [w \in Workers |-> IF w \in taken THEN job'[w] ELSE I[w]]
  BY Zenon DEF Dispatch
<1> DEFINE taken == {to[i] : i \in 1 .. n}
           spawned == taken \ S
<1>3. IsFiniteSet(idle) /\ Cardinality(idle) \in Nat /\ Cardinality(S) \in Nat
  BY <1>1, FS_Subset, FS_CardinalityType
<1>4. /\ n \in 0 .. Len(q) /\ n \in Nat
      /\ n <= Cardinality(idle) + Size - Cardinality(S)
      /\ n < Len(q) => n = Cardinality(idle) + Size - Cardinality(S)
  BY <1>3, PoolAssumption DEF Smaller
<1> HIDE DEF n
<1>5. IsFiniteSet(taken) /\ Cardinality(taken) = n
  <2>1. to \in [1 .. n -> taken] /\ \A t \in taken : \E i \in 1 .. n : to[i] = t
    BY <1>2
  <2>2. n \in Nat /\ \A i, k \in 1 .. n : to[i] = to[k] => i = k
    BY <1>2, <1>4
  <2> HIDE DEF taken
  <2> QED  BY <2>1, <2>2, TakenAreCounted
<1>6. taken \subseteq idle \cup fresh /\ fresh \cap S = {} /\ idle \subseteq S
  BY <1>1, <1>2
<1>7. /\ IsFiniteSet(spawned) /\ Cardinality(spawned) \in Nat
      /\ spawned # {} => idle \subseteq taken /\ Cardinality(spawned) = n - Cardinality(idle)
      /\ spawned = {} => taken \subseteq idle /\ Cardinality(spawned) = 0
  <2>1. IsFiniteSet(spawned) /\ Cardinality(spawned) \in Nat
    BY <1>5, FS_Subset, FS_CardinalityType
  <2>2. ASSUME spawned # {} PROVE idle \subseteq taken /\ Cardinality(spawned) = n - Cardinality(idle)
    <3>1. idle \subseteq taken
      BY <1>2, <2>2
    <3>2. taken = idle \cup spawned /\ idle \cap spawned = {}
      BY <3>1, <1>6
    <3>3. Cardinality(idle \cup spawned) = Cardinality(idle) + Cardinality(spawned) - Cardinality(idle \cap spawned)
      BY <2>1, <1>3, FS_Union
    <3>4. Cardinality(idle \cap spawned) = 0
      BY <3>2, FS_EmptySet
    <3> HIDE DEF taken, spawned, idle
    <3> QED  BY <3>1, <3>2, <3>3, <3>4, <2>1, <1>3, <1>4, <1>5
  <2>3. spawned = {} => taken \subseteq idle /\ Cardinality(spawned) = 0
    BY <1>6, FS_EmptySet
  <2> QED  BY <2>1, <2>2, <2>3
<1>8. /\ slots' = S \cup spawned /\ S \cap spawned = {}
      /\ IsFiniteSet(S \cup spawned)
      /\ Cardinality(S \cup spawned) = Cardinality(S) + Cardinality(spawned)
  <2>1. slots' = S \cup spawned /\ S \cap spawned = {}
    BY <1>2
  <2>2. Cardinality(S \cup spawned) = Cardinality(S) + Cardinality(spawned) - Cardinality(S \cap spawned)
    BY <1>7, FS_Union
  <2>3. IsFiniteSet(S \cup spawned)
    BY <1>7, FS_Union
  <2>4. Cardinality(S \cap spawned) = 0
    BY <2>1, FS_EmptySet
  <2> HIDE DEF spawned
  <2> QED  BY <2>1, <2>2, <2>3, <2>4, <1>3, <1>7
<1>9. IsFiniteSet(slots') /\ Cardinality(slots') <= Size
  <2> HIDE DEF taken, spawned, idle
  <2> QED  BY <1>3, <1>4, <1>7, <1>8, PoolAssumption
<1>10. ASSUME n < Len(q) PROVE Cardinality(slots') = Size /\ idle \subseteq taken
  <2>1. CASE spawned # {}
    <3> HIDE DEF taken, spawned, idle
    <3> QED  BY <2>1, <1>3, <1>4, <1>7, <1>8, <1>10, PoolAssumption
  <2>2. CASE spawned = {}
    <3>1. Cardinality(taken) <= Cardinality(idle) /\ (Cardinality(idle) = Cardinality(taken) => idle = taken)
      BY <2>2, <1>3, <1>7, FS_Subset
    <3> HIDE DEF taken, spawned, idle
    <3> QED  BY <2>2, <3>1, <1>3, <1>4, <1>5, <1>7, <1>8, <1>10, PoolAssumption
  <2> QED  BY <2>1, <2>2
<1>11. \A i \in 1 .. n : (CHOOSE k \in 1 .. n : to[k] = to[i]) = i
  BY <1>2
<1>12. to \in [1 .. n -> Workers]
  BY <1>1, <1>2
<1>13. ASSUME NEW i \in 1 .. n
       PROVE  job'[to[i]] = q[i] /\ inbox'[to[i]] = q[i] /\ thread'[to[i]] = "up"
  <2>1. to[i] \in Workers /\ to[i] \in taken
    BY <1>12
  <2>2. job'[to[i]] = q[CHOOSE k \in 1 .. n : to[k] = to[i]]
    BY <1>2, <2>1
  <2>3. inbox'[to[i]] = job'[to[i]]
    BY <1>2, <2>1
  <2>4. thread'[to[i]] = "up"
    BY <1>2, <2>1
  <2> QED  BY <2>2, <2>3, <2>4, <1>11
<1>14. ASSUME NEW w \in Workers, \A i \in 1 .. n : to[i] # w
       PROVE  job'[w] = J[w] /\ inbox'[w] = I[w] /\ thread'[w] = T[w]
  <2>1. w \notin taken
    BY <1>14
  <2> QED  BY <2>1, <1>2
<1>15. \A w \in Workers : (\A i \in 1 .. n : to[i] # w) \/ \E i \in 1 .. n : to[i] = w
  OBVIOUS
<1>16. \A i \in 1 .. n : q[i] \in Jobs /\ q[i] # NoJob
  BY <1>4
<1>17. /\ job' \in [Workers -> Jobs \cup {NoJob}] /\ inbox' \in [Workers -> Jobs \cup {NoJob}]
       /\ thread' \in [Workers -> Threads]
  <2>1. \A w \in Workers : job'[w] \in Jobs \cup {NoJob} /\ inbox'[w] \in Jobs \cup {NoJob} /\ thread'[w] \in Threads
    BY <1>13, <1>14, <1>15, <1>16 DEF Threads
  <2>2. /\ job' = [w \in Workers |-> job'[w]] /\ inbox' = [w \in Workers |-> inbox'[w]]
        /\ thread' = [w \in Workers |-> thread'[w]]
    BY <1>2
  <2> QED  BY <2>1, <2>2
<1>18. ASSUME n < Len(q), NEW w \in slots' PROVE job'[w] # NoJob
  <2>1. CASE \E i \in 1 .. n : to[i] = w
    BY <2>1, <1>13, <1>16
  <2>2. CASE \A i \in 1 .. n : to[i] # w
    <3>1. w \notin taken
      BY <2>2
    <3>2. w \in S /\ w \notin idle
      BY <3>1, <1>18, <1>8, <1>10
    <3> QED  BY <3>2, <2>2, <1>1, <1>14
  <2> QED  BY <2>1, <2>2
<1>19. slots' = S \cup taken
  BY <1>8
<1>20. \A i \in 1 .. n : (to[i] \in S /\ J[to[i]] = NoJob) \/ T[to[i]] = "none"
  BY <1>1, <1>2
<1>21. /\ queue' = SubSeq(q, n + 1, Len(q))
       /\ \A i, k \in 1 .. n : to[i] = to[k] => i = k
  BY <1>2
<1>22. Dispatched(n, to, q, S, J, T, I)
  BY <1>4, <1>9, <1>10, <1>12, <1>13, <1>14, <1>17, <1>18, <1>19, <1>20, <1>21 DEF Dispatched
<1> QED  BY <1>22

\* #dispatch keeps every job in one place and every thread on its slot's job, and
\* leaves no job behind while there is room.
LEMMA DispatchKeeps ==
  ASSUME NEW q, NEW S, NEW D, NEW J, NEW T, NEW I, NEW R, NEW P,
         Places(q, S, J, P), Runs(S, D, J, T, I, R), S \cap dead = {},
         Dispatch(q, S, J, T, I)
  PROVE  /\ Places(queue', slots', job', P)
         /\ Runs(slots', D, job', thread', inbox', R)
         /\ queue' # <<>> => Cardinality(slots') = Size /\ \A w \in slots' : job'[w] # NoJob
<1>1. /\ q \in Seq(Jobs) /\ DOMAIN q = 1 .. Len(q) /\ Len(q) \in Nat
      /\ \A i \in DOMAIN q : q[i] \in Jobs /\ q[i] # NoJob
  BY PoolAssumption DEF Places
<1>2. PICK n, to : Dispatched(n, to, q, S, J, T, I)
  BY <1>1, DispatchDoes DEF Places, Runs
<1>3. /\ n \in 0 .. Len(q)
      /\ to \in [1 .. n -> Workers]
      /\ \A i, k \in 1 .. n : to[i] = to[k] => i = k
      /\ \A i \in 1 .. n : (to[i] \in S /\ J[to[i]] = NoJob) \/ T[to[i]] = "none"
      /\ slots' = S \cup {to[i] : i \in 1 .. n}
      /\ \A i \in 1 .. n : job'[to[i]] = q[i] /\ inbox'[to[i]] = q[i] /\ thread'[to[i]] = "up"
      /\ \A w \in Workers : (\A i \in 1 .. n : to[i] # w) =>
           job'[w] = J[w] /\ inbox'[w] = I[w] /\ thread'[w] = T[w]
  BY <1>2 DEF Dispatched
<1>4. /\ job' \in [Workers -> Jobs \cup {NoJob}] /\ inbox' \in [Workers -> Jobs \cup {NoJob}]
      /\ thread' \in [Workers -> Threads]
      /\ IsFiniteSet(slots') /\ Cardinality(slots') <= Size
      /\ n < Len(q) => Cardinality(slots') = Size /\ \A w \in slots' : job'[w] # NoJob
  BY <1>2 DEF Dispatched
<1>5. /\ queue' \in Seq(Jobs) /\ Len(queue') = Len(q) - n /\ DOMAIN queue' = 1 .. Len(q) - n
      /\ \A k \in 1 .. Len(q) - n : queue'[k] = q[n + k]
  <2>1. queue' = SubSeq(q, n + 1, Len(q))
    BY <1>2 DEF Dispatched
  <2> QED  BY <2>1, <1>1, <1>3
<1>6. \A w \in Workers : (\A i \in 1 .. n : to[i] # w) \/ \E i \in 1 .. n : to[i] = w
  OBVIOUS
<1>7. Places(queue', slots', job', P)
  <2>1. ASSUME NEW j \in Jobs
        PROVE  j \in P <=> InQueue(queue', j) \/ \E w \in Workers : job'[w] = j
    <3>1. ASSUME InQueue(q, j) PROVE InQueue(queue', j) \/ \E w \in Workers : job'[w] = j
      <4>1. PICK i \in 1 .. Len(q) : q[i] = j
        BY <3>1, <1>1 DEF InQueue
      <4>2. CASE i <= n
        BY <4>1, <4>2, <1>3
      <4>3. CASE i > n
        <5>1. i - n \in 1 .. Len(q) - n /\ queue'[i - n] = j
          BY <4>1, <4>3, <1>3, <1>5
        <5> QED  BY <5>1, <1>5 DEF InQueue
      <4> QED  BY <4>1, <4>2, <4>3, <1>3
    <3>2. ASSUME NEW w \in Workers, J[w] = j PROVE job'[w] = j
      <4>1. J[w] # NoJob /\ T[w] # "none"
        BY <3>2, PoolAssumption DEF Places, Runs
      <4> QED  BY <4>1, <3>2, <1>3, <1>6
    <3>3. ASSUME InQueue(queue', j) PROVE InQueue(q, j)
      <4>1. PICK k \in 1 .. Len(q) - n : queue'[k] = j
        BY <3>3, <1>5 DEF InQueue
      <4>2. n + k \in 1 .. Len(q) /\ q[n + k] = j
        BY <4>1, <1>1, <1>3, <1>5
      <4> QED  BY <4>2, <1>1 DEF InQueue
    <3>4. ASSUME NEW w \in Workers, job'[w] = j PROVE InQueue(q, j) \/ J[w] = j
      BY <3>4, <1>1, <1>3, <1>6 DEF InQueue
    <3> QED  BY <3>1, <3>2, <3>3, <3>4 DEF Places
  <2>2. \A i, k \in DOMAIN queue' : queue'[i] = queue'[k] => i = k
    <3>1. ASSUME NEW i \in 1 .. Len(q) - n, NEW k \in 1 .. Len(q) - n, queue'[i] = queue'[k] PROVE i = k
      <4>1. n + i \in 1 .. Len(q) /\ n + k \in 1 .. Len(q) /\ q[n + i] = q[n + k]
        BY <3>1, <1>1, <1>3, <1>5
      <4>2. n + i = n + k
        BY <4>1, <1>1 DEF Places
      <4> QED  BY <4>2, <1>3
    <3> QED  BY <3>1, <1>5
  <2>3. \A w \in Workers, i \in 1 .. n : J[w] # q[i]
    BY <1>1, <1>3 DEF Places
  <2>4. ASSUME NEW v \in Workers, NEW w \in Workers, job'[v] # NoJob, job'[v] = job'[w] PROVE v = w
    <3>1. CASE (\E i \in 1 .. n : to[i] = v) /\ (\E k \in 1 .. n : to[k] = w)
      <4>1. PICK i \in 1 .. n, k \in 1 .. n : to[i] = v /\ to[k] = w
        BY <3>1
      <4>2. q[i] = q[k] /\ i \in DOMAIN q /\ k \in DOMAIN q
        BY <4>1, <2>4, <1>1, <1>3
      <4> QED  BY <4>1, <4>2 DEF Places
    <3>2. CASE (\A i \in 1 .. n : to[i] # v) /\ (\A i \in 1 .. n : to[i] # w)
      BY <3>2, <2>4, <1>3 DEF Places
    <3>3. CASE (\A i \in 1 .. n : to[i] # v) /\ (\E k \in 1 .. n : to[k] = w)
      BY <3>3, <2>3, <2>4, <1>3
    <3>4. CASE (\E i \in 1 .. n : to[i] = v) /\ (\A k \in 1 .. n : to[k] # w)
      BY <3>4, <2>3, <2>4, <1>3
    <3> QED  BY <3>1, <3>2, <3>3, <3>4
  <2>5. ASSUME NEW k \in DOMAIN queue', NEW w \in Workers PROVE queue'[k] # job'[w]
    <3>1. n + k \in DOMAIN q /\ queue'[k] = q[n + k] /\ \A i \in 1 .. n : i # n + k /\ i \in DOMAIN q
      BY <1>1, <1>3, <1>5
    <3>2. q[n + k] # J[w] /\ \A i \in 1 .. n : q[i] # q[n + k]
      BY <3>1 DEF Places
    <3> QED  BY <3>1, <3>2, <1>3, <1>6
  <2>6. ASSUME NEW w \in Workers, job'[w] # NoJob PROVE w \in slots'
    <3>1. CASE \A i \in 1 .. n : to[i] # w
      BY <3>1, <2>6, <1>3 DEF Places
    <3>2. CASE \E i \in 1 .. n : to[i] = w
      BY <3>2, <1>3
    <3> QED  BY <3>1, <3>2
  <2> QED  BY <2>1, <2>2, <2>4, <2>5, <2>6, <1>4, <1>5 DEF Places
<1>8. Runs(slots', D, job', thread', inbox', R)
  <2>1. slots' = {w \in Workers : thread'[w] = "up"}
    <3>1. S = {w \in Workers : T[w] = "up"}
      BY DEF Runs
    <3>2. slots' \subseteq Workers
      BY <3>1, <1>3
    <3>3. ASSUME NEW w \in Workers PROVE w \in slots' <=> thread'[w] = "up"
      <4>1. CASE \A i \in 1 .. n : to[i] # w
        BY <4>1, <3>1, <1>3
      <4>2. CASE \E i \in 1 .. n : to[i] = w
        BY <4>2, <1>3
      <4> QED  BY <4>1, <4>2
    <3> QED  BY <3>2, <3>3
  <2>2. \A i \in 1 .. n : T[to[i]] \in {"none", "up"}
    BY <1>3 DEF Runs
  <2>3. D = {w \in Workers : thread'[w] \in {"stopping", "crashed"}}
    <3>1. D = {w \in Workers : T[w] \in {"stopping", "crashed"}}
      BY DEF Runs
    <3>2. ASSUME NEW w \in Workers
          PROVE  thread'[w] \in {"stopping", "crashed"} <=> T[w] \in {"stopping", "crashed"}
      <4>1. CASE \A i \in 1 .. n : to[i] # w
        BY <4>1, <1>3
      <4>2. CASE \E i \in 1 .. n : to[i] = w
        BY <4>2, <2>2, <1>3
      <4> QED  BY <4>1, <4>2
    <3> QED  BY <3>1, <3>2
  <2>4. ASSUME NEW w \in Workers
        PROVE  /\ thread'[w] \in {"none", "crashed"} => inbox'[w] = NoJob
               /\ thread'[w] = "none" => R[w] = NoJob
    BY <1>3, <1>6 DEF Runs
  <2>5. ASSUME NEW i \in 1 .. n PROVE R[to[i]] = NoJob /\ q[i] # NoJob
    <3>1. q[i] # NoJob
      BY <1>1, <1>3
    <3>2. CASE to[i] \in S /\ J[to[i]] = NoJob
      BY <3>1, <3>2 DEF Runs
    <3>3. CASE T[to[i]] = "none"
      BY <3>1, <3>3, <1>3 DEF Runs
    <3> QED  BY <3>2, <3>3, <1>3
  <2>6. ASSUME NEW w \in slots'
        PROVE  /\ job'[w] # NoJob <=> inbox'[w] # NoJob \/ R[w] # NoJob
               /\ inbox'[w] \in {NoJob, job'[w]}
               /\ R[w] \in {NoJob, job'[w]}
               /\ inbox'[w] = NoJob \/ R[w] = NoJob
    <3>1. w \in Workers
      BY <2>1
    <3>2. CASE \A i \in 1 .. n : to[i] # w
      <4>1. w \in S
        BY <3>2, <1>3
      <4> QED  BY <4>1, <3>1, <3>2, <1>3 DEF Runs
    <3>3. CASE \E i \in 1 .. n : to[i] = w
      BY <3>3, <2>5, <1>3
    <3> QED  BY <3>1, <3>2, <3>3
  <2>7. R \in [Workers -> Jobs \cup {NoJob}]
    BY DEF Runs
  <2> QED  BY <2>1, <2>3, <2>4, <2>6, <2>7, <1>4 DEF Runs
<1>9. queue' # <<>> => n < Len(q)
  BY <1>1, <1>3, <1>5
<1> QED  BY <1>4, <1>7, <1>8, <1>9

-------------------------------------------------------------------------------
(* How the other parts of a step change the places of the jobs. *)

\* The jobs without an answer are those of the queue and those of the slots.
LEMMA PendingAreCounted ==
  ASSUME NEW q, NEW S, NEW J, NEW P \in SUBSET Jobs, Places(q, S, J, P), IsFiniteSet(S),
         S \subseteq Workers
  PROVE  /\ IsFiniteSet(P)
         /\ Cardinality(P) = Len(q) + Cardinality({w \in S : J[w] # NoJob})
<1> DEFINE queued == {j \in P : InQueue(q, j)}
           parsed == {j \in P : \E w \in Workers : J[w] = j}
           busy == {w \in S : J[w] # NoJob}
           of == [w \in busy |-> J[w]]
<1>1. q \in Seq(Jobs) /\ DOMAIN q = 1 .. Len(q) /\ Len(q) \in Nat
  BY DEF Places
<1>2. IsFiniteSet(queued) /\ Cardinality(queued) = Len(q)
  <2>1. q \in [1 .. Len(q) -> queued] /\ \A t \in queued : \E i \in 1 .. Len(q) : q[i] = t
    <3>1. \A i \in 1 .. Len(q) : q[i] \in queued
      BY <1>1 DEF Places, InQueue
    <3>2. q = [i \in 1 .. Len(q) |-> q[i]]
      BY <1>1
    <3>3. \A t \in queued : \E i \in 1 .. Len(q) : q[i] = t
      BY <1>1 DEF InQueue
    <3> HIDE DEF queued
    <3> QED  BY <3>1, <3>2, <3>3
  <2>2. \A i, k \in 1 .. Len(q) : q[i] = q[k] => i = k
    BY <1>1 DEF Places
  <2> HIDE DEF queued
  <2> QED  BY <2>1, <2>2, <1>1, TakenAreCounted
<1>3. IsFiniteSet(busy) /\ Cardinality(busy) \in Nat
  BY FS_Subset, FS_CardinalityType
<1>4. IsFiniteSet(parsed) /\ Cardinality(parsed) = Cardinality(busy)
  <2>1. \A w \in busy : J[w] \in parsed
    BY DEF Places
  <2>2. \A t \in parsed : \E w \in busy : of[w] = t
    BY PoolAssumption DEF Places
  <2>3. of \in [busy -> parsed] /\ IsInjective(of)
    BY <2>1 DEF IsInjective, Places
  <2> HIDE DEF of, busy, parsed
  <2>4. of \in Bijection(busy, parsed)
    BY <2>2, <2>3 DEF Bijection, Injection, Surjection
  <2> QED  BY <2>4, <1>3, FS_Bijection DEF ExistsBijection
<1>5. P = queued \cup parsed
  BY DEF Places
<1>6. queued \cap parsed = {}
  BY DEF Places, InQueue
<1>7. Cardinality(queued \cap parsed) = 0
  BY <1>6, FS_EmptySet
<1> HIDE DEF queued, parsed
<1>8. /\ IsFiniteSet(queued \cup parsed)
      /\ Cardinality(queued \cup parsed)
           = Cardinality(queued) + Cardinality(parsed) - Cardinality(queued \cap parsed)
  BY <1>2, <1>4, FS_Union
<1> QED  BY <1>1, <1>2, <1>3, <1>4, <1>5, <1>7, <1>8

LEMMA FewerPending ==
  ASSUME IInv, Pending' \subseteq Pending
  PROVE  Cardinality(Pending') <= MaxQueue
<1>1. IsFiniteSet(Pending)
  BY PendingAreCounted DEF IInv, Runs, Pending
<1>2. /\ Cardinality(Pending') <= Cardinality(Pending)
      /\ Cardinality(Pending') \in Nat /\ Cardinality(Pending) \in Nat
  BY <1>1, FS_Subset, FS_CardinalityType
<1> QED  BY <1>2, PoolAssumption DEF IInv

\* A new job is put at the end of the queue.
LEMMA QueueingPlaces ==
  ASSUME NEW q, NEW S, NEW J, NEW P, NEW j \in Jobs, j \notin P, Places(q, S, J, P)
  PROVE  Places(Append(q, j), S, J, P \cup {j})
<1> DEFINE longer == Append(q, j)
<1>1. q \in Seq(Jobs) /\ DOMAIN q = 1 .. Len(q) /\ Len(q) \in Nat
  BY DEF Places
<1>2. /\ longer \in Seq(Jobs) /\ DOMAIN longer = 1 .. Len(q) + 1
      /\ longer[Len(q) + 1] = j /\ \A i \in 1 .. Len(q) : longer[i] = q[i]
  BY <1>1
<1> HIDE DEF longer
<1>3. (\A i \in DOMAIN q : q[i] # j) /\ \A w \in Workers : J[w] # j
  BY DEF Places, InQueue
<1>4. \A k \in Jobs : k \in P \cup {j} <=> InQueue(longer, k) \/ \E w \in Workers : J[w] = k
  <2>1. \A k \in Jobs : InQueue(longer, k) <=> InQueue(q, k) \/ k = j
    BY <1>1, <1>2 DEF InQueue
  <2> QED  BY <2>1, <1>3 DEF Places
<1>5. \A i, k \in DOMAIN longer : longer[i] = longer[k] => i = k
  BY <1>1, <1>2, <1>3 DEF Places
<1>6. \A i \in DOMAIN longer : \A w \in Workers : longer[i] # J[w]
  BY <1>1, <1>2, <1>3 DEF Places
<1>7. Places(longer, S, J, P \cup {j})
  BY <1>2, <1>4, <1>5, <1>6 DEF Places
<1> QED  BY <1>7 DEF longer

\* A slot loses its job, and perhaps its place among the slots.
LEMMA FreeingPlaces ==
  ASSUME NEW q, NEW S, NEW J, NEW P, NEW w \in Workers, NEW less, Places(q, S, J, P),
         S \ {w} \subseteq less
  PROVE  Places(q, less, [J EXCEPT ![w] = NoJob], P \ {J[w]})
<1> DEFINE rest == [J EXCEPT ![w] = NoJob]
<1>1. /\ rest \in [Workers -> Jobs \cup {NoJob}]
      /\ rest[w] = NoJob /\ \A v \in Workers : v # w => rest[v] = J[v]
  BY DEF Places
<1> HIDE DEF rest
<1>2. \A j \in Jobs : j \in P \ {J[w]} <=> InQueue(q, j) \/ \E v \in Workers : rest[v] = j
  <2>1. ASSUME NEW j \in Jobs PROVE (\E v \in Workers : rest[v] = j) <=> (\E v \in Workers : J[v] = j) /\ j # J[w]
    BY <1>1, PoolAssumption DEF Places
  <2>2. \A j \in Jobs : InQueue(q, j) => j # J[w]
    BY DEF Places, InQueue
  <2> QED  BY <2>1, <2>2 DEF Places
<1>3. \A u, v \in Workers : rest[u] # NoJob /\ rest[u] = rest[v] => u = v
  BY <1>1 DEF Places
<1>4. \A i \in DOMAIN q : \A v \in Workers : q[i] # rest[v]
  BY <1>1, PoolAssumption DEF Places
<1>5. \A v \in Workers : rest[v] # NoJob => v \in less
  BY <1>1 DEF Places
<1>6. Places(q, less, rest, P \ {J[w]})
  BY <1>1, <1>2, <1>3, <1>4, <1>5 DEF Places
<1> QED  BY <1>6 DEF rest

\* A job is taken out of the queue.
LEMMA LeavingPlaces ==
  ASSUME NEW q, NEW S, NEW J, NEW P, NEW gone \in Jobs, Places(q, S, J, P), InQueue(q, gone)
  PROVE  Places(RemoveFirst(q, gone), S, J, P \ {gone}) /\ q # <<>>
<1> DEFINE less == RemoveFirst(q, gone)
<1>0. \A i, k \in DOMAIN q : q[i] = q[k] => i = k
  BY DEF Places
<1>1. q \in Seq(Jobs) /\ DOMAIN q = 1 .. Len(q) /\ Len(q) \in Nat
  BY DEF Places
<1>2. PICK i \in 1 .. Len(q) : q[i] = gone
  BY <1>1 DEF InQueue
<1>3. /\ less \in Seq(Jobs) /\ Len(less) = Len(q) - 1
      /\ \A k \in 1 .. Len(q) - 1 : less[k] = IF k < i THEN q[k] ELSE q[k + 1]
  <2>1. RemoveFirst(q, q[i]) \in Seq(Jobs)
    BY <1>0, <1>1, RemoveFirstSplices
  <2>2. Len(RemoveFirst(q, q[i])) = Len(q) - 1
    BY <1>0, <1>1, RemoveFirstSplices
  <2>3. ASSUME NEW j \in 1 .. Len(q) - 1
        PROVE  RemoveFirst(q, q[i])[j] = IF j < i THEN q[j] ELSE q[j + 1]
    <3>1. q \in Seq(Jobs) /\ i \in 1 .. Len(q)
      BY <1>1
    <3> QED  BY ONLY <1>0, <2>3, <3>1, RemoveFirstSplices, SMTT(60)
  <2> QED  BY <1>2, <2>1, <2>2, <2>3
<1> HIDE DEF less
<1>4. DOMAIN less = 1 .. Len(q) - 1
  BY <1>1, <1>3
<1>5. \A k \in Jobs : InQueue(less, k) <=> InQueue(q, k) /\ k # gone
  <2>1. ASSUME NEW k \in Jobs, NEW m \in 1 .. Len(q) - 1, less[m] = k PROVE InQueue(q, k) /\ k # gone
    <3>1. CASE m < i
      <4>1. less[m] = q[m] /\ m \in DOMAIN q /\ i \in DOMAIN q
        BY <3>1, <1>1, <1>3
      <4>2. m # i
        BY <3>1
      <4> QED  BY <4>1, <4>2, <2>1, <1>0, <1>2, Zenon DEF InQueue
    <3>2. CASE m >= i
      <4>1. less[m] = q[m + 1] /\ m + 1 \in DOMAIN q /\ i \in DOMAIN q
        BY <3>2, <1>1, <1>3
      <4>2. m + 1 # i
        BY <3>2
      <4> QED  BY <4>1, <4>2, <2>1, <1>0, <1>2, Zenon DEF InQueue
    <3> QED  BY <3>1, <3>2
  <2>2. ASSUME NEW k \in Jobs, NEW m \in 1 .. Len(q), q[m] = k, k # gone PROVE InQueue(less, k)
    <3>1. CASE m < i
      <4>1. m \in 1 .. Len(q) - 1 /\ less[m] = k
        BY <2>2, <3>1, <1>1, <1>3
      <4> QED  BY <4>1, <1>4 DEF InQueue
    <3>2. CASE m > i
      <4>1. m - 1 \in 1 .. Len(q) - 1 /\ less[m - 1] = k
        BY <2>2, <3>2, <1>1, <1>3
      <4> QED  BY <4>1, <1>4 DEF InQueue
    <3> QED  BY <2>2, <3>1, <3>2, <1>2
  <2> QED  BY <2>1, <2>2, <1>1, <1>4 DEF InQueue
<1>6. \A w \in Workers : J[w] # gone
  BY <1>1, <1>2 DEF Places
<1>7. \A k \in Jobs : k \in P \ {gone} <=> InQueue(less, k) \/ \E w \in Workers : J[w] = k
  BY <1>5, <1>6 DEF Places
<1>8. \A k, m \in DOMAIN less : less[k] = less[m] => k = m
  <2>1. ASSUME NEW k \in 1 .. Len(q) - 1, NEW m \in 1 .. Len(q) - 1, less[k] = less[m], k < m
        PROVE  FALSE
    <3>1. CASE m < i
      <4>1. less[k] = q[k] /\ less[m] = q[m] /\ k \in DOMAIN q /\ m \in DOMAIN q
        BY <2>1, <3>1, <1>1, <1>3
      <4>2. k = m
        BY <4>1, <2>1, <1>0, Zenon
      <4> QED  BY <4>2, <2>1
    <3>2. CASE k < i /\ m >= i
      <4>1. less[k] = q[k] /\ less[m] = q[m + 1] /\ k \in DOMAIN q /\ m + 1 \in DOMAIN q
        BY <2>1, <3>2, <1>1, <1>3
      <4>2. k = m + 1
        BY <4>1, <2>1, <1>0, Zenon
      <4> QED  BY <4>2, <2>1
    <3>3. CASE k >= i
      <4>1. less[k] = q[k + 1] /\ less[m] = q[m + 1] /\ k + 1 \in DOMAIN q /\ m + 1 \in DOMAIN q
        BY <2>1, <3>3, <1>1, <1>3
      <4>2. k + 1 = m + 1
        BY <4>1, <2>1, <1>0, Zenon
      <4> QED  BY <4>2, <2>1
    <3> QED  BY <3>1, <3>2, <3>3
  <2>2. ASSUME NEW k \in 1 .. Len(q) - 1, NEW m \in 1 .. Len(q) - 1, less[k] = less[m]
        PROVE  k = m
    <3>1. k < m \/ m < k \/ k = m
      OBVIOUS
    <3> QED  BY <3>1, <2>1, <2>2
  <2> QED  BY <2>2, <1>4
<1>9. \A k \in DOMAIN less : \A w \in Workers : less[k] # J[w]
  BY <1>1, <1>3, <1>4 DEF Places
<1>10. Places(less, S, J, P \ {gone})
  BY <1>3, <1>7, <1>8, <1>9 DEF Places
<1> QED  BY <1>1, <1>2, <1>10 DEF less

-------------------------------------------------------------------------------
(* The steps *)

\* Of a thread that is no longer up, only its leaving is left: whatever it still
\* holds is no slot's.
LEMMA ThreadGoes ==
  ASSUME NEW w \in Workers, NEW how \in {"none", "crashed", "stopping"}, NEW I, NEW D,
         job \in [Workers -> Jobs \cup {NoJob}],
         Runs(slots, dead, job, thread, inbox, reply),
         I \in {inbox, [inbox EXCEPT ![w] = NoJob]},
         how \in {"none", "crashed"} => I[w] = NoJob,
         how = "none" => reply[w] = NoJob,
         D = IF how = "none" THEN dead \ {w} ELSE dead \cup {w}
  PROVE  Runs(slots \ {w}, D, [job EXCEPT ![w] = NoJob], [thread EXCEPT ![w] = how], I, reply)
<1> DEFINE J == [job EXCEPT ![w] = NoJob]
           T == [thread EXCEPT ![w] = how]
<1>1. IsFiniteSet(slots \ {w}) /\ Cardinality(slots \ {w}) <= Size
  <2>1. IsFiniteSet(slots) /\ Cardinality(slots) <= Size /\ Cardinality(slots) \in Nat
    BY FS_CardinalityType DEF Runs
  <2>2. /\ IsFiniteSet(slots \ {w}) /\ Cardinality(slots \ {w}) \in Nat
        /\ Cardinality(slots \ {w}) <= Cardinality(slots)
    BY <2>1, FS_Subset, FS_CardinalityType
  <2> QED  BY <2>1, <2>2, PoolAssumption
<1>2. /\ T \in [Workers -> Threads] /\ T[w] = how
      /\ \A v \in Workers : v # w => T[v] = thread[v]
  BY DEF Runs, Threads
<1>3. /\ I \in [Workers -> Jobs \cup {NoJob}]
      /\ \A v \in Workers : v # w => I[v] = inbox[v]
  BY DEF Runs
<1>4. \A v \in Workers : v # w => J[v] = job[v]
  OBVIOUS
<1> HIDE DEF J, T
<1>5. slots \ {w} = {v \in Workers : T[v] = "up"}
  BY <1>2 DEF Runs
<1>6. D = {v \in Workers : T[v] \in {"stopping", "crashed"}}
  BY <1>2 DEF Runs
<1>7. \A v \in Workers : /\ T[v] \in {"none", "crashed"} => I[v] = NoJob
                         /\ T[v] = "none" => reply[v] = NoJob
  BY <1>2, <1>3 DEF Runs
<1>8. \A v \in slots \ {w} :
        /\ J[v] # NoJob <=> I[v] # NoJob \/ reply[v] # NoJob
        /\ I[v] \in {NoJob, J[v]}
        /\ reply[v] \in {NoJob, J[v]}
        /\ I[v] = NoJob \/ reply[v] = NoJob
  BY <1>3, <1>4 DEF Runs
<1>9. reply \in [Workers -> Jobs \cup {NoJob}]
  BY DEF Runs
<1>10. Runs(slots \ {w}, D, J, T, I, reply)
  BY <1>1, <1>2, <1>3, <1>5, <1>6, <1>7, <1>8, <1>9 DEF Runs
<1> QED  BY <1>10 DEF J, T

LEMMA DeadAreNoSlots == IInv => slots \cap dead = {}
BY DEF IInv, Runs

\* A step that ends with #dispatch keeps the invariant when what it hands to
\* #dispatch is sound.
LEMMA DispatchingKeeps ==
  ASSUME NEW q, NEW S, NEW J, NEW T, NEW I, Dispatch(q, S, J, T, I),
         S \cap dead = {}, status' \in [Jobs -> Statuses], Cardinality(Pending') <= MaxQueue,
         Places(q, S, J, Pending'), Runs(S, dead', J, T, I, reply')
  PROVE  IInv'
<1> DEFINE P == Pending'
           D == dead'
           R == reply'
<1>0. Places(q, S, J, P) /\ Runs(S, D, J, T, I, R)
  OBVIOUS
<1> HIDE DEF P, D, R
<1>1. /\ Places(queue', slots', job', P)
      /\ Runs(slots', D, job', thread', inbox', R)
      /\ queue' # <<>> => Cardinality(slots') = Size /\ \A w \in slots' : job'[w] # NoJob
  BY <1>0, DispatchKeeps
<1>2. NoStrandedJob'
  BY <1>1 DEF NoStrandedJob
<1> QED  BY <1>1, <1>2 DEF IInv, P, D, R

LEMMA SubmitKeeps == ASSUME IInv, NEW j \in Jobs, Submit(j) PROVE IInv'
<1>1. /\ status[j] = "new" /\ Len(queue) + Cardinality(Active) < MaxQueue
      /\ status' = [status EXCEPT ![j] = "pending"] /\ UNCHANGED <<dead, reply>>
      /\ Dispatch(Append(queue, j), slots, job, thread, inbox)
  BY DEF Submit, Settle
<1>2. Pending' = Pending \cup {j} /\ j \notin Pending /\ status' \in [Jobs -> Statuses]
  BY <1>1 DEF IInv, Pending, Statuses
<1>3. Places(Append(queue, j), slots, job, Pending \cup {j})
  BY <1>2, QueueingPlaces DEF IInv
<1>4. Cardinality(Pending') <= MaxQueue
  <2>1. IsFiniteSet(Pending) /\ Cardinality(Pending) = Len(queue) + Cardinality(Active)
    <3> DEFINE P == Pending
    <3>1. /\ Places(queue, slots, job, P) /\ IsFiniteSet(slots) /\ slots \subseteq Workers
          /\ P \in SUBSET Jobs
      BY DEF IInv, Runs, Pending
    <3> HIDE DEF P
    <3>2. /\ IsFiniteSet(P)
          /\ Cardinality(P) = Len(queue) + Cardinality({w \in slots : job[w] # NoJob})
      BY <3>1, PendingAreCounted
    <3> QED  BY <3>2 DEF P, Active
  <2>2. Cardinality(Pending \cup {j}) = Cardinality(Pending) + 1 /\ Cardinality(Pending) \in Nat
    BY <1>2, <2>1, FS_AddElement, FS_CardinalityType
  <2> QED  BY <1>1, <1>2, <2>1, <2>2, PoolAssumption
<1>5. Places(Append(queue, j), slots, job, Pending')
  BY <1>2, <1>3
<1>6. Runs(slots, dead', job, thread, inbox, reply')
  BY <1>1 DEF IInv
<1> QED  BY <1>1, <1>2, <1>4, <1>5, <1>6, DeadAreNoSlots, DispatchingKeeps

\* A job that has its answer at once never was the pool's.
LEMMA AnsweredAtOnceKeeps ==
  ASSUME IInv, NEW j \in Jobs, SubmitAborted(j) \/ SubmitFull(j)
  PROVE  IInv'
<1>1. /\ UNCHANGED <<queue, slots, dead, job, thread, inbox, reply>>
      /\ status' \in [Jobs -> Statuses] /\ Pending' = Pending
  BY DEF SubmitAborted, SubmitFull, Settle, IInv, Pending, Statuses
<1> QED  BY <1>1 DEF IInv, NoStrandedJob

LEMMA AbortQueuedKeeps == ASSUME IInv, NEW j \in Jobs, AbortQueued(j) PROVE IInv'
<1>1. /\ status[j] = "pending" /\ \A w \in Workers : job[w] # j
      /\ queue' = RemoveFirst(queue, j) /\ status' = [status EXCEPT ![j] = "cancelled"]
      /\ UNCHANGED <<slots, dead, job, thread, inbox, reply>>
  BY DEF AbortQueued, Settle
<1>2. Pending' = Pending \ {j} /\ status' \in [Jobs -> Statuses] /\ j \in Pending
  BY <1>1 DEF IInv, Pending, Statuses
<1>3. InQueue(queue, j)
  BY <1>1, <1>2 DEF IInv, Places
<1>4. Places(queue', slots, job, Pending') /\ queue # <<>>
  <2>1. Places(RemoveFirst(queue, j), slots, job, Pending \ {j}) /\ queue # <<>>
    BY <1>3, LeavingPlaces DEF IInv
  <2> QED  BY <1>1, <1>2, <2>1
<1>5. NoStrandedJob'
  BY <1>1, <1>4 DEF IInv, NoStrandedJob
<1> QED  BY <1>1, <1>2, <1>4, <1>5, FewerPending DEF IInv

\* The job of a thread is settled.
LEMMA SettlingFrees ==
  ASSUME IInv, NEW w \in Workers, NEW how \in Statuses \ {"pending"},
         status' = [j \in Jobs |-> IF j = job[w] THEN how ELSE status[j]]
  PROVE  /\ status' \in [Jobs -> Statuses]
         /\ Pending' = Pending \ {job[w]}
         /\ Cardinality(Pending') <= MaxQueue
<1>1. status' \in [Jobs -> Statuses] /\ Pending' = Pending \ {job[w]}
  BY DEF IInv, Pending, Statuses
<1> QED  BY <1>1, FewerPending

LEMMA AbortActiveKeeps == ASSUME IInv, NEW w \in Workers, AbortActive(w) PROVE IInv'
<1>1. /\ job[w] # NoJob /\ dead' = dead \cup {w} /\ slots' = slots \ {w}
      /\ job' = [job EXCEPT ![w] = NoJob] /\ thread' = [thread EXCEPT ![w] = "stopping"]
      /\ status' = [status EXCEPT ![job[w]] = "cancelled"] /\ UNCHANGED <<queue, inbox, reply>>
  BY DEF AbortActive, Settle
<1>2. status' = [j \in Jobs |-> IF j = job[w] THEN "cancelled" ELSE status[j]]
  BY <1>1 DEF IInv
<1>3. /\ status' \in [Jobs -> Statuses] /\ Pending' = Pending \ {job[w]}
      /\ Cardinality(Pending') <= MaxQueue
  BY <1>2, SettlingFrees DEF Statuses
<1>4. Places(queue', slots', job', Pending')
  BY <1>1, <1>3, FreeingPlaces DEF IInv
<1>5. Runs(slots', dead', job', thread', inbox', reply')
  BY <1>1, ThreadGoes DEF IInv, Places
<1>6. NoStrandedJob'
  <2>1. thread'[w] = "stopping" /\ \A v \in slots' : job'[v] = job[v] /\ v \in slots
    BY <1>1 DEF IInv, Runs, Places
  <2> QED  BY <1>1, <2>1 DEF IInv, NoStrandedJob
<1> QED  BY <1>3, <1>4, <1>5, <1>6 DEF IInv

LEMMA StoppedExitKeeps == ASSUME IInv, NEW w \in Workers, StoppedExit(w) PROVE IInv'
<1> DEFINE T == [thread EXCEPT ![w] = "none"]
           I == [inbox EXCEPT ![w] = NoJob]
<1>1. /\ thread[w] = "stopping" /\ reply[w] = NoJob /\ dead' = dead \ {w}
      /\ Dispatch(queue, slots, job, T, I) /\ UNCHANGED <<reply, status>>
  BY DEF StoppedExit
<1>2. I[w] = NoJob
  BY DEF IInv, Runs
<1>3. Runs(slots \ {w}, dead \ {w}, [job EXCEPT ![w] = NoJob], T, I, reply)
  BY <1>1, <1>2, ThreadGoes DEF IInv, Places
<1>4. slots \ {w} = slots /\ [job EXCEPT ![w] = NoJob] = job
  BY <1>1 DEF IInv, Runs, Places
<1> HIDE DEF T, I
<1>5. Runs(slots, dead', job, T, I, reply')
  BY <1>1, <1>3, <1>4
<1>6. Pending' = Pending
  BY <1>1 DEF Pending
<1>7. /\ status' \in [Jobs -> Statuses] /\ Cardinality(Pending') <= MaxQueue
      /\ Places(queue, slots, job, Pending')
  BY <1>1, <1>6 DEF IInv
<1> QED  BY <1>1, <1>5, <1>7, DeadAreNoSlots, DispatchingKeeps

LEMMA ParseKeeps == ASSUME IInv, NEW w \in Workers, Parse(w) PROVE IInv'
<1>1. /\ thread[w] \in {"up", "stopping"} /\ inbox[w] # NoJob
      /\ reply' = [reply EXCEPT ![w] = inbox[w]] /\ inbox' = [inbox EXCEPT ![w] = NoJob]
      /\ UNCHANGED <<queue, slots, dead, job, thread, status>>
  BY DEF Parse
<1>2. Runs(slots', dead', job', thread', inbox', reply')
  BY <1>1 DEF IInv, Runs
<1>3. Pending' = Pending
  BY <1>1 DEF Pending
<1> QED  BY <1>1, <1>2, <1>3 DEF IInv, NoStrandedJob

LEMMA MessageDroppedKeeps == ASSUME IInv, NEW w \in Workers, MessageDropped(w) PROVE IInv'
<1>1. /\ reply[w] # NoJob /\ (w \in dead \/ job[w] # reply[w])
      /\ reply' = [reply EXCEPT ![w] = NoJob]
      /\ UNCHANGED <<queue, slots, dead, job, thread, inbox, status>>
  BY DEF MessageDropped
<1>2. w \notin slots
  BY <1>1 DEF IInv, Runs
<1>3. Runs(slots', dead', job', thread', inbox', reply')
  BY <1>1, <1>2 DEF IInv, Runs
<1>4. Pending' = Pending
  BY <1>1 DEF Pending
<1> QED  BY <1>1, <1>3, <1>4 DEF IInv, NoStrandedJob

LEMMA MessageAcceptedKeeps == ASSUME IInv, NEW w \in Workers, MessageAccepted(w) PROVE IInv'
<1> DEFINE J == [job EXCEPT ![w] = NoJob]
<1>1. /\ reply[w] # NoJob /\ w \notin dead /\ job[w] = reply[w]
      /\ reply' = [reply EXCEPT ![w] = NoJob]
      /\ status' = [status EXCEPT ![job[w]] = "done"]
      /\ Dispatch(queue, slots, J, thread, inbox) /\ dead' = dead
  BY DEF MessageAccepted, Settle
<1>2. status' = [j \in Jobs |-> IF j = job[w] THEN "done" ELSE status[j]]
  BY <1>1 DEF IInv
<1>3. /\ status' \in [Jobs -> Statuses] /\ Pending' = Pending \ {job[w]}
      /\ Cardinality(Pending') <= MaxQueue
  BY <1>2, SettlingFrees DEF Statuses
<1>4. Places(queue, slots, J, Pending')
  BY <1>3, FreeingPlaces DEF IInv
<1>5. Runs(slots, dead', J, thread, inbox, reply')
  <2>1. w \in slots /\ inbox[w] = NoJob
    BY <1>1 DEF IInv, Places, Runs
  <2> QED  BY <1>1, <2>1 DEF IInv, Runs, Places
<1> HIDE DEF J
<1> QED  BY <1>1, <1>3, <1>4, <1>5, DeadAreNoSlots, DispatchingKeeps

LEMMA LostSlotKeeps ==
  ASSUME IInv, NEW w \in Workers, NEW how \in {"none", "crashed"},
         LoseSlot(w, [thread EXCEPT ![w] = how]), UNCHANGED reply,
         dead' = IF how = "none" THEN dead \ {w} ELSE dead \cup {w},
         how = "none" => reply[w] = NoJob
  PROVE  IInv'
<1> DEFINE J == [job EXCEPT ![w] = NoJob]
           T == [thread EXCEPT ![w] = how]
           I == [inbox EXCEPT ![w] = NoJob]
           S == slots \ {w}
<1>1. /\ status' = [j \in Jobs |-> IF j = job[w] THEN "failed" ELSE status[j]]
      /\ Dispatch(queue, S, J, T, I)
  BY DEF LoseSlot
<1>2. /\ status' \in [Jobs -> Statuses] /\ Pending' = Pending \ {job[w]}
      /\ Cardinality(Pending') <= MaxQueue
  BY <1>1, SettlingFrees DEF Statuses
<1>3. Places(queue, S, J, Pending')
  BY <1>2, FreeingPlaces DEF IInv
<1>4. I[w] = NoJob
  BY DEF IInv, Runs
<1>5. Runs(S, dead', J, T, I, reply')
  BY <1>4, ThreadGoes DEF IInv, Places
<1>6. S \cap dead = {}
  BY DeadAreNoSlots
<1> HIDE DEF S, J, T, I
<1> QED  BY <1>1, <1>2, <1>3, <1>5, <1>6, DispatchingKeeps

LEMMA CrashedExitKeeps == ASSUME IInv, NEW w \in Workers, CrashedExit(w) PROVE IInv'
<1>1. /\ thread[w] = "crashed" /\ reply[w] = NoJob /\ dead' = dead \ {w}
      /\ thread' = [thread EXCEPT ![w] = "none"]
      /\ UNCHANGED <<queue, slots, job, inbox, reply, status>>
  BY DEF CrashedExit
<1>2. w \notin slots /\ inbox[w] = NoJob
  BY <1>1 DEF IInv, Runs
<1>3. Runs(slots \ {w}, dead', [job EXCEPT ![w] = NoJob], thread', inbox, reply)
  BY <1>1, <1>2, ThreadGoes DEF IInv, Places
<1>4. slots \ {w} = slots /\ [job EXCEPT ![w] = NoJob] = job
  BY <1>2 DEF IInv, Places
<1>5. Runs(slots', dead', job', thread', inbox', reply')
  BY <1>1, <1>3, <1>4
<1>6. NoStrandedJob'
  <2>1. \A v \in Workers : thread[v] = "stopping" => thread'[v] = "stopping"
    BY <1>1 DEF IInv, Runs
  <2> QED  BY <1>1, <2>1 DEF IInv, NoStrandedJob
<1>7. Pending' = Pending
  BY <1>1 DEF Pending
<1> QED  BY <1>1, <1>5, <1>6, <1>7 DEF IInv

LEMMA LosingKeeps == ASSUME IInv, NEW w \in Workers, ErrorEvent(w) \/ SilentExit(w) PROVE IInv'
<1>1. CASE ErrorEvent(w)
  <2>1. /\ LoseSlot(w, [thread EXCEPT ![w] = "crashed"]) /\ UNCHANGED reply
        /\ dead' = dead \cup {w}
    BY <1>1 DEF ErrorEvent
  <2> QED  BY <2>1, LostSlotKeeps
<1>2. CASE SilentExit(w)
  <2>1. /\ LoseSlot(w, [thread EXCEPT ![w] = "none"]) /\ UNCHANGED reply
        /\ dead' = dead \ {w} /\ reply[w] = NoJob
    BY <1>2 DEF SilentExit, IInv, Runs
  <2> QED  BY <2>1, LostSlotKeeps
<1> QED  BY <1>1, <1>2

LEMMA Initially == Init => IInv
<1> SUFFICES ASSUME Init PROVE IInv
  OBVIOUS
<1>1. Pending = {} /\ status \in [Jobs -> Statuses]
  BY DEF Init, Pending, Statuses
<1>2. IsFiniteSet({}) /\ Cardinality({}) = 0
  BY FS_EmptySet
<1>3. Places(queue, slots, job, {})
  BY PoolAssumption DEF Init, Places, InQueue
<1>4. Runs(slots, dead, job, thread, inbox, reply)
  BY <1>2, PoolAssumption DEF Init, Runs, Threads
<1>5. NoStrandedJob
  BY DEF Init, NoStrandedJob
<1> QED  BY <1>1, <1>2, <1>3, <1>4, <1>5, PoolAssumption DEF IInv

LEMMA Inductive == IInv /\ [Next]_vars => IInv'
<1> SUFFICES ASSUME IInv, [Next]_vars PROVE IInv'
  OBVIOUS
<1>1. CASE UNCHANGED vars
  <2>1. Pending' = Pending
    BY <1>1 DEF vars, Pending
  <2> QED  BY <1>1, <2>1 DEF vars, IInv, NoStrandedJob
<1>2. ASSUME NEW j \in Jobs, SubmitAborted(j) \/ SubmitFull(j) \/ Submit(j) \/ AbortQueued(j)
      PROVE  IInv'
  BY <1>2, AnsweredAtOnceKeeps, SubmitKeeps, AbortQueuedKeeps
<1>3. ASSUME NEW w \in Workers,
             \/ AbortActive(w) \/ StoppedExit(w) \/ Parse(w)
             \/ MessageDropped(w) \/ MessageAccepted(w)
             \/ ErrorEvent(w) \/ CrashedExit(w) \/ SilentExit(w)
      PROVE  IInv'
  BY <1>3, AbortActiveKeeps, StoppedExitKeeps, ParseKeeps, MessageDroppedKeeps,
     MessageAcceptedKeeps, LosingKeeps, CrashedExitKeeps
<1> QED  BY <1>1, <1>2, <1>3 DEF Next

LEMMA Invariance == Spec => []IInv
BY Initially, Inductive, PTL DEF Spec

-------------------------------------------------------------------------------

\* The pool and its threads keep their types.
THEOREM TypeCorrect == Spec => []TypeOK
<1>1. IInv => TypeOK
  BY DEF IInv, Places, Runs, TypeOK
<1> QED  BY <1>1, Invariance, PTL

\* A job without an answer is in the queue or with one thread, never both, never
\* twice, and a settled job is in neither.
THEOREM JobsHaveOnePlace == Spec => []JobInOnePlace
<1>1. IInv => JobInOnePlace
  <2> SUFFICES ASSUME IInv PROVE JobInOnePlace
    OBVIOUS
  <2>1. \A j \in Jobs : j \in Pending <=> status[j] = "pending"
    BY DEF Pending
  <2> QED  BY <2>1 DEF IInv, Places, InQueue, JobInOnePlace
<1> QED  BY <1>1, Invariance, PTL

\* The pool never runs more threads than its size, forgets none of them, and
\* each works on the job of its slot.
THEOREM ThreadsWorkOnTheirJobs == Spec => []ThreadWorksOnSlotsJob
<1>1. IInv => ThreadWorksOnSlotsJob
  BY DEF IInv, Runs, ThreadWorksOnSlotsJob
<1> QED  BY <1>1, Invariance, PTL

\* No job is left in the queue while the pool has an idle slot, or room for a
\* thread that no stopping thread will fill.
THEOREM NoJobIsStranded == Spec => []NoStrandedJob
<1>1. IInv => NoStrandedJob
  BY DEF IInv
<1> QED  BY <1>1, Invariance, PTL

-------------------------------------------------------------------------------
(* The pool implements ParsingService. *)

\* The instance has the operators of FiniteSets under names of its own.
LEMMA SameCardinality == \A S : Parsing!Cardinality(S) = Cardinality(S)
BY DEF Parsing!Cardinality, Cardinality

\* submit() accepts a job exactly when the service has room for it.
LEMMA SubmittingMaps ==
  ASSUME IInv, NEW j \in Jobs, status[j] = "new",
         NEW how \in {"pending", "full"}, status' = [status EXCEPT ![j] = how],
         how = "pending" <=> Len(queue) + Cardinality(Active) < MaxQueue
  PROVE  Parsing!Submit({j})
<1> DEFINE accepted == IF how = "pending" THEN {j} ELSE {}
           P == Pending
<1>1. IsFiniteSet(P) /\ Cardinality(P) = Len(queue) + Cardinality(Active)
  <2>1. /\ Places(queue, slots, job, P) /\ IsFiniteSet(slots) /\ slots \subseteq Workers
        /\ P \in SUBSET Jobs
    BY DEF IInv, Runs, Pending
  <2> HIDE DEF P
  <2>2. /\ IsFiniteSet(P)
        /\ Cardinality(P) = Len(queue) + Cardinality({w \in slots : job[w] # NoJob})
    BY <2>1, PendingAreCounted
  <2> QED  BY <2>2 DEF Active
<1>2. Cardinality(P) \in Nat /\ Cardinality(P) <= MaxQueue
  BY <1>1, FS_CardinalityType DEF IInv
<1>3. Parsing!Unanswered = P
  BY DEF Parsing!Unanswered, Pending
<1>4. Cardinality({j}) = 1 /\ Cardinality({}) = 0
  BY FS_Singleton, FS_EmptySet
<1>5. status' = [k \in Jobs |-> IF k \in accepted THEN "pending"
                               ELSE IF k \in {j} THEN "full" ELSE status[k]]
  BY DEF IInv
<1>6. Cardinality(accepted) = IF how = "pending" THEN 1 ELSE 0
  BY <1>4
<1> HIDE DEF P
<1>7. LET room == MaxQueue - Cardinality(P)
      IN Cardinality(accepted) = IF Cardinality({j}) < room THEN Cardinality({j}) ELSE room
  BY <1>1, <1>2, <1>4, <1>6, PoolAssumption
<1>8. accepted \in SUBSET {j}
  OBVIOUS
<1> HIDE DEF accepted
<1> QED  BY <1>3, <1>5, <1>7, <1>8, SameCardinality DEF Parsing!Submit

\* A pending job is settled by an event of its own.
LEMMA EndingMaps ==
  ASSUME IInv, NEW w \in Workers, NEW how \in {"done", "failed", "cancelled"},
         status' = [j \in Jobs |-> IF j = job[w] THEN how ELSE status[j]]
  PROVE  [Parsing!Next]_status
<1>1. CASE job[w] = NoJob
  BY <1>1, PoolAssumption DEF IInv
<1>2. CASE job[w] # NoJob
  <2> DEFINE j == job[w]
  <2>1. j \in Jobs /\ status[j] = "pending"
    BY <1>2 DEF IInv, Places, Pending
  <2>2. status' = [status EXCEPT ![j] = how]
    BY <2>1 DEF IInv
  <2>3. status' = [k \in Jobs |-> IF k \in {j} THEN how ELSE status[k]]
    OBVIOUS
  <2> HIDE DEF j
  <2>4. CASE how \in {"done", "failed"}
    <3>1. Parsing!End(j, how)
      BY <2>1, <2>2 DEF Parsing!End
    <3> QED  BY <2>1, <2>4, <3>1 DEF Parsing!Next
  <2>5. CASE how = "cancelled"
    <3>1. {j} \subseteq Parsing!Unanswered
      BY <2>1 DEF Parsing!Unanswered
    <3>2. Parsing!Cancel({j})
      BY <2>3, <2>5, <3>1 DEF Parsing!Cancel
    <3> QED  BY <2>1, <3>2 DEF Parsing!Next
  <2> QED  BY <2>4, <2>5
<1> QED  BY <1>1, <1>2

LEMMA StepsMap == IInv /\ [Next]_vars => [Parsing!Next]_status
<1> SUFFICES ASSUME IInv, [Next]_vars PROVE [Parsing!Next]_status
  OBVIOUS
<1>1. CASE UNCHANGED vars
  BY <1>1 DEF vars
<1>2. ASSUME NEW j \in Jobs, SubmitFull(j) \/ Submit(j) PROVE [Parsing!Next]_status
  <2>1. Parsing!Submit({j})
    <3>1. Len(queue) + Cardinality(Active) \in Nat
      BY FS_Subset, FS_CardinalityType DEF IInv, Places, Runs, Active
    <3>2. CASE SubmitFull(j)
      <4>1. /\ status[j] = "new" /\ status' = [status EXCEPT ![j] = "full"]
            /\ ~ (Len(queue) + Cardinality(Active) < MaxQueue)
        BY <3>1, <3>2, PoolAssumption DEF SubmitFull, Settle
      <4> QED  BY <4>1, SubmittingMaps
    <3>3. CASE Submit(j)
      <4>1. /\ status[j] = "new" /\ status' = [status EXCEPT ![j] = "pending"]
            /\ Len(queue) + Cardinality(Active) < MaxQueue
        BY <3>3 DEF Submit, Settle
      <4> QED  BY <4>1, SubmittingMaps
    <3> QED  BY <1>2, <3>2, <3>3
  <2> QED  BY <2>1 DEF Parsing!Next
<1>3. ASSUME NEW j \in Jobs, SubmitAborted(j) PROVE [Parsing!Next]_status
  <2>1. Parsing!SubmitAborted(j)
    BY <1>3 DEF SubmitAborted, Settle, Parsing!SubmitAborted
  <2> QED  BY <2>1 DEF Parsing!Next
<1>4. ASSUME NEW j \in Jobs, AbortQueued(j) PROVE [Parsing!Next]_status
  <2>1. status[j] = "pending" /\ status' = [k \in Jobs |-> IF k \in {j} THEN "cancelled" ELSE status[k]]
    BY <1>4 DEF AbortQueued, Settle, IInv
  <2>2. Parsing!Cancel({j})
    BY <2>1 DEF Parsing!Cancel, Parsing!Unanswered
  <2> QED  BY <2>2 DEF Parsing!Next
<1>5. ASSUME NEW w \in Workers, AbortActive(w) \/ MessageAccepted(w) \/ ErrorEvent(w) \/ SilentExit(w)
      PROVE  [Parsing!Next]_status
  <2>1. CASE AbortActive(w)
    <3>1. status' = [j \in Jobs |-> IF j = job[w] THEN "cancelled" ELSE status[j]]
      BY <2>1 DEF AbortActive, Settle, IInv
    <3> QED  BY <3>1, EndingMaps
  <2>2. CASE MessageAccepted(w)
    <3>1. status' = [j \in Jobs |-> IF j = job[w] THEN "done" ELSE status[j]]
      BY <2>2 DEF MessageAccepted, Settle, IInv
    <3> QED  BY <3>1, EndingMaps
  <2>3. CASE ErrorEvent(w) \/ SilentExit(w)
    <3>1. status' = [j \in Jobs |-> IF j = job[w] THEN "failed" ELSE status[j]]
      BY <2>3 DEF ErrorEvent, SilentExit, LoseSlot
    <3> QED  BY <3>1, EndingMaps
  <2> QED  BY <1>5, <2>1, <2>2, <2>3
<1>6. ASSUME NEW w \in Workers, StoppedExit(w) \/ Parse(w) \/ MessageDropped(w) \/ CrashedExit(w)
      PROVE  [Parsing!Next]_status
  BY <1>6 DEF StoppedExit, Parse, MessageDropped, CrashedExit
<1> QED  BY <1>1, <1>2, <1>3, <1>4, <1>5, <1>6 DEF Next

\* All that a query sees of the pool is the abstract service: room for MaxQueue
\* jobs, one answer to each, whatever the threads do.
THEOREM PoolImplementsParsing == Spec => ImplementsParsing
<1>1. Init => Parsing!Init
  BY DEF Init, Parsing!Init
<1> QED  BY <1>1, StepsMap, Invariance, PTL DEF Spec, ImplementsParsing, Parsing!Spec
===============================================================================
