-------------------------- MODULE ThreadPoolProofs --------------------------
(***************************************************************************)
(* Proofs about ThreadPool, for every set of tasks and every number of     *)
(* threads a uint8_t can hold.  The safety properties are not inductive    *)
(* one by one; IInv strengthens them with the relations between pc, the    *)
(* number of created threads and the progress of stop().                   *)
(***************************************************************************)
EXTENDS ThreadPool, TLAPS, FiniteSetTheorems, SequenceTheorems

(* How many workers are at one of the given places. *)
Count(p, places) == Cardinality({w \in Workers : p[w] \in places})

BlockedPC == {"wait", "woken"}
IdlePC == {"check", "take", "woken"}
LatePC == {"run", "check", "exited"}

(* Workers are created in order; a worker holds a task while it runs it. *)
Created == \A w \in Workers : pc[w] = "none" <=> w >= threads
TaskHeld == \A w \in Workers : task[w] = NoTask <=> pc[w] # "run"

(* A worker that started a task late goes back to `check' and out. *)
LateIsLast ==
    \A i \in 1 .. Len(started) :
        started[i].late => ~running /\ pc[started[i].worker] \in LatePC

(* stop() and the flag; what the join loop has seen so far; and what lies  *)
(* beyond the end of its range.                                            *)
StopInv ==
    /\ running <=> stopper = "idle"
    /\ ~running => \A w \in Workers : pc[w] # "wait"
    /\ joined <= joinEnd
    /\ \A w \in Workers : w < joined => pc[w] = "exited"
    /\ stopper \in {"joining", "done"} =>
          \A w \in Workers : w >= joinEnd => pc[w] \in {"none", "check", "exited"}
    /\ stopper = "done" => joined = joinEnd

NBlocked == Count(pc, BlockedPC)
NIdle == Count(pc, IdlePC)

(* CountersExact and NoLostWakeup, in terms of the counts. *)
Counters == /\ waiting = NBlocked
            /\ (waiting + working) % CounterMod = 0
Awake == (\E w \in Workers : pc[w] = "wait") => Len(queue) <= NIdle

IInv == /\ TypeOK
        /\ Counters
        /\ Awake
        /\ Conserved
        /\ AtMostOneLateStart
        /\ Created
        /\ TaskHeld
        /\ LateIsLast
        /\ StopInv
-----------------------------------------------------------------------------
(* There are at most 255 workers, so _waiting cannot overflow. *)
LEMMA WorkersFinite ==
    IsFiniteSet(Workers) /\ Cardinality(Workers) = NThreads
<1>1. NThreads \in 0 .. 255
  BY NThreadsAssumption DEF CounterMod
<1> QED
  BY <1>1, FS_Interval DEF Workers

(* Counting stays within the number of workers and sees whoever is there. *)
LEMMA CountBound ==
    ASSUME NEW p, NEW places
    PROVE  /\ Count(p, places) \in 0 .. NThreads
           /\ Count(p, places) = 0 <=> \A w \in Workers : p[w] \notin places
<1> DEFINE S == {w \in Workers : p[w] \in places}
<1>1. S \in SUBSET Workers
  OBVIOUS
<1>2. IsFiniteSet(S) /\ Cardinality(S) <= NThreads
  BY <1>1, WorkersFinite, FS_Subset
<1>3. Cardinality(S) \in Nat /\ (Cardinality(S) = 0 <=> S = {})
  BY <1>2, FS_CardinalityType, FS_EmptySet
<1> QED
  BY <1>2, <1>3, NThreadsAssumption DEF Count, CounterMod

(* Moving one worker changes a count by what it enters and what it leaves. *)
LEMMA CountMove ==
    ASSUME NEW p, NEW q, NEW w \in Workers, NEW places,
           \A x \in Workers : x # w => q[x] = p[x]
    PROVE  Count(q, places) =
             Count(p, places) + (IF q[w] \in places THEN 1 ELSE 0)
                              - (IF p[w] \in places THEN 1 ELSE 0)
<1> DEFINE S == {x \in Workers : p[x] \in places}
           T == {x \in Workers : q[x] \in places}
<1>1. S \in SUBSET Workers /\ IsFiniteSet(S) /\ Cardinality(S) \in Nat
  BY WorkersFinite, FS_Subset, FS_CardinalityType
<1>2. CASE q[w] \in places
  <2>1. T = S \cup {w}
    BY <1>2
  <2>2. Cardinality(T) = IF w \in S THEN Cardinality(S) ELSE Cardinality(S) + 1
    BY <1>1, <2>1, FS_AddElement
  <2> QED
    BY <1>1, <1>2, <2>2 DEF Count
<1>3. CASE q[w] \notin places
  <2>1. T = S \ {w}
    BY <1>3
  <2>2. Cardinality(T) = IF w \in S THEN Cardinality(S) - 1 ELSE Cardinality(S)
    BY <1>1, <2>1, FS_RemoveElement
  <2> QED
    BY <1>1, <1>3, <2>2 DEF Count
<1> QED
  BY <1>2, <1>3

(* The two counts the invariant is about are natural numbers ... *)
LEMMA CountsBound ==
    /\ NBlocked \in 0 .. NThreads
    /\ NIdle \in 0 .. NThreads
    /\ NBlocked = 0 => \A w \in Workers : pc[w] \notin BlockedPC
  BY CountBound DEF NBlocked, NIdle

(* ... and change by one at most when one worker moves. *)
LEMMA CountsMove ==
    ASSUME NEW w \in Workers, \A x \in Workers : x # w => pc'[x] = pc[x]
    PROVE  /\ NBlocked' = NBlocked + (IF pc'[w] \in BlockedPC THEN 1 ELSE 0)
                                   - (IF pc[w] \in BlockedPC THEN 1 ELSE 0)
           /\ NIdle' = NIdle + (IF pc'[w] \in IdlePC THEN 1 ELSE 0)
                             - (IF pc[w] \in IdlePC THEN 1 ELSE 0)
           /\ NBlocked \in 0 .. NThreads /\ NBlocked' \in 0 .. NThreads
           /\ NIdle \in 0 .. NThreads /\ NIdle' \in 0 .. NThreads
<1>1. NBlocked' = NBlocked + (IF pc'[w] \in BlockedPC THEN 1 ELSE 0)
                           - (IF pc[w] \in BlockedPC THEN 1 ELSE 0)
  BY CountMove, Zenon DEF NBlocked
<1>2. NIdle' = NIdle + (IF pc'[w] \in IdlePC THEN 1 ELSE 0)
                     - (IF pc[w] \in IdlePC THEN 1 ELSE 0)
  BY CountMove, Zenon DEF NIdle
<1>3. NBlocked' \in 0 .. NThreads
  BY CountBound, Zenon DEF NBlocked
<1>4. NIdle' \in 0 .. NThreads
  BY CountBound, Zenon DEF NIdle
<1> QED
  BY <1>1, <1>2, <1>3, <1>4, CountsBound

LEMMA StartedType ==
    ASSUME TypeOK
    PROVE  \A i \in 1 .. Len(started) : started[i].worker \in Workers
<1> DEFINE R == [task : Tasks, worker : Workers, late : BOOLEAN]
<1>1. started \in Seq(R)
  BY DEF TypeOK
<1>2. \A i \in 1 .. Len(started) : started[i] \in R
  BY <1>1, ElementOfSeq
<1> QED
  BY <1>2

LEMMA SameCounts ==
    ASSUME pc' = pc
    PROVE  NBlocked' = NBlocked /\ NIdle' = NIdle
  BY DEF NBlocked, NIdle

(* The sets of the specification, as counts. *)
LEMMA AsCounts == /\ Counters => CountersExact
                  /\ Awake => NoLostWakeup
<1>1. Blocked = {w \in Workers : pc[w] \in BlockedPC}
  BY DEF Blocked, At, BlockedPC
<1>2. Idle = {w \in Workers : pc[w] \in IdlePC}
  BY DEF Idle, At, IdlePC
<1>3. At("wait") # {} => \E w \in Workers : pc[w] = "wait"
  BY DEF At
<1> QED
  BY <1>1, <1>2, <1>3 DEF Count, NBlocked, NIdle, Counters, CountersExact, Awake, NoLostWakeup

(* The pool starts with no worker and nothing to do. *)
LEMMA InitIInv == Init => IInv
<1> SUFFICES ASSUME Init PROVE IInv
  OBVIOUS
<1>1. TypeOK
  BY NThreadsAssumption DEF Init, TypeOK, CounterMod, WorkerPC, StopperPC
<1>2. NBlocked = 0
  BY CountBound DEF Init, BlockedPC, NBlocked
<1>3. Counters
  BY <1>2 DEF Init, Counters, CounterMod
<1>4. Conserved /\ AtMostOneLateStart /\ LateIsLast
  BY DEF Init, Conserved, AtMostOneLateStart, LateIsLast
<1>5. Awake /\ Created /\ TaskHeld /\ StopInv
  BY DEF Init, Awake, Created, TaskHeld, StopInv, Workers
<1> QED
  BY <1>1, <1>3, <1>4, <1>5 DEF IInv

(* put(): either a new worker or at most one awakened sleeper. *)
LEMMA PutStep ==
    ASSUME IInv, NEW t \in Tasks, Put(t)
    PROVE  IInv'
<1> USE DEF IInv
<1> USE NThreadsAssumption DEF CounterMod
<1>q. /\ queue' = Append(queue, t) /\ queue' \in Seq(Tasks)
      /\ submitted' = Append(submitted, t) /\ submitted' \in Seq(Tasks)
      /\ Len(queue') = Len(queue) + 1
      /\ Len(queue) \in Nat
      /\ Len(queue') \in Nat
  BY DEF Put, TypeOK
<1>c. Conserved'
  <2>1. /\ \A i \in 1 .. Len(queue) : queue'[i] = queue[i]
        /\ queue'[Len(queue) + 1] = t
    BY <1>q, AppendProperties DEF TypeOK
  <2>2. /\ \A i \in 1 .. Len(submitted) : submitted'[i] = submitted[i]
        /\ submitted'[Len(submitted) + 1] = t
        /\ Len(submitted') = Len(submitted) + 1
    BY <1>q, AppendProperties DEF TypeOK
  <2>3. started' = started /\ Len(started) \in Nat /\ Len(submitted) \in Nat
    BY DEF Put, TypeOK
  <2>4. Conserved
    OBVIOUS
  <2>5. Len(submitted') = Len(started') + Len(queue')
    BY <1>q, <2>2, <2>3, <2>4 DEF Conserved
  <2>6. \A i \in 1 .. Len(started') : started'[i].task = submitted'[i]
    BY <1>q, <2>2, <2>3, <2>4 DEF Conserved
  <2>7. \A i \in 1 .. Len(queue') : queue'[i] = submitted'[Len(started') + i]
    <3> SUFFICES ASSUME NEW i \in 1 .. Len(queue')
                 PROVE  queue'[i] = submitted'[Len(started') + i]
      OBVIOUS
    <3>1. CASE i = Len(queue) + 1
      BY <1>q, <2>1, <2>2, <2>3, <2>4, <3>1 DEF Conserved
    <3>2. CASE i \in 1 .. Len(queue)
      <4>1. Len(started) + i \in 1 .. Len(submitted)
        BY <1>q, <2>3, <2>4, <3>2 DEF Conserved
      <4> QED
        BY <2>1, <2>2, <2>3, <2>4, <3>2, <4>1 DEF Conserved
    <3>3. i = Len(queue) + 1 \/ i \in 1 .. Len(queue)
      BY <1>q
    <3> QED
      BY <3>1, <3>2, <3>3, Zenon
  <2> QED
    BY <2>5, <2>6, <2>7 DEF Conserved
<1>s. CASE PutSpawn
  <2>1. /\ threads \in Workers /\ pc[threads] = "none"
        /\ threads' = threads + 1 /\ pc' = [pc EXCEPT ![threads] = "check"]
        /\ pc' \in [Workers -> WorkerPC]
    BY <1>s DEF PutSpawn, SpawnNeeded, TypeOK, Created, WorkerPC, Workers
  <2>m. pc'[threads] = "check" /\ \A x \in Workers : x # threads => pc'[x] = pc[x]
    BY <2>1 DEF TypeOK
  <2>2. TypeOK'
    BY <1>s, <1>q, <2>1 DEF Put, PutSpawn, SpawnNeeded, TypeOK, StopperPC, Workers
  <2>3. NBlocked' = NBlocked
    BY <2>1, <2>m, CountsMove DEF BlockedPC
  <2>4. Counters'
    BY <2>3 DEF Put, Counters
  <2>5. \A w \in Workers : pc[w] # "wait"
    BY <1>s, CountsBound DEF PutSpawn, SpawnNeeded, Counters, BlockedPC
  <2>6. Awake'
    BY <2>1, <2>5 DEF Awake, TypeOK
  <2>7. (AtMostOneLateStart /\ LateIsLast)'
    <3>1. started' = started /\ running' = running
      BY DEF Put
    <3>2. ASSUME NEW i \in 1 .. Len(started), started[i].late
          PROVE  pc'[started[i].worker] \in LatePC
      <4>1. started[i].worker \in Workers /\ pc[started[i].worker] \in LatePC
        BY <3>2, StartedType DEF LateIsLast
      <4> QED
        BY <2>1, <2>m, <4>1 DEF LatePC
    <3> QED
      BY <3>1, <3>2 DEF AtMostOneLateStart, LateIsLast
  <2>8. (Created /\ TaskHeld)'
    BY <2>1 DEF Put, Created, TaskHeld, TypeOK, Workers
  <2>9. StopInv'
    BY <1>s, <2>1, <2>5 DEF Put, PutSpawn, StopInv, TypeOK
  <2> QED
    BY <1>c, <2>2, <2>4, <2>6, <2>7, <2>8, <2>9
<1>n. CASE PutNotify
  <2>1. CASE At("wait") = {}
    <3>1. pc' = pc /\ threads' = threads /\ stopper' = stopper
      BY <1>n, <2>1 DEF PutNotify, NotifyOne
    <3>2. \A w \in Workers : pc[w] # "wait"
      BY <2>1 DEF At
    <3>3. TypeOK'
      BY <1>q, <3>1 DEF Put, TypeOK
    <3>4. (Counters /\ Awake)'
      BY <3>1, <3>2, SameCounts DEF Put, Counters, Awake
    <3>5. (AtMostOneLateStart /\ LateIsLast /\ Created /\ TaskHeld /\ StopInv)'
      BY <3>1 DEF Put, AtMostOneLateStart, LateIsLast, Created, TaskHeld, StopInv
    <3> QED
      BY <1>c, <3>3, <3>4, <3>5
  <2>2. CASE At("wait") # {}
    <3>1. PICK w \in Workers : pc[w] = "wait" /\ pc' = [pc EXCEPT ![w] = "woken"]
      BY <1>n, <2>2 DEF PutNotify, NotifyOne, At
    <3>2. threads' = threads /\ stopper' = stopper /\ pc' \in [Workers -> WorkerPC]
      BY <1>n, <3>1 DEF PutNotify, TypeOK, WorkerPC
    <3>p. pc[w] = "wait"
      BY <3>1
    <3>m. pc'[w] = "woken" /\ \A x \in Workers : x # w => pc'[x] = pc[x]
      BY <3>1 DEF TypeOK
    <3>3. TypeOK'
      BY <1>q, <3>2 DEF Put, TypeOK
    <3>4. NBlocked' = NBlocked
      BY <3>1, <3>m, CountsMove DEF BlockedPC
    <3>5. NIdle' = NIdle + 1
      <4>1. pc'[w] \in IdlePC /\ pc[w] \notin IdlePC
        BY <3>p, <3>m DEF IdlePC
      <4> QED
        BY <3>m, <4>1, CountsMove
    <3>6. (Counters /\ Awake)'
      BY <1>q, <3>1, <3>4, <3>5, CountsBound DEF Put, Counters, Awake
    <3>7. (AtMostOneLateStart /\ LateIsLast /\ Created /\ TaskHeld /\ StopInv)'
      BY <3>1, <3>2 DEF Put, AtMostOneLateStart, LateIsLast, LatePC, Created,
                        TaskHeld, StopInv, TypeOK
    <3> QED
      BY <1>c, <3>3, <3>6, <3>7
  <2> QED
    BY <2>1, <2>2
<1> QED
  BY <1>s, <1>n DEF Put

(* Taking the front of the queue keeps what was put in order. *)
LEMMA PopConserved ==
    ASSUME TypeOK, Conserved, NEW w \in Workers, PopAndRun(w),
           submitted' = submitted
    PROVE  /\ Conserved'
           /\ queue' \in Seq(Tasks)
           /\ Len(queue') = Len(queue) - 1 /\ Len(queue) \in Nat
           /\ started' \in Seq([task : Tasks, worker : Workers, late : BOOLEAN])
           /\ task' \in [Workers -> Tasks \cup {NoTask}]
           /\ task'[w] # NoTask
           /\ pc' \in [Workers -> WorkerPC]
<1> DEFINE R == [task : Tasks, worker : Workers, late : BOOLEAN]
           r == [task |-> Head(queue), worker |-> w, late |-> ~running]
<1>1. /\ queue \in Seq(Tasks) /\ queue # <<>> /\ started \in Seq(R)
      /\ Len(queue) \in Nat /\ Len(started) \in Nat /\ submitted \in Seq(Tasks)
  BY DEF TypeOK, PopAndRun
<1>2. /\ Head(queue) \in Tasks /\ Head(queue) = queue[1]
      /\ queue' \in Seq(Tasks) /\ Len(queue') = Len(queue) - 1
      /\ \A i \in 1 .. Len(queue') : queue'[i] = queue[i + 1]
      /\ Len(queue) > 0
  BY <1>1, HeadTailProperties DEF PopAndRun, Front, Rest
<1>3. r \in R /\ started' = Append(started, r)
  BY <1>2 DEF TypeOK, PopAndRun, Front
<1> HIDE DEF R
<1>4. /\ started' \in Seq(R) /\ Len(started') = Len(started) + 1
      /\ \A i \in 1 .. Len(started) : started'[i] = started[i]
      /\ started'[Len(started) + 1] = r
  BY <1>1, <1>3, AppendProperties
<1>5. Len(submitted') = Len(started') + Len(queue')
  <2>1. Len(submitted) = Len(started) + Len(queue)
    BY DEF Conserved
  <2> QED
    BY <1>1, <1>2, <1>4, <2>1
<1>6. ASSUME NEW i \in 1 .. Len(started')
      PROVE  started'[i].task = submitted'[i]
  <2>1. CASE i = Len(started) + 1
    <3>1. queue[1] = submitted[Len(started) + 1]
      BY <1>1, <1>2 DEF Conserved
    <3> QED
      BY <1>2, <1>4, <2>1, <3>1
  <2>2. CASE i \in 1 .. Len(started)
    BY <1>4, <2>2 DEF Conserved
  <2>3. i = Len(started) + 1 \/ i \in 1 .. Len(started)
    BY <1>1, <1>4
  <2> QED
    BY <2>1, <2>2, <2>3
<1>7. ASSUME NEW i \in 1 .. Len(queue')
      PROVE  queue'[i] = submitted'[Len(started') + i]
  <2>1. i + 1 \in 1 .. Len(queue) /\ Len(started) + (i + 1) = Len(started') + i
    BY <1>1, <1>2, <1>4
  <2>2. queue[i + 1] = submitted[Len(started) + (i + 1)]
    BY <2>1 DEF Conserved
  <2> QED
    BY <1>2, <2>1, <2>2
<1>8. Conserved'
  BY <1>5, <1>6, <1>7 DEF Conserved
<1>9. /\ task' \in [Workers -> Tasks \cup {NoTask}]
      /\ task'[w] # NoTask
      /\ pc' \in [Workers -> WorkerPC]
  BY <1>2, NoTaskAssumption DEF TypeOK, PopAndRun, Front, WorkerPC
<1> QED
  BY <1>1, <1>2, <1>4, <1>8, <1>9 DEF R

(* ... and a worker that is still able to take one was never late. *)
LEMMA PopLate ==
    ASSUME IInv, NEW w \in Workers, PopAndRun(w), running' = running,
           pc[w] \in {"take", "woken"}
    PROVE  (AtMostOneLateStart /\ LateIsLast)'
<1> DEFINE R == [task : Tasks, worker : Workers, late : BOOLEAN]
           r == [task |-> Head(queue), worker |-> w, late |-> ~running]
<1>0. TypeOK /\ AtMostOneLateStart /\ LateIsLast
  BY DEF IInv
<1>1. started \in Seq(R) /\ Len(started) \in Nat
  BY <1>0 DEF TypeOK
<1>2. Head(queue) \in Tasks
  BY <1>0, HeadTailProperties DEF PopAndRun, TypeOK
<1>3. r \in R /\ started' = Append(started, r)
  BY <1>0, <1>2 DEF TypeOK, PopAndRun, Front
<1> HIDE DEF R
<1>4. /\ Len(started') = Len(started) + 1
      /\ \A i \in 1 .. Len(started) : started'[i] = started[i]
      /\ started'[Len(started) + 1] = r
  BY <1>1, <1>3, AppendProperties
<1>5. pc'[w] = "run" /\ \A x \in Workers : x # w => pc'[x] = pc[x]
  BY <1>0 DEF TypeOK, PopAndRun
<1>6. ASSUME NEW i \in 1 .. Len(started), started[i].late
      PROVE  /\ started[i].worker # w
             /\ ~running'
             /\ pc'[started[i].worker] \in LatePC
  <2>1. ~running /\ pc[started[i].worker] \in LatePC
    BY <1>0, <1>6 DEF LateIsLast
  <2>2. started[i].worker \in Workers
    BY <1>0, StartedType
  <2>3. started[i].worker # w
    BY <2>1 DEF LatePC
  <2> QED
    BY <1>5, <2>1, <2>2, <2>3
<1>7. \A i \in 1 .. Len(started') : i = Len(started) + 1 \/ i \in 1 .. Len(started)
  BY <1>1, <1>4
<1>8. r.worker = w /\ r.late = ~running
  OBVIOUS
<1>9. LateIsLast'
  <2> SUFFICES ASSUME NEW i \in 1 .. Len(started'), started'[i].late
               PROVE  ~running' /\ pc'[started'[i].worker] \in LatePC
    BY DEF LateIsLast
  <2>1. CASE i \in 1 .. Len(started)
    BY <1>4, <1>6, <2>1
  <2>2. CASE i = Len(started) + 1
    BY <1>4, <1>5, <1>8, <2>2 DEF LatePC
  <2> QED
    BY <1>7, <2>1, <2>2
<1>10. AtMostOneLateStart'
  <2> SUFFICES ASSUME NEW i \in 1 .. Len(started'), NEW j \in 1 .. Len(started'),
                      started'[i].late, started'[j].late,
                      started'[i].worker = started'[j].worker
               PROVE  i = j
    BY DEF AtMostOneLateStart
  <2>1. CASE i \in 1 .. Len(started) /\ j \in 1 .. Len(started)
    BY <1>0, <1>4, <2>1 DEF AtMostOneLateStart
  <2>2. CASE i = Len(started) + 1 /\ j \in 1 .. Len(started)
    BY <1>4, <1>6, <1>8, <2>2
  <2>3. CASE i \in 1 .. Len(started) /\ j = Len(started) + 1
    BY <1>4, <1>6, <1>8, <2>3
  <2> QED
    BY <1>7, <2>1, <2>2, <2>3
<1> QED
  BY <1>9, <1>10

(* A worker that moves on leaves stop() with what it knows. *)
LEMMA MoveStop ==
    ASSUME IInv, NEW w \in Workers, NEW v \in WorkerPC,
           pc' = [pc EXCEPT ![w] = v],
           UNCHANGED <<threads, running, stopVars>>,
           pc[w] \notin {"none", "exited"}, v # "none",
           v = "wait" => running,
           pc[w] = "check" /\ ~running => v = "exited"
    PROVE  (Created /\ StopInv)'
<1>1. TypeOK /\ Created /\ StopInv
  BY DEF IInv
<1>2. pc'[w] = v /\ \A x \in Workers : x # w => pc'[x] = pc[x]
  BY <1>1 DEF TypeOK
<1>3. /\ threads' = threads /\ running' = running /\ stopper' = stopper
      /\ joined' = joined /\ joinEnd' = joinEnd
  BY DEF stopVars
<1>4. Created'
  BY <1>1, <1>2, <1>3 DEF Created
<1>5. ASSUME NEW x \in Workers
      PROVE  /\ ~running => pc'[x] # "wait"
             /\ x < joined => pc'[x] = "exited"
             /\ stopper \in {"joining", "done"} /\ x >= joinEnd =>
                   pc'[x] \in {"none", "check", "exited"}
  <2>1. CASE x # w
    BY <1>1, <1>2, <2>1 DEF StopInv
  <2>2. CASE x = w
    <3>1. stopper \in {"joining", "done"} => ~running
      BY <1>1 DEF StopInv
    <3> QED
      BY <1>1, <1>2, <2>2, <3>1 DEF StopInv
  <2> QED
    BY <2>1, <2>2
<1>6. StopInv'
  BY <1>1, <1>3, <1>5 DEF StopInv
<1> QED
  BY <1>4, <1>6

(* A step that starts nothing keeps late workers on their way out. *)
LEMMA MoveLate ==
    ASSUME IInv, NEW w \in Workers, NEW v,
           pc' = [pc EXCEPT ![w] = v],
           started' = started, running' = running,
           pc[w] \in LatePC => v \in LatePC
    PROVE  (AtMostOneLateStart /\ LateIsLast)'
<1>1. TypeOK /\ AtMostOneLateStart /\ LateIsLast
  BY DEF IInv
<1>2. pc'[w] = v /\ \A x \in Workers : x # w => pc'[x] = pc[x]
  BY <1>1 DEF TypeOK
<1>3. ASSUME NEW i \in 1 .. Len(started), started[i].late
      PROVE  ~running /\ pc'[started[i].worker] \in LatePC
  <2>1. ~running /\ pc[started[i].worker] \in LatePC
    BY <1>1, <1>3 DEF LateIsLast
  <2>2. started[i].worker \in Workers
    BY <1>1, StartedType
  <2> QED
    BY <1>2, <2>1, <2>2
<1>4. LateIsLast'
  BY <1>3 DEF LateIsLast
<1>5. AtMostOneLateStart'
  BY <1>1 DEF AtMostOneLateStart
<1> QED
  BY <1>4, <1>5

(* A worker that runs its next task: from take, or from woken. *)
LEMMA PopTaskHeld ==
    ASSUME TypeOK, TaskHeld, NEW w \in Workers, PopAndRun(w),
           task'[w] # NoTask
    PROVE  TaskHeld'
<1>1. /\ pc'[w] = "run" /\ \A x \in Workers : x # w => pc'[x] = pc[x]
      /\ \A x \in Workers : x # w => task'[x] = task[x]
  BY DEF TypeOK, PopAndRun
<1> QED
  BY <1>1 DEF TaskHeld

LEMMA TakePopStep ==
    ASSUME IInv, NEW w \in Workers, TakePop(w)
    PROVE  IInv'
<1>1. TypeOK /\ Counters /\ Awake /\ Conserved /\ TaskHeld
  BY DEF IInv
<1>2. /\ PopAndRun(w) /\ pc[w] = "take" /\ submitted' = submitted
      /\ running' = running /\ waiting' = waiting /\ working' = working
      /\ UNCHANGED <<threads, running, stopVars>>
  BY DEF TakePop
<1>3. pc' = [pc EXCEPT ![w] = "run"]
  BY <1>2 DEF PopAndRun
<1>4. /\ Conserved' /\ queue' \in Seq(Tasks)
      /\ Len(queue') = Len(queue) - 1 /\ Len(queue) \in Nat
      /\ started' \in Seq([task : Tasks, worker : Workers, late : BOOLEAN])
      /\ task' \in [Workers -> Tasks \cup {NoTask}]
      /\ task'[w] # NoTask
      /\ pc' \in [Workers -> WorkerPC]
  BY <1>1, <1>2, PopConserved
<1>5. TypeOK'
  BY <1>1, <1>2, <1>4 DEF TypeOK, stopVars
<1>6. /\ pc'[w] = "run" /\ \A x \in Workers : x # w => pc'[x] = pc[x]
  BY <1>1, <1>3 DEF TypeOK
<1>7. /\ pc'[w] \notin BlockedPC /\ pc[w] \notin BlockedPC
      /\ pc'[w] \notin IdlePC /\ pc[w] \in IdlePC
  BY <1>2, <1>6 DEF BlockedPC, IdlePC
<1>8. NBlocked' = NBlocked /\ NIdle' = NIdle - 1 /\ NIdle \in 0 .. NThreads
  BY <1>6, <1>7, CountsMove
<1>9. Counters'
  BY <1>1, <1>2, <1>8 DEF Counters
<1>10. (\E x \in Workers : pc'[x] = "wait") => \E x \in Workers : pc[x] = "wait"
  BY <1>6
<1>11. Awake'
  BY <1>1, <1>4, <1>8, <1>10, NThreadsAssumption DEF Awake, CounterMod
<1>12. (AtMostOneLateStart /\ LateIsLast)'
  BY <1>2, PopLate
<1>13. (Created /\ StopInv)'
  BY <1>2, <1>3, MoveStop DEF WorkerPC
<1>14. TaskHeld'
  BY <1>1, <1>2, <1>4, PopTaskHeld
<1> QED
  BY <1>4, <1>5, <1>9, <1>11, <1>12, <1>13, <1>14 DEF IInv

(* The arithmetic of the two uint8_t counters. *)
LEMMA CounterArithmetic ==
    ASSUME NEW a \in 0 .. 255, NEW b \in 0 .. 255, (a + b) % 256 = 0
    PROVE  /\ a < 255 => (a + 1) % 256 = a + 1
           /\ a > 0 => (a - 1) % 256 = a - 1
           /\ (((a + 1) % 256) + ((b - 1) % 256)) % 256 = 0
           /\ (((a - 1) % 256) + ((b + 1) % 256)) % 256 = 0
<1>1. a < 255 => (a + 1) % 256 = a + 1
  OBVIOUS
<1>2. a > 0 => (a - 1) % 256 = a - 1
  OBVIOUS
<1>3. a + b = 0 \/ a + b = 256
  OBVIOUS
<1>4. (((a + 1) % 256) + ((b - 1) % 256)) % 256 = 0
  BY <1>3
<1>5. (((a - 1) % 256) + ((b + 1) % 256)) % 256 = 0
  BY <1>3
<1> QED
  BY <1>1, <1>2, <1>4, <1>5

LEMMA WakeLeaveStep ==
    ASSUME IInv, NEW w \in Workers, WakeLeave(w)
    PROVE  IInv'
<1>1. TypeOK /\ Counters /\ Awake /\ Conserved /\ TaskHeld /\ StopInv
  BY DEF IInv
<1>2. /\ pc[w] = "woken" /\ submitted' = submitted /\ running' = running
      /\ threads' = threads /\ UNCHANGED <<threads, running, stopVars>>
      /\ waiting' = (waiting - 1) % 256 /\ working' = (working + 1) % 256
  BY DEF WakeLeave, LeaveWait, CounterMod
<1>3. waiting \in 0 .. 255 /\ working \in 0 .. 255
  BY <1>1 DEF TypeOK, CounterMod
<1>c. ASSUME \A x \in Workers : x # w => pc'[x] = pc[x],
             pc'[w] \notin BlockedPC
      PROVE  Counters' /\ waiting' \in 0 .. 255 /\ working' \in 0 .. 255
  <2>1. pc[w] \in BlockedPC
    BY <1>2 DEF BlockedPC
  <2>2. NBlocked' = NBlocked - 1 /\ NBlocked \in 0 .. NThreads /\ NBlocked' \in 0 .. NThreads
    BY <1>c, <2>1, CountsMove
  <2>3. waiting = NBlocked /\ (waiting + working) % 256 = 0
    BY <1>1 DEF Counters, CounterMod
  <2>4. waiting > 0 /\ NBlocked' = waiting - 1
    BY <1>3, <2>2, <2>3, NThreadsAssumption DEF CounterMod
  <2>5. waiting' = NBlocked' /\ (waiting' + working') % 256 = 0
    <3>1. /\ (waiting - 1) % 256 = waiting - 1
          /\ (((waiting - 1) % 256) + ((working + 1) % 256)) % 256 = 0
      BY <1>3, <2>3, <2>4, CounterArithmetic
    <3>2. waiting' = (waiting - 1) % 256 /\ working' = (working + 1) % 256
      BY <1>2
    <3>3. waiting' + working' = ((waiting - 1) % 256) + ((working + 1) % 256)
      BY <3>2
    <3> QED
      BY <2>4, <3>1, <3>2, <3>3
  <2>6. waiting' \in 0 .. 255 /\ working' \in 0 .. 255
    BY <1>2, <1>3
  <2> QED
    BY <2>5, <2>6 DEF Counters, CounterMod
<1>a. CASE ~running /\ pc' = [pc EXCEPT ![w] = "check"]
           /\ UNCHANGED <<queue, task, started>>
  <2>1. pc'[w] = "check" /\ (\A x \in Workers : x # w => pc'[x] = pc[x])
        /\ pc' \in [Workers -> WorkerPC]
    BY <1>1, <1>a DEF TypeOK, WorkerPC
  <2>2. Counters' /\ waiting' \in 0 .. 255 /\ working' \in 0 .. 255
    BY <1>c, <2>1 DEF BlockedPC
  <2>3. TypeOK'
    BY <1>1, <1>2, <1>a, <2>1, <2>2 DEF TypeOK, stopVars, CounterMod
  <2>4. \A x \in Workers : pc'[x] # "wait"
    BY <1>1, <1>a, <2>1 DEF StopInv
  <2>5. Awake'
    BY <2>4 DEF Awake
  <2>6. (Conserved /\ TaskHeld)'
    BY <1>1, <1>2, <1>a, <2>1 DEF Conserved, TaskHeld
  <2>7. (AtMostOneLateStart /\ LateIsLast)'
    BY <1>2, <1>a, MoveLate DEF LatePC
  <2>8. (Created /\ StopInv)'
    BY <1>2, <1>a, MoveStop DEF WorkerPC
  <2> QED
    BY <2>2, <2>3, <2>5, <2>6, <2>7, <2>8 DEF IInv
<1>b. CASE running /\ PopAndRun(w)
  <2>1. pc' = [pc EXCEPT ![w] = "run"]
    BY <1>b DEF PopAndRun
  <2>2. /\ Conserved' /\ queue' \in Seq(Tasks)
        /\ Len(queue') = Len(queue) - 1 /\ Len(queue) \in Nat
        /\ started' \in Seq([task : Tasks, worker : Workers, late : BOOLEAN])
        /\ task' \in [Workers -> Tasks \cup {NoTask}]
        /\ task'[w] # NoTask
        /\ pc' \in [Workers -> WorkerPC]
    BY <1>1, <1>2, <1>b, PopConserved
  <2>3. pc'[w] = "run" /\ \A x \in Workers : x # w => pc'[x] = pc[x]
    BY <1>1, <2>1 DEF TypeOK
  <2>4. Counters' /\ waiting' \in 0 .. 255 /\ working' \in 0 .. 255
    BY <1>c, <2>3 DEF BlockedPC
  <2>5. TypeOK'
    BY <1>1, <1>2, <2>2, <2>4 DEF TypeOK, stopVars, CounterMod
  <2>6. pc'[w] \notin IdlePC /\ pc[w] \in IdlePC
    BY <1>2, <2>3 DEF IdlePC
  <2>7. NIdle' = NIdle - 1 /\ NIdle \in 0 .. NThreads
    BY <2>3, <2>6, CountsMove
  <2>8. (\E x \in Workers : pc'[x] = "wait") => \E x \in Workers : pc[x] = "wait"
    BY <2>3
  <2>9. Awake'
    BY <1>1, <2>2, <2>7, <2>8, NThreadsAssumption DEF Awake, CounterMod
  <2>10. (AtMostOneLateStart /\ LateIsLast)'
    BY <1>2, <1>b, PopLate
  <2>11. (Created /\ StopInv)'
    BY <1>2, <2>1, MoveStop DEF WorkerPC
  <2>12. TaskHeld'
    BY <1>1, <1>b, <2>2, PopTaskHeld
  <2> QED
    BY <2>2, <2>4, <2>5, <2>9, <2>10, <2>11, <2>12 DEF IInv
<1> QED
  BY <1>a, <1>b DEF WakeLeave

(* Going to sleep: the queue is empty, so no task is left without a        *)
(* worker, and the counters move in opposite directions.                   *)
LEMMA TakeWaitStep ==
    ASSUME IInv, NEW w \in Workers, TakeWait(w)
    PROVE  IInv'
<1>1. TypeOK /\ Counters /\ Awake /\ Conserved /\ TaskHeld
  BY DEF IInv
<1>2. /\ pc[w] = "take" /\ queue = <<>> /\ running
      /\ pc' = [pc EXCEPT ![w] = "wait"]
      /\ waiting' = (waiting + 1) % 256 /\ working' = (working - 1) % 256
      /\ UNCHANGED <<queue, running, threads, task, stopVars, submitted, started>>
      /\ UNCHANGED <<threads, running, stopVars>>
  BY DEF TakeWait, CounterMod
<1>3. pc'[w] = "wait" /\ (\A x \in Workers : x # w => pc'[x] = pc[x])
      /\ pc' \in [Workers -> WorkerPC]
  BY <1>1, <1>2 DEF TypeOK, WorkerPC
<1>4. pc'[w] \in BlockedPC /\ pc[w] \notin BlockedPC
  BY <1>2, <1>3 DEF BlockedPC
<1>5. NBlocked' = NBlocked + 1 /\ NBlocked \in 0 .. NThreads /\ NBlocked' \in 0 .. NThreads
      /\ NIdle' \in 0 .. NThreads
  BY <1>3, <1>4, CountsMove
<1>6. waiting = NBlocked /\ (waiting + working) % 256 = 0
  BY <1>1 DEF Counters, CounterMod
<1>7. waiting \in 0 .. 255 /\ working \in 0 .. 255 /\ NThreads \in 0 .. 255
  BY <1>1, NThreadsAssumption DEF TypeOK, CounterMod
<1>p. waiting < 255 /\ NBlocked' = waiting + 1
  BY <1>5, <1>6, <1>7
<1>8. waiting' = NBlocked' /\ (waiting' + working') % 256 = 0
  BY <1>2, <1>6, <1>7, <1>p, CounterArithmetic
<1>9. waiting' \in 0 .. 255 /\ working' \in 0 .. 255
  BY <1>2, <1>7
<1>10. Counters'
  BY <1>8 DEF Counters, CounterMod
<1>11. TypeOK'
  BY <1>1, <1>2, <1>3, <1>9 DEF TypeOK, stopVars, CounterMod
<1>12. Awake'
  BY <1>2, <1>5 DEF Awake
<1>13. (Conserved /\ TaskHeld)'
  BY <1>1, <1>2, <1>3 DEF Conserved, TaskHeld
<1>14. (AtMostOneLateStart /\ LateIsLast)'
  BY <1>2, MoveLate DEF LatePC
<1>15. (Created /\ StopInv)'
  BY <1>2, MoveStop DEF WorkerPC
<1> QED
  BY <1>10, <1>11, <1>12, <1>13, <1>14, <1>15 DEF IInv

LEMMA CheckStep ==
    ASSUME IInv, NEW w \in Workers, Check(w)
    PROVE  IInv'
<1>1. TypeOK /\ Counters /\ Awake /\ Conserved /\ TaskHeld /\ StopInv
  BY DEF IInv
<1> DEFINE v == IF running THEN "take" ELSE "exited"
<1>2. /\ pc[w] = "check" /\ pc' = [pc EXCEPT ![w] = v]
      /\ UNCHANGED <<queue, running, threads, waiting, working, task,
                     submitted, started, stopVars>>
      /\ UNCHANGED <<threads, running, stopVars>>
  BY DEF Check
<1>3. pc'[w] = v /\ (\A x \in Workers : x # w => pc'[x] = pc[x])
      /\ pc' \in [Workers -> WorkerPC]
  BY <1>1, <1>2 DEF TypeOK, WorkerPC
<1>4. /\ pc'[w] \notin BlockedPC /\ pc[w] \notin BlockedPC
      /\ running => pc'[w] \in IdlePC /\ pc[w] \in IdlePC
  BY <1>2, <1>3 DEF BlockedPC, IdlePC
<1>5. /\ NBlocked' = NBlocked /\ NIdle \in 0 .. NThreads
      /\ running => NIdle' = NIdle
  BY <1>3, <1>4, CountsMove
<1>6. TypeOK'
  BY <1>1, <1>2, <1>3 DEF TypeOK, stopVars
<1>7. (Counters /\ Conserved)'
  BY <1>1, <1>2, <1>5 DEF Counters, Conserved
<1>8. (\E x \in Workers : pc'[x] = "wait") => running /\ \E x \in Workers : pc[x] = "wait"
  BY <1>1, <1>3 DEF StopInv
<1>9. Awake'
  BY <1>1, <1>2, <1>5, <1>8 DEF Awake
<1>10. TaskHeld'
  BY <1>1, <1>2, <1>3 DEF TaskHeld
<1>11. (AtMostOneLateStart /\ LateIsLast)'
  <2>1. CASE running
    <3>1. AtMostOneLateStart' /\ LateIsLast'
      BY <1>2, <2>1 DEF IInv, AtMostOneLateStart, LateIsLast
    <3> QED
      BY <3>1
  <2>2. CASE ~running
    BY <1>2, <2>2, MoveLate DEF LatePC
  <2> QED
    BY <2>1, <2>2
<1>12. (Created /\ StopInv)'
  BY <1>2, MoveStop DEF WorkerPC
<1> QED
  BY <1>6, <1>7, <1>9, <1>10, <1>11, <1>12 DEF IInv

(* TakeNull: only once the pool has stopped, when nobody sleeps. *)
LEMMA TakeNullStep ==
    ASSUME IInv, NEW w \in Workers, TakeNull(w)
    PROVE  IInv'
<1>1. TypeOK /\ Counters /\ Awake /\ Conserved /\ TaskHeld /\ StopInv
  BY DEF IInv
<1>2. /\ pc[w] = "take" /\ pc' = [pc EXCEPT ![w] = "check"] /\ queue = <<>>
      /\ ~running
      /\ UNCHANGED <<queue, running, threads, waiting, working, task,
                     submitted, started, stopVars>>
      /\ UNCHANGED <<threads, running, stopVars>>
  BY DEF TakeNull
<1>3. pc'[w] = "check" /\ (\A x \in Workers : x # w => pc'[x] = pc[x])
      /\ pc' \in [Workers -> WorkerPC]
  BY <1>1, <1>2 DEF TypeOK, WorkerPC
<1>4. pc'[w] \notin BlockedPC /\ pc[w] \notin BlockedPC
  BY <1>2, <1>3 DEF BlockedPC
<1>5. NBlocked' = NBlocked /\ NBlocked \in 0 .. NThreads
  BY <1>3, <1>4, CountsMove
<1>6. TypeOK'
  BY <1>1, <1>2, <1>3 DEF TypeOK, stopVars
<1>7. (Counters /\ Conserved)'
  BY <1>1, <1>2, <1>5 DEF Counters, Conserved
<1>8. Awake'
  BY <1>1, <1>2, <1>3 DEF Awake, StopInv
<1>9. TaskHeld'
  BY <1>1, <1>2, <1>3 DEF TaskHeld
<1>10. (AtMostOneLateStart /\ LateIsLast)'
  BY <1>2, MoveLate DEF LatePC
<1>11. (Created /\ StopInv)'
  BY <1>2, MoveStop DEF WorkerPC
<1> QED
  BY <1>6, <1>7, <1>8, <1>9, <1>10, <1>11 DEF IInv

(* A worker that stirs in its sleep, whether notified or not. *)
LEMMA SpuriousStep ==
    ASSUME IInv, NEW w \in Workers, SpuriousWakeup(w)
    PROVE  IInv'
<1>1. TypeOK /\ Counters /\ Awake /\ Conserved /\ TaskHeld /\ StopInv
  BY DEF IInv
<1>2. /\ pc[w] = "wait" /\ pc' = [pc EXCEPT ![w] = "woken"]
      /\ UNCHANGED <<queue, running, threads, waiting, working, task,
                     submitted, started, stopVars>>
      /\ UNCHANGED <<threads, running, stopVars>>
  BY DEF SpuriousWakeup
<1>3. pc'[w] = "woken" /\ (\A x \in Workers : x # w => pc'[x] = pc[x])
      /\ pc' \in [Workers -> WorkerPC]
  BY <1>1, <1>2 DEF TypeOK, WorkerPC
<1>4. /\ pc'[w] \in BlockedPC /\ pc[w] \in BlockedPC
      /\ pc'[w] \in IdlePC /\ pc[w] \notin IdlePC
  BY <1>2, <1>3 DEF BlockedPC, IdlePC
<1>5. /\ NBlocked' = NBlocked /\ NBlocked \in 0 .. NThreads
      /\ NIdle' = NIdle + 1 /\ NIdle \in 0 .. NThreads
  BY <1>3, <1>4, CountsMove, NThreadsAssumption DEF CounterMod
<1>6. TypeOK'
  BY <1>1, <1>2, <1>3 DEF TypeOK, stopVars
<1>7. (Counters /\ Conserved)'
  BY <1>1, <1>2, <1>5 DEF Counters, Conserved
<1>8. Len(queue) <= NIdle /\ Len(queue) \in Nat
  BY <1>1, <1>2 DEF Awake, TypeOK
<1>9. Awake'
  BY <1>2, <1>5, <1>8, NThreadsAssumption DEF Awake, CounterMod
<1>10. TaskHeld'
  BY <1>1, <1>2, <1>3 DEF TaskHeld
<1>11. (AtMostOneLateStart /\ LateIsLast)'
  BY <1>2, MoveLate DEF LatePC
<1>12. (Created /\ StopInv)'
  BY <1>2, MoveStop DEF WorkerPC
<1> QED
  BY <1>6, <1>7, <1>9, <1>10, <1>11, <1>12 DEF IInv

(* Back to sleep: there is nothing in the queue. *)
LEMMA WakeAgainStep ==
    ASSUME IInv, NEW w \in Workers, WakeAgain(w)
    PROVE  IInv'
<1>1. TypeOK /\ Counters /\ Awake /\ Conserved /\ TaskHeld /\ StopInv
  BY DEF IInv
<1>2. /\ pc[w] = "woken" /\ pc' = [pc EXCEPT ![w] = "wait"]
      /\ running /\ queue = <<>>
      /\ UNCHANGED <<queue, running, threads, waiting, working, task,
                     submitted, started, stopVars>>
      /\ UNCHANGED <<threads, running, stopVars>>
  BY DEF WakeAgain
<1>3. pc'[w] = "wait" /\ (\A x \in Workers : x # w => pc'[x] = pc[x])
      /\ pc' \in [Workers -> WorkerPC]
  BY <1>1, <1>2 DEF TypeOK, WorkerPC
<1>4. pc'[w] \in BlockedPC /\ pc[w] \in BlockedPC
  BY <1>2, <1>3 DEF BlockedPC
<1>5. /\ NBlocked' = NBlocked /\ NBlocked \in 0 .. NThreads
      /\ NIdle' \in 0 .. NThreads
  BY <1>3, <1>4, CountsMove, NThreadsAssumption DEF CounterMod
<1>6. TypeOK'
  BY <1>1, <1>2, <1>3 DEF TypeOK, stopVars
<1>7. (Counters /\ Conserved)'
  BY <1>1, <1>2, <1>5 DEF Counters, Conserved
<1>8. Awake'
  BY <1>2, <1>5 DEF Awake
<1>9. TaskHeld'
  BY <1>1, <1>2, <1>3 DEF TaskHeld
<1>10. (AtMostOneLateStart /\ LateIsLast)'
  BY <1>2, MoveLate DEF LatePC
<1>11. (Created /\ StopInv)'
  BY <1>2, MoveStop DEF WorkerPC
<1> QED
  BY <1>6, <1>7, <1>8, <1>9, <1>10, <1>11 DEF IInv

LEMMA FinishStep ==
    ASSUME IInv, NEW w \in Workers, Finish(w)
    PROVE  IInv'
<1>1. TypeOK /\ Counters /\ Awake /\ Conserved /\ TaskHeld /\ StopInv
  BY DEF IInv
<1>2. /\ pc[w] = "run" /\ pc' = [pc EXCEPT ![w] = "check"]
      /\ task' = [task EXCEPT ![w] = NoTask]
      /\ UNCHANGED <<queue, running, threads, waiting, working,
                     submitted, started, stopVars>>
      /\ UNCHANGED <<threads, running, stopVars>>
  BY DEF Finish
<1>3. pc'[w] = "check" /\ (\A x \in Workers : x # w => pc'[x] = pc[x])
      /\ pc' \in [Workers -> WorkerPC]
  BY <1>1, <1>2 DEF TypeOK, WorkerPC
<1>4. /\ pc'[w] \notin BlockedPC /\ pc[w] \notin BlockedPC
      /\ pc'[w] \in IdlePC /\ pc[w] \notin IdlePC
  BY <1>2, <1>3 DEF BlockedPC, IdlePC
<1>5. /\ NBlocked' = NBlocked /\ NBlocked \in 0 .. NThreads
      /\ NIdle' = NIdle + 1 /\ NIdle \in 0 .. NThreads
  BY <1>3, <1>4, CountsMove, NThreadsAssumption DEF CounterMod
<1>6. TypeOK'
  BY <1>1, <1>2, <1>3 DEF TypeOK, stopVars
<1>7. (Counters /\ Conserved)'
  BY <1>1, <1>2, <1>5 DEF Counters, Conserved
<1>8. (\E x \in Workers : pc'[x] = "wait") => \E x \in Workers : pc[x] = "wait"
  BY <1>3
<1>9. Len(queue) \in Nat
  BY <1>1 DEF TypeOK
<1>10. Awake'
  BY <1>1, <1>2, <1>5, <1>8, <1>9, NThreadsAssumption DEF Awake, CounterMod
<1>11. TaskHeld'
  BY <1>1, <1>2, <1>3 DEF TaskHeld, TypeOK
<1>12. (AtMostOneLateStart /\ LateIsLast)'
  BY <1>2, MoveLate DEF LatePC
<1>13. (Created /\ StopInv)'
  BY <1>2, MoveStop DEF WorkerPC
<1> QED
  BY <1>6, <1>7, <1>10, <1>11, <1>12, <1>13 DEF IInv

(* stop(): everybody who slept is awake from here on. *)
LEMMA StopStep ==
    ASSUME IInv, Stop
    PROVE  IInv'
<1>1. TypeOK /\ Counters /\ Conserved /\ TaskHeld /\ StopInv /\ Created
      /\ AtMostOneLateStart /\ LateIsLast
  BY DEF IInv
<1>2. /\ stopper = "idle" /\ stopper' = "signalled" /\ running' = FALSE
      /\ pc' = [w \in Workers |-> IF pc[w] = "wait" THEN "woken" ELSE pc[w]]
      /\ UNCHANGED <<queue, threads, waiting, working, task, joined, joinEnd,
                     submitted, started>>
  BY DEF Stop, NotifyAll
<1>3. /\ pc' \in [Workers -> WorkerPC]
      /\ \A w \in Workers : pc'[w] = IF pc[w] = "wait" THEN "woken" ELSE pc[w]
  BY <1>1, <1>2 DEF TypeOK, WorkerPC
<1>4. TypeOK'
  BY <1>1, <1>2, <1>3 DEF TypeOK, StopperPC
<1>5. NBlocked' = NBlocked
  <2>1. {w \in Workers : pc'[w] \in BlockedPC} = {w \in Workers : pc[w] \in BlockedPC}
    BY <1>3 DEF BlockedPC
  <2> QED
    BY <2>1 DEF NBlocked, Count
<1>6. (Counters /\ Conserved)'
  BY <1>1, <1>2, <1>5 DEF Counters, Conserved
<1>7. \A w \in Workers : pc'[w] # "wait"
  BY <1>3
<1>8. Awake'
  BY <1>7 DEF Awake
<1>9. (Created /\ TaskHeld)'
  BY <1>1, <1>2, <1>3 DEF Created, TaskHeld
<1>10. running
  BY <1>1, <1>2 DEF StopInv
<1>11. (AtMostOneLateStart /\ LateIsLast)'
  BY <1>1, <1>2, <1>10 DEF AtMostOneLateStart, LateIsLast
<1>12. StopInv'
  BY <1>1, <1>2, <1>3, <1>7 DEF StopInv
<1> QED
  BY <1>4, <1>6, <1>8, <1>9, <1>11, <1>12 DEF IInv

LEMMA StopperStepStep ==
    ASSUME IInv, StopperStep
    PROVE  IInv'
<1>1. TypeOK /\ Counters /\ Awake /\ Conserved /\ TaskHeld /\ StopInv /\ Created
      /\ AtMostOneLateStart /\ LateIsLast
  BY DEF IInv
<1>2. UNCHANGED <<queue, running, threads, waiting, working, pc, task,
                  submitted, started>>
  BY DEF StopperStep, JoinBegin, Join, StopReturn
<1>3. NBlocked' = NBlocked /\ NIdle' = NIdle
  BY <1>2, SameCounts
<1>4. (Counters /\ Awake /\ Conserved /\ TaskHeld /\ Created
       /\ AtMostOneLateStart /\ LateIsLast)'
  BY <1>1, <1>2, <1>3 DEF Counters, Awake, Conserved, TaskHeld, Created,
                          AtMostOneLateStart, LateIsLast
<1>5. CASE JoinBegin
  <2>1. /\ stopper = "signalled" /\ stopper' = "joining" /\ joinEnd' = threads
        /\ joined' = joined
    BY <1>5 DEF JoinBegin
  <2>2. TypeOK'
    BY <1>1, <1>2, <2>1 DEF TypeOK, StopperPC
  <2>3. joined <= threads
    <3>1. CASE joined = 0
      BY <1>1, <3>1 DEF TypeOK
    <3>2. CASE joined > 0
      <4>1. joined - 1 \in Workers /\ joined - 1 < joined
        BY <1>1, <3>2, NThreadsAssumption DEF TypeOK, Workers, CounterMod
      <4>2. pc[joined - 1] # "none"
        BY <1>1, <4>1 DEF StopInv
      <4> QED
        BY <1>1, <4>1, <4>2, NThreadsAssumption DEF Created, TypeOK, CounterMod
    <3> QED
      BY <1>1, <3>1, <3>2, NThreadsAssumption DEF TypeOK, CounterMod
  <2>4. StopInv'
    BY <1>1, <1>2, <2>1, <2>3 DEF StopInv, Created
  <2> QED
    BY <1>4, <2>2, <2>4 DEF IInv
<1>6. CASE Join
  <2>1. /\ stopper = "joining" /\ joined < joinEnd /\ pc[joined] = "exited"
        /\ joined' = joined + 1 /\ stopper' = stopper /\ joinEnd' = joinEnd
    BY <1>6 DEF Join
  <2>2. TypeOK'
    BY <1>1, <1>2, <2>1, NThreadsAssumption DEF TypeOK, CounterMod
  <2>3. \A w \in Workers : w < joined' => w < joined \/ w = joined
    BY <1>1, <2>1, NThreadsAssumption DEF TypeOK, Workers, CounterMod
  <2>4. joined' <= joinEnd
    BY <1>1, <2>1, NThreadsAssumption DEF TypeOK, CounterMod
  <2>5. StopInv'
    BY <1>1, <1>2, <2>1, <2>3, <2>4 DEF StopInv
  <2> QED
    BY <1>4, <2>2, <2>5 DEF IInv
<1>7. CASE StopReturn
  <2>1. /\ stopper = "joining" /\ joined = joinEnd /\ stopper' = "done"
        /\ joined' = joined /\ joinEnd' = joinEnd
    BY <1>7 DEF StopReturn
  <2>2. TypeOK'
    BY <1>1, <1>2, <2>1 DEF TypeOK, StopperPC
  <2>3. StopInv'
    BY <1>1, <1>2, <2>1 DEF StopInv
  <2> QED
    BY <1>4, <2>2, <2>3 DEF IInv
<1> QED
  BY <1>5, <1>6, <1>7 DEF StopperStep

LEMMA NextIInv == IInv /\ [Next]_vars => IInv'
<1> SUFFICES ASSUME IInv, [Next]_vars PROVE IInv'
  OBVIOUS
<1>1. ASSUME NEW t \in Tasks, Put(t) PROVE IInv'
  BY <1>1, PutStep
<1>2. ASSUME NEW w \in Workers, Worker(w) PROVE IInv'
  <2>1. CASE Check(w)
    BY <2>1, CheckStep
  <2>2. CASE TakePop(w)
    BY <2>2, TakePopStep
  <2>3. CASE TakeNull(w)
    BY <2>3, TakeNullStep
  <2>4. CASE TakeWait(w)
    BY <2>4, TakeWaitStep
  <2>5. CASE WakeLeave(w)
    BY <2>5, WakeLeaveStep
  <2>6. CASE WakeAgain(w)
    BY <2>6, WakeAgainStep
  <2>7. CASE Finish(w)
    BY <2>7, FinishStep
  <2> QED
    BY <1>2, <2>1, <2>2, <2>3, <2>4, <2>5, <2>6, <2>7 DEF Worker
<1>3. ASSUME NEW w \in Workers, SpuriousWakeup(w) PROVE IInv'
  BY <1>3, SpuriousStep
<1>4. CASE Stop
  BY <1>4, StopStep
<1>5. CASE StopperStep
  BY <1>5, StopperStepStep
<1>6. CASE UNCHANGED vars
  <2>1. /\ UNCHANGED <<queue, running, threads, waiting, working, pc, task,
                       stopper, joined, joinEnd, submitted, started>>
    BY <1>6 DEF vars
  <2>2. NBlocked' = NBlocked /\ NIdle' = NIdle
    BY <2>1, SameCounts
  <2> QED
    BY <2>1, <2>2 DEF IInv, TypeOK, Counters, Awake, Conserved, TaskHeld, Created,
                      AtMostOneLateStart, LateIsLast, StopInv
<1> QED
  BY <1>1, <1>2, <1>3, <1>4, <1>5, <1>6 DEF Next

LEMMA SpecIInv == Spec => []IInv
<1>1. Init => IInv
  BY InitIInv
<1>2. IInv /\ [Next]_vars => IInv'
  BY NextIInv
<1> QED
  BY <1>1, <1>2, PTL DEF Spec
-----------------------------------------------------------------------------
(* Every variable keeps its type; in particular _waiting and the number of *)
(* threads stay within the uint8_t the constructor was given.              *)
THEOREM TypeCorrect == Spec => []TypeOK
<1>1. IInv => TypeOK
  BY DEF IInv
<1> QED
  BY <1>1, SpecIInv, PTL

(* put() reads an exact _waiting, whatever was notified, woke up by itself *)
(* or is on its way out of wait().                                         *)
THEOREM CountersCorrect == Spec => []CountersExact
<1>1. IInv => CountersExact
  BY AsCounts DEF IInv
<1> QED
  BY <1>1, SpecIInv, PTL

(* put() never leaves a task behind a sleeping worker. *)
THEOREM WakeupsCorrect == Spec => []NoLostWakeup
<1>1. IInv => NoLostWakeup
  BY AsCounts DEF IInv
<1> QED
  BY <1>1, SpecIInv, PTL

(* Tasks are started in the order of put(), none twice, none left out. *)
THEOREM OrderCorrect == Spec => []Conserved
<1>1. IInv => Conserved
  BY DEF IInv
<1> QED
  BY <1>1, SpecIInv, PTL

(* The unlocked read of _running costs one late task per worker at most. *)
THEOREM LateStartsBounded == Spec => []AtMostOneLateStart
<1>1. IInv => AtMostOneLateStart
  BY DEF IInv
<1> QED
  BY <1>1, SpecIInv, PTL

(* When stop() returns, no task runs and none will be started. *)
THEOREM StopCorrect == Spec => []StopQuiesces
<1>1. IInv => StopQuiesces
  <2> SUFFICES ASSUME IInv, stopper = "done"
               PROVE  ~running /\ \A w \in Workers : pc[w] \in {"none", "check", "exited"}
    BY DEF StopQuiesces, Quiet
  <2>1. StopInv /\ TypeOK
    BY DEF IInv
  <2>2. ~running /\ joined = joinEnd
    BY <2>1 DEF StopInv
  <2>3. \A w \in Workers : w < joinEnd \/ w >= joinEnd
    BY <2>1, NThreadsAssumption DEF TypeOK, Workers, CounterMod
  <2> QED
    BY <2>1, <2>2, <2>3 DEF StopInv
<1> QED
  BY <1>1, SpecIInv, PTL

(* The threads, the lock and the counters implement the pool that the      *)
(* abstract module TaskPool promises, except for its liveness.             *)
THEOREM RefinesTaskPool == Spec => PoolSafe
<1>1. Init => Pool!Init
  BY DEF Init, Pool!Init
<1>2. IInv /\ [Next]_vars => [Pool!Next]_(Pool!poolVars)
  <2> SUFFICES ASSUME IInv, [Next]_vars
               PROVE  Pool!Next \/ UNCHANGED <<queue, task, running>>
    BY DEF Pool!poolVars
  <2>0. TypeOK /\ TaskHeld /\ StopInv
    BY DEF IInv
  <2>1. ASSUME NEW t \in Tasks, Put(t) PROVE Pool!Put(t)
    BY <2>1 DEF Put, Pool!Put
  <2>2. ASSUME NEW w \in Workers, Check(w) \/ TakeNull(w) \/ TakeWait(w)
                                  \/ WakeAgain(w) \/ SpuriousWakeup(w)
        PROVE  UNCHANGED <<queue, task, running>>
    BY <2>2 DEF Check, TakeNull, TakeWait, WakeAgain, SpuriousWakeup
  <2>3. ASSUME NEW w \in Workers, TakePop(w) \/ WakeLeave(w)
        PROVE  Pool!Start(w) \/ UNCHANGED <<queue, task, running>>
    <3>1. task[w] = NoTask
      BY <2>0, <2>3 DEF TaskHeld, TakePop, WakeLeave
    <3> QED
      BY <2>3, <3>1 DEF TakePop, WakeLeave, PopAndRun, Front, Rest, Pool!Start
  <2>4. ASSUME NEW w \in Workers, Finish(w) PROVE Pool!Finish(w)
    <3>1. task[w] # NoTask
      BY <2>0, <2>4 DEF TaskHeld, Finish
    <3> QED
      BY <2>4, <3>1 DEF Finish, Pool!Finish
  <2>5. Stop => Pool!Close
    BY <2>0 DEF Stop, Pool!Close, StopInv
  <2>6. StopperStep => UNCHANGED <<queue, task, running>>
    BY DEF StopperStep, JoinBegin, Join, StopReturn
  <2>7. UNCHANGED vars => UNCHANGED <<queue, task, running>>
    BY DEF vars
  <2> QED
    BY <2>1, <2>2, <2>3, <2>4, <2>5, <2>6, <2>7 DEF Next, Worker, Pool!Next
<1> QED
  BY <1>1, <1>2, SpecIInv, PTL DEF Spec, PoolSafe, Pool!Safe
=============================================================================
