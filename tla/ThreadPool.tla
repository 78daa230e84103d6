----------------------------- MODULE ThreadPool -----------------------------
(***************************************************************************)
(* scaling::threadpool (scaling/src/threadpool.hpp, threadpool.cpp): a     *)
(* deque of tasks, a lock, a condition variable, and up to NThreads        *)
(* workers that put() creates when it counts no waiting worker.            *)
(*                                                                         *)
(* A body that runs under _lock from beginning to end is one action; the   *)
(* reads of _running in _exec_thread and the join loop of stop() take no   *)
(* lock and are steps of their own.  `waiting` and `working` are uint8_t.  *)
(***************************************************************************)
EXTENDS Integers, Sequences, FiniteSets

CONSTANTS Tasks,      \* the callables that are put, each once
          NThreads,   \* the constructor's argument, a uint8_t
          NoTask      \* no callable

CounterMod == 256     \* uint8_t

ASSUME NThreadsAssumption == NThreads \in 0 .. CounterMod - 1
ASSUME NoTaskAssumption == NoTask \notin Tasks

Workers == 0 .. NThreads - 1

VARIABLES
    queue,            \* _queue
    running,          \* _running
    threads,          \* _threads.size()
    waiting,          \* _waiting
    working,          \* _working
    pc,               \* where each worker is
    task,             \* curr, the task a worker runs
    stopper,          \* where the thread that calls stop() is
    joined,           \* how many threads its loop has joined
    joinEnd,          \* the end of the range its loop iterates over
    submitted,        \* history: tasks in the order of put()
    started           \* history: who started which task, and when

vars == <<queue, running, threads, waiting, working, pc, task, stopper,
          joined, joinEnd, submitted, started>>
stopVars == <<stopper, joined, joinEnd>>

WorkerPC == {"none",    \* not created
             "check",   \* at while(_running)
             "take",    \* called _take(), does not hold the lock yet
             "wait",    \* asleep in _wait.wait()
             "woken",   \* notified (or woken by itself), wants the lock
             "run",     \* in curr()
             "exited"}
StopperPC == {"idle", "signalled", "joining", "done", "crashed"}

Init ==
    /\ queue = <<>>
    /\ running = TRUE
    /\ threads = 0
    /\ waiting = 0
    /\ working = 0
    /\ pc = [w \in Workers |-> "none"]
    /\ task = [w \in Workers |-> NoTask]
    /\ stopper = "idle"
    /\ joined = 0
    /\ joinEnd = 0
    /\ submitted = <<>>
    /\ started = <<>>

(* A crash of stop()'s unlocked loop ends the whole process. *)
Alive == stopper # "crashed"

At(place) == {w \in Workers : pc[w] = place}

(* The threads blocked in or on their way out of _wait.wait(). *)
Blocked == At("wait") \cup At("woken")

(* Mutants of NotifyOne: a put() that forgets to notify, and one that      *)
(* notifies only on the transition from an empty queue.                    *)
NotifyNever == pc' = pc
NotifyIfWasEmpty ==
    IF At("wait") = {} \/ queue # <<>> THEN pc' = pc
    ELSE \E w \in At("wait") : pc' = [pc EXCEPT ![w] = "woken"]

(* notify_one moves one sleeping worker, if there is one. *)
NotifyOne == IF At("wait") = {} THEN pc' = pc
             ELSE \E w \in At("wait") : pc' = [pc EXCEPT ![w] = "woken"]

(* Mutant of SpawnNeeded: <= for < *)
SpawnNeededOffByOne == waiting = 0 /\ threads <= NThreads

SpawnNeeded == waiting = 0 /\ threads < NThreads

(* When put() creates a worker nobody sleeps, and its notify_one wakes no  *)
(* one.                                                                    *)
PutSpawn ==
    /\ SpawnNeeded
    /\ threads' = threads + 1
    /\ pc' = [pc EXCEPT ![threads] = "check"]
    \* push_back under a loop that iterates without the lock
    /\ IF stopper = "joining" THEN stopper' \in {"joining", "crashed"}
                              ELSE stopper' = stopper

PutNotify ==
    /\ ~SpawnNeeded
    /\ NotifyOne
    /\ UNCHANGED <<threads, stopper>>

Put(t) ==
    /\ Alive
    /\ \A i \in 1 .. Len(submitted) : submitted[i] # t
    /\ queue' = Append(queue, t)
    /\ submitted' = Append(submitted, t)
    /\ PutSpawn \/ PutNotify
    /\ UNCHANGED <<running, waiting, working, task, joined, joinEnd, started>>

(* Mutant of Check: for(;;) instead of while(_running) *)
CheckNothing(w) ==
    /\ Alive
    /\ pc[w] = "check"
    /\ pc' = [pc EXCEPT ![w] = IF queue # <<>> \/ running THEN "take" ELSE "exited"]
    /\ UNCHANGED <<queue, running, threads, waiting, working, task, stopVars,
                   submitted, started>>

(* while(_running), read without the lock *)
Check(w) ==
    /\ Alive
    /\ pc[w] = "check"
    /\ pc' = [pc EXCEPT ![w] = IF running THEN "take" ELSE "exited"]
    /\ UNCHANGED <<queue, running, threads, waiting, working, task, stopVars,
                   submitted, started>>

(* Mutant of Rest: a missing pop_front() *)
NotPopped == queue

Front == Head(queue)
Rest == Tail(queue)

(* The end of _take(): the oldest task leaves the queue and is run. *)
PopAndRun(w) ==
    /\ queue # <<>>
    /\ queue' = Rest
    /\ task' = [task EXCEPT ![w] = Front]
    /\ pc' = [pc EXCEPT ![w] = "run"]
    /\ started' = Append(started, [task |-> Front, worker |-> w,
                                   late |-> ~running])

TakePop(w) ==
    /\ Alive
    /\ pc[w] = "take"
    /\ PopAndRun(w)
    /\ UNCHANGED <<running, threads, waiting, working, stopVars, submitted>>

(* empty and stopped: _take() returns NULL *)
TakeNull(w) ==
    /\ Alive
    /\ pc[w] = "take"
    /\ queue = <<>> /\ ~running
    /\ pc' = [pc EXCEPT ![w] = "check"]
    /\ UNCHANGED <<queue, running, threads, waiting, working, task, stopVars,
                   submitted, started>>

TakeWait(w) ==
    /\ Alive
    /\ pc[w] = "take"
    /\ queue = <<>> /\ running
    /\ waiting' = (waiting + 1) % CounterMod
    /\ working' = (working - 1) % CounterMod
    /\ pc' = [pc EXCEPT ![w] = "wait"]
    /\ UNCHANGED <<queue, running, threads, task, stopVars, submitted, started>>

(* A condition variable may let a thread go without a notification. *)
SpuriousWakeup(w) ==
    /\ Alive
    /\ pc[w] = "wait"
    /\ pc' = [pc EXCEPT ![w] = "woken"]
    /\ UNCHANGED <<queue, running, threads, waiting, working, task, stopVars,
                   submitted, started>>

(* Mutant of LeaveWait: only one of the two counters is put back *)
LeaveWaitHalf == /\ waiting' = (waiting - 1) % CounterMod
                 /\ working' = working

LeaveWait == /\ waiting' = (waiting - 1) % CounterMod
             /\ working' = (working + 1) % CounterMod

(* wait() returns with the lock: the counters are put back, and then       *)
(* _take() returns NULL, takes a task, or goes round its loop to wait.     *)
WakeLeave(w) ==
    /\ Alive
    /\ pc[w] = "woken"
    /\ LeaveWait
    /\ \/ /\ ~running
          /\ pc' = [pc EXCEPT ![w] = "check"]
          /\ UNCHANGED <<queue, task, started>>
       \/ /\ running
          /\ PopAndRun(w)
    /\ UNCHANGED <<running, threads, stopVars, submitted>>

WakeAgain(w) ==
    /\ Alive
    /\ pc[w] = "woken"
    /\ running /\ queue = <<>>
    /\ pc' = [pc EXCEPT ![w] = "wait"]
    /\ UNCHANGED <<queue, running, threads, waiting, working, task, stopVars,
                   submitted, started>>

(* curr() returns; curr = NULL *)
Finish(w) ==
    /\ Alive
    /\ pc[w] = "run"
    /\ pc' = [pc EXCEPT ![w] = "check"]
    /\ task' = [task EXCEPT ![w] = NoTask]
    /\ UNCHANGED <<queue, running, threads, waiting, working, stopVars,
                   submitted, started>>

(* Mutant of NotifyAll: stop() wakes one sleeper *)
NotifyJustOne == NotifyOne

NotifyAll == pc' = [w \in Workers |-> IF pc[w] = "wait" THEN "woken" ELSE pc[w]]

(* stop(): under the lock, then the loop over _threads without it *)
Stop ==
    /\ stopper = "idle"
    /\ stopper' = "signalled"
    /\ running' = FALSE
    /\ NotifyAll
    /\ UNCHANGED <<queue, threads, waiting, working, task, joined, joinEnd,
                   submitted, started>>

(* Mutant of JoinBegin: the last thread is not joined *)
JoinBeginShort ==
    /\ stopper = "signalled"
    /\ stopper' = "joining"
    /\ joinEnd' = IF threads = 0 THEN 0 ELSE threads - 1
    /\ UNCHANGED <<queue, running, threads, waiting, working, pc, task, joined,
                   submitted, started>>

JoinBegin ==
    /\ stopper = "signalled"
    /\ stopper' = "joining"
    /\ joinEnd' = threads
    /\ UNCHANGED <<queue, running, threads, waiting, working, pc, task, joined,
                   submitted, started>>

Join ==
    /\ stopper = "joining"
    /\ joined < joinEnd
    /\ pc[joined] = "exited"
    /\ joined' = joined + 1
    /\ UNCHANGED <<queue, running, threads, waiting, working, pc, task, stopper,
                   joinEnd, submitted, started>>

StopReturn ==
    /\ stopper = "joining"
    /\ joined = joinEnd
    /\ stopper' = "done"
    /\ UNCHANGED <<queue, running, threads, waiting, working, pc, task, joined,
                   joinEnd, submitted, started>>

Worker(w) == \/ Check(w) \/ TakePop(w) \/ TakeNull(w) \/ TakeWait(w)
             \/ WakeLeave(w) \/ WakeAgain(w) \/ Finish(w)

StopperStep == JoinBegin \/ Join \/ StopReturn

Next == \/ \E t \in Tasks : Put(t)
        \/ \E w \in Workers : Worker(w) \/ SpuriousWakeup(w)
        \/ Stop
        \/ StopperStep

(* The operating system schedules every thread that can run, a mutex is    *)
(* granted sooner or later, and tasks return.  Nobody has to put or stop.  *)
Fairness == /\ \A w \in Workers : WF_vars(Worker(w))
            /\ WF_vars(StopperStep)

Spec == Init /\ [][Next]_vars /\ Fairness
-----------------------------------------------------------------------------
TypeOK ==
    /\ queue \in Seq(Tasks)
    /\ running \in BOOLEAN
    /\ threads \in 0 .. NThreads
    /\ waiting \in 0 .. CounterMod - 1
    /\ working \in 0 .. CounterMod - 1
    /\ pc \in [Workers -> WorkerPC]
    /\ task \in [Workers -> Tasks \cup {NoTask}]
    /\ stopper \in StopperPC
    /\ joined \in 0 .. NThreads
    /\ joinEnd \in 0 .. NThreads
    /\ submitted \in Seq(Tasks)
    /\ started \in Seq([task : Tasks, worker : Workers, late : BOOLEAN])

(* put() decides on _waiting whether to create a worker: through every     *)
(* interleaving of notifications and spurious wake-ups it is the number of *)
(* workers that have not come back from wait(), and _working, which no one *)
(* ever raises for a new worker, is its negation modulo 256.               *)
CountersExact ==
    /\ waiting = Cardinality(Blocked)
    /\ (waiting + working) % CounterMod = 0

(* The lost wake-up: while one worker sleeps un-notified, each task in the *)
(* queue has a worker of its own awake and on its way to _take(); so put() *)
(* was right to notify one worker and to create none.                      *)
Idle == At("check") \cup At("take") \cup At("woken")
NoLostWakeup == At("wait") # {} => Len(queue) <= Cardinality(Idle)

(* No task is lost, run twice or overtaken: what was started, followed by  *)
(* what is queued, is what was put, in the order of the calls to put().    *)
Conserved ==
    /\ Len(submitted) = Len(started) + Len(queue)
    /\ \A i \in 1 .. Len(started) : started[i].task = submitted[i]
    /\ \A i \in 1 .. Len(queue) : queue[i] = submitted[Len(started) + i]

(* _exec_thread reads _running without the lock, so a worker may start a   *)
(* task after stop() has cleared it; no worker starts a second one.        *)
AtMostOneLateStart ==
    \A i, j \in 1 .. Len(started) :
        /\ started[i].late /\ started[j].late
        /\ started[i].worker = started[j].worker
        => i = j

(* When stop() returns no task runs and none will: every worker has left   *)
(* _exec_thread, or was created by a put() after stop() and is about to.   *)
Quiet == \A w \in Workers : pc[w] \in {"none", "check", "exited"}
StopQuiesces == stopper = "done" => ~running /\ Quiet

(* A task put into a pool with threads is started, unless the pool stops.  *)
(* The counting of waiters would starve it if a put() could neither create *)
(* a worker nor wake one while all others sleep.                           *)
EveryTaskStarts ==
    \A n \in 1 .. Cardinality(Tasks) :
        Len(submitted) >= n ~> (Len(started) >= n \/ ~running)

(* stop() comes to an end, whatever the workers were doing: it joins only  *)
(* workers that wake up and see _running cleared.                          *)
StopReturns == stopper = "signalled" ~> stopper \in {"done", "crashed"}

(* The pool's promise, with the worker threads as the abstract slots. *)
Pool == INSTANCE TaskPool WITH Slots <- Workers, pending <- queue,
                               active <- task, open <- running
PoolSafe == Pool!Safe
PoolSpec == Pool!Spec
=============================================================================
