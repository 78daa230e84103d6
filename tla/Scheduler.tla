------------------------------ MODULE Scheduler ------------------------------
(***************************************************************************)
(* sched::Scheduler (scheduler/src/Scheduler.cpp): the constructor, which  *)
(* parses its options, fills the event queue and enters it, and the signal *)
(* handler, which runs on the same thread between any two of its steps and *)
(* uses the same queue.  Unlike in EventQueue, a critical section of the   *)
(* queue is two steps here, because a signal can arrive in the middle: one *)
(* before the assignment and one after it meet the same lock.              *)
(***************************************************************************)
EXTENDS Integers, Sequences, FiniteSets

CONSTANTS Children         \* processes that may die while this one runs

ASSUME ChildrenAssumption == IsFiniteSet(Children)

Switches == {"help", "daemon", "kill", "shutdown", "reset", "verbose"}

VARIABLES
    opts,          \* the switches given on the command line
    pid,           \* the process the constructor runs in: "daemon" after fork
    main,          \* where the constructor is
    lock,          \* who holds EventQueue::_lock: "none" or "main"
    queue,         \* the events waiting
    inLoop,        \* EventQueue::_thread is the main thread
    ran,           \* history: events executed, in order
    handler,       \* where the signal handler is, "off" when not running
    child,         \* the pid waitpid() returned to it
    sigchld,       \* SIGCHLD is pending
    alive, zombie, \* children, and those not waited for
    agents         \* the keys of _agents

vars == <<opts, pid, main, lock, queue, inLoop, ran, handler, child,
          sigchld, alive, zombie, agents>>
procVars == <<opts, pid>>
signalVars == <<handler, child, sigchld, alive, zombie, agents>>

NoChild == "no child"
ASSUME NoChildAssumption == NoChild \notin Children
Line(what) == [kind |-> "line", of |-> what]
Header == [kind |-> "logHeader"]
Terminate == [kind |-> "terminate"]
Death(c) == [kind |-> "death", of |-> c]

(* The constructor's pushes, in program order, each under its condition. *)
Steps == <<"help", "daemon", "kill", "shutdown", "reset", "header", "terminate", "enter">>
After(s) == Steps[1 + CHOOSE i \in 1 .. Len(Steps) : Steps[i] = s]

Init ==
    /\ opts \in SUBSET Switches
    /\ pid = "parent"
    /\ main = "help"
    /\ lock = "none"
    /\ queue = <<>>
    /\ inLoop = FALSE
    /\ ran = <<>>
    /\ handler = "off"
    /\ child = NoChild
    /\ sigchld = FALSE
    /\ alive = Children
    /\ zombie = {}
    /\ agents = {}

(* The main thread runs only while the handler does not. *)
MainRuns == handler = "off"

Help ==
    /\ MainRuns /\ main = "help"
    /\ main' = IF "help" \in opts THEN "exited" ELSE After("help")
    /\ UNCHANGED <<procVars, lock, queue, inLoop, ran, signalVars>>

(* daemon(): fork, the parent exits, and this is now the child; the        *)
(* parent's children are not the child's.                                  *)
Daemon ==
    /\ MainRuns /\ main = "daemon"
    /\ main' = After("daemon")
    /\ IF "daemon" \in opts
       THEN /\ pid' = "daemon"
            /\ alive' = {} /\ zombie' = {} /\ sigchld' = FALSE
       ELSE UNCHANGED <<pid, alive, zombie, sigchld>>
    /\ UNCHANGED <<opts, lock, queue, inLoop, ran, handler, child, agents>>

(* The event each step pushes.  kill() and resetDatabase() log a line and  *)
(* end it, which outside the loop is a push; _log.open() (option log)      *)
(* pushes nothing and is left out.                                         *)
EventOf(s) == CASE s = "header"    -> Header
                [] s = "terminate" -> Terminate
                [] OTHER           -> Line(s)

Skipped(s) == s \in {"kill", "shutdown", "reset"} /\ s \notin opts

Skip ==
    /\ MainRuns /\ Skipped(main)
    /\ main' = After(main)
    /\ UNCHANGED <<procVars, lock, queue, inLoop, ran, signalVars>>

(* EventQueue::push() by the constructor: lock, ... *)
PushLock ==
    /\ MainRuns
    /\ main \in {"kill", "shutdown", "reset", "header", "terminate"}
    /\ ~Skipped(main)
    /\ lock = "none"
    /\ lock' = "main"
    /\ UNCHANGED <<procVars, main, queue, inLoop, ran, signalVars>>

(* ... push_back and unlock *)
PushUnlock ==
    /\ MainRuns
    /\ main \in {"kill", "shutdown", "reset", "header", "terminate"}
    /\ lock = "main"
    /\ queue' = Append(queue, EventOf(main))
    /\ lock' = "none"
    /\ main' = After(main)
    /\ UNCHANGED <<procVars, inLoop, ran, signalVars>>

(* enter(): the thread is noted under the lock.                            *)
EnterLock ==
    /\ MainRuns /\ main = "enter" /\ lock = "none"
    /\ lock' = "main"
    /\ UNCHANGED <<procVars, main, queue, inLoop, ran, signalVars>>

EnterUnlock ==
    /\ MainRuns /\ main = "enter" /\ lock = "main"
    /\ inLoop' = TRUE
    /\ lock' = "none"
    /\ main' = "fetch"
    /\ UNCHANGED <<procVars, queue, ran, signalVars>>

FetchLock ==
    /\ MainRuns /\ main = "fetch" /\ lock = "none"
    /\ lock' = "main"
    /\ main' = "pop"
    /\ UNCHANGED <<procVars, queue, inLoop, ran, signalVars>>

(* Mutant of FetchUnlock: the scope of the lock spans the call. *)
FetchKeepsLock ==
    /\ MainRuns /\ main = "pop"
    /\ queue # <<>>
    /\ queue' = Tail(queue)
    /\ ran' = Append(ran, Head(queue))
    /\ main' = IF Head(queue) = Terminate THEN "leave" ELSE "fetch"
    /\ UNCHANGED <<procVars, lock, inLoop, signalVars>>

(* The terminating event is in the queue as long as the loop runs, so the  *)
(* loop never waits.                                                       *)
FetchUnlock ==
    /\ MainRuns /\ main = "pop"
    /\ queue # <<>>
    /\ queue' = Tail(queue)
    /\ ran' = Append(ran, Head(queue))
    /\ lock' = "none"
    /\ main' = IF Head(queue) = Terminate THEN "leave" ELSE "fetch"
    /\ UNCHANGED <<procVars, inLoop, signalVars>>

(* behind the catch: the thread is forgotten under the lock                *)
LeaveLock ==
    /\ MainRuns /\ main = "leave" /\ lock = "none"
    /\ lock' = "main"
    /\ UNCHANGED <<procVars, main, queue, inLoop, ran, signalVars>>

LeaveUnlock ==
    /\ MainRuns /\ main = "leave" /\ lock = "main"
    /\ inLoop' = FALSE
    /\ lock' = "none"
    /\ main' = "exited"
    /\ UNCHANGED <<procVars, queue, ran, signalVars>>

Constructor == \/ Help \/ Daemon \/ Skip \/ PushLock \/ PushUnlock
               \/ EnterLock \/ EnterUnlock \/ FetchLock \/ FetchUnlock
               \/ LeaveLock \/ LeaveUnlock
-----------------------------------------------------------------------------
mainVars == <<procVars, main, lock, inLoop, ran>>

(* A child dies; a SIGCHLD that is already pending absorbs the new one. *)
Die(c) ==
    /\ c \in alive
    /\ alive' = alive \ {c}
    /\ zombie' = zombie \cup {c}
    /\ sigchld' = TRUE
    /\ UNCHANGED <<mainVars, queue, handler, child, agents>>

(* SIGCHLD is blocked while its own handler runs. *)
Deliver ==
    /\ sigchld /\ handler = "off" /\ main # "exited"
    /\ sigchld' = FALSE
    /\ handler' = "wait"
    /\ UNCHANGED <<mainVars, queue, child, alive, zombie, agents>>

(* Mutant of AfterPush: if (waitpid ...) instead of while *)
AfterPushOnce == "off"

AfterPush == "wait"

(* while((n = waitpid(-1, &status, WNOHANG)) > 0) *)
Waitpid ==
    /\ handler = "wait"
    /\ IF zombie = {}
       THEN /\ handler' = "off"
            /\ UNCHANGED <<child, zombie>>
       ELSE \E c \in zombie :
            /\ child' = c
            /\ zombie' = zombie \ {c}
            /\ handler' = IF "verbose" \in opts THEN "log" ELSE "push"
    /\ UNCHANGED <<mainVars, queue, sigchld, alive, agents>>

(* SCHED_VERB: the line is written at once by the looping thread and is an *)
(* event otherwise.                                                        *)
HandlerLog ==
    /\ handler = "log"
    /\ \/ /\ inLoop
          /\ UNCHANGED queue
       \/ /\ ~inLoop
          /\ lock = "none"
          /\ queue' = Append(queue, Line(child))
    /\ handler' = "push"
    /\ UNCHANGED <<mainVars, child, sigchld, alive, zombie, agents>>

(* Mutant of HandlerPush: two events for one death. *)
HandlerPushTwice ==
    /\ handler = "push"
    /\ lock = "none"
    /\ queue' = queue \o <<Death(child), Death(child)>>
    /\ agents' = agents \cup {child}
    /\ child' = NoChild
    /\ handler' = AfterPush
    /\ UNCHANGED <<mainVars, sigchld, alive, zombie>>

(* event_signal(&Agent::death, _agents[n], status): needs the lock, which  *)
(* no one releases while the handler keeps the main thread from running.   *)
HandlerPush ==
    /\ handler = "push"
    /\ lock = "none"
    /\ queue' = Append(queue, Death(child))
    /\ agents' = agents \cup {child}
    /\ child' = NoChild
    /\ handler' = AfterPush
    /\ UNCHANGED <<mainVars, sigchld, alive, zombie>>

Handler == Waitpid \/ HandlerLog \/ HandlerPush

Next == Constructor \/ Deliver \/ Handler \/ \E c \in Children : Die(c)

(* The process is scheduled; children may live for ever. *)
Fairness == WF_vars(Constructor) /\ WF_vars(Deliver) /\ WF_vars(Handler)

Spec == Init /\ [][Next]_vars /\ Fairness
-----------------------------------------------------------------------------
Elements(s) == {s[i] : i \in 1 .. Len(s)}
Deaths(s, c) == {i \in 1 .. Len(s) : s[i] = Death(c)}

(* Two deaths can share one SIGCHLD; the loop around waitpid() makes up    *)
(* for it: a dead child never waits for a signal that will not come.       *)
NoZombieForgotten == zombie # {} => sigchld \/ handler # "off"

(* Every child that was waited for has exactly one death event, queued or  *)
(* executed, or still in the handler's hand.                               *)
Reaped == IF pid = "daemon" THEN agents ELSE Children \ (alive \cup zombie)
EachDeathOnce ==
    \A c \in Reaped : Cardinality(Deaths(ran \o queue, c)) = IF child = c THEN 0 ELSE 1

(* Wherever SIGCHLD arrives, the process ends, unless the code that the    *)
(* handler interrupted holds the queue's lock, for which it then waits.    *)
(* (The locks inside malloc and the streams are not modelled: a handler    *)
(* that interrupts them may hang on those too.)                            *)
SelfDeadlocked == handler \in {"log", "push"} /\ lock = "main"
EndsOrDeadlocks == <>(main = "exited" \/ SelfDeadlocked)

=============================================================================
