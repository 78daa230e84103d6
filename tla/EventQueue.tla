----------------------------- MODULE EventQueue -----------------------------
(***************************************************************************)
(* sched::EventQueue (scheduler/include/Event.hpp, scheduler/src/Event.cpp):*)
(* any thread pushes events; a thread inside Enter() pops and executes     *)
(* them until one calls Terminate().  Bodies under _lock are single        *)
(* actions.  The category braces that enter() writes around a named event, *)
(* and those that other threads write through events of their own, are     *)
(* kept as the stack of events that opened a category (its length is the   *)
(* log's _indent).                                                         *)
(***************************************************************************)
EXTENDS Integers, Sequences

CONSTANTS Loopers,      \* the threads that may call Enter()
          NoThread,     \* std::thread::id()
          Events,       \* records whose field kind is one of Kinds
          NoEvent,
          VerbEvent,    \* Scheduler::verb_event()
          Spurious,     \* may wait() return without a notification?
          MaxPush       \* bound: events pushed in a behaviour

(* What an event does: a job or a call of Terminate(), with a name of its  *)
(* own or under no_name, and (under no_name) the two halves of a category  *)
(* logged by another thread.                                               *)
Kinds == {"named", "plain", "named terminate", "terminate", "catb", "cate"}
Named(e) == e.kind \in {"named", "named terminate"}
Throws(e) == e.kind \in {"named terminate", "terminate"}

ASSUME EventsAssumption == /\ \A e \in Events : e.kind \in Kinds
                           /\ NoEvent \notin Events
ASSUME ThreadAssumption == NoThread \notin Loopers
ASSUME FlagAssumption == VerbEvent \in BOOLEAN /\ Spurious \in BOOLEAN
ASSUME BoundAssumption == MaxPush \in Nat

VARIABLES
    queue,              \* _queue
    thread,             \* _thread
    pc,                 \* where each looper is
    cur,                \* the event it took
    logging,            \* its local variable `logging'
    cats,               \* open categories, the current one last
    clean,              \* history: no read of `logging' gave garbage TRUE
    pushed, ran         \* history: events pushed, and taken

vars == <<queue, thread, pc, cur, logging, cats, clean, pushed, ran>>

LooperPC == {"idle", "fetch", "wait", "woken", "start", "run", "leave",
             "undefined"}   \* front() of an empty deque

Init ==
    /\ queue = <<>>
    /\ thread = NoThread
    /\ pc = [l \in Loopers |-> "idle"]
    /\ cur = [l \in Loopers |-> NoEvent]
    /\ logging = [l \in Loopers |-> FALSE]
    /\ cats = <<>>
    /\ clean = TRUE
    /\ pushed = <<>>
    /\ ran = <<>>

(* Mutant of NotifyAll: push() forgets it. *)
NotifyNobody == pc' = pc

NotifyAll == pc' = [l \in Loopers |-> IF pc[l] = "wait" THEN "woken" ELSE pc[l]]

(* push(), from any thread, a looper that runs an event included *)
Push(e) ==
    /\ Len(pushed) < MaxPush
    /\ queue' = Append(queue, e)
    /\ pushed' = Append(pushed, e)
    /\ NotifyAll
    /\ UNCHANGED <<thread, cur, logging, cats, clean, ran>>

(* `bool logging;' has no initialiser. *)
Enter(l) ==
    /\ pc[l] = "idle"
    /\ thread' = l
    /\ pc' = [pc EXCEPT ![l] = "fetch"]
    /\ \E garbage \in BOOLEAN :
          /\ logging' = [logging EXCEPT ![l] = garbage]
          /\ clean' = (clean /\ ~garbage)
    /\ UNCHANGED <<queue, cur, cats, pushed, ran>>

(* Mutant of FetchWait: it waits without the test. *)
FetchWaitBlind(l) ==
    /\ pc[l] = "fetch"
    /\ pc' = [pc EXCEPT ![l] = "wait"]
    /\ UNCHANGED <<queue, thread, cur, logging, cats, clean, pushed, ran>>

(* the empty queue is tested once, with `if', before the wait *)
FetchWait(l) ==
    /\ pc[l] = "fetch"
    /\ queue = <<>>
    /\ pc' = [pc EXCEPT ![l] = "wait"]
    /\ UNCHANGED <<queue, thread, cur, logging, cats, clean, pushed, ran>>

SpuriousWakeup(l) ==
    /\ Spurious
    /\ pc[l] = "wait"
    /\ pc' = [pc EXCEPT ![l] = "woken"]
    /\ UNCHANGED <<queue, thread, cur, logging, cats, clean, pushed, ran>>

(* Mutant of Oldest: _queue.back() *)
Newest == queue[Len(queue)]

Oldest == Head(queue)
Remaining == Tail(queue)

FetchPop(l) ==
    /\ pc[l] \in {"fetch", "woken"}
    /\ queue # <<>>
    /\ cur' = [cur EXCEPT ![l] = Oldest]
    /\ queue' = Remaining
    /\ ran' = Append(ran, Oldest)
    /\ pc' = [pc EXCEPT ![l] = "start"]
    /\ UNCHANGED <<thread, logging, cats, clean, pushed>>

(* woken with nothing there: front() and pop_front() of an empty deque *)
FetchNothing(l) ==
    /\ pc[l] = "woken"
    /\ queue = <<>>
    /\ pc' = [pc EXCEPT ![l] = "undefined"]
    /\ UNCHANGED <<queue, thread, cur, logging, cats, clean, pushed, ran>>

(* Log::cate() does nothing when _indent is 0. *)
CloseCategory(c) == IF c = <<>> THEN c ELSE SubSeq(c, 1, Len(c) - 1)

(* EVENT_START[ name ] { *)
Start(l) ==
    /\ pc[l] = "start"
    /\ pc' = [pc EXCEPT ![l] = "run"]
    /\ IF Named(cur[l]) /\ VerbEvent
       THEN /\ cats' = Append(cats, cur[l])
            /\ logging' = [logging EXCEPT ![l] = TRUE]
       ELSE UNCHANGED <<cats, logging>>
    /\ UNCHANGED <<queue, thread, cur, clean, pushed, ran>>

(* What the event does to the categories before its own brace is closed. *)
Acted(e) == CASE e.kind = "catb" -> Append(cats, e)
              [] e.kind = "cate" -> CloseCategory(cats)
              [] OTHER           -> cats

(* Mutant of Closed: `logging = false' is missing. *)
ClosedNoReset(l) ==
    /\ cats' = IF logging[l] THEN CloseCategory(Acted(cur[l])) ELSE Acted(cur[l])
    /\ logging' = logging

(* the code after event(), and the same code in the catch block *)
Closed(l) ==
    /\ cats' = IF logging[l] THEN CloseCategory(Acted(cur[l])) ELSE Acted(cur[l])
    /\ logging' = [logging EXCEPT ![l] = FALSE]

Return(l) ==
    /\ pc[l] = "run"
    /\ ~Throws(cur[l])
    /\ Closed(l)
    /\ cur' = [cur EXCEPT ![l] = NoEvent]
    /\ pc' = [pc EXCEPT ![l] = "fetch"]
    /\ UNCHANGED <<queue, thread, clean, pushed, ran>>

(* Terminate() throws a FlowController through event(), out of the brace   *)
(* of a named event.                                                       *)
Throw(l) ==
    /\ pc[l] = "run"
    /\ Throws(cur[l])
    /\ Closed(l)
    /\ cur' = [cur EXCEPT ![l] = NoEvent]
    /\ pc' = [pc EXCEPT ![l] = "leave"]
    /\ UNCHANGED <<queue, thread, clean, pushed, ran>>

Leave(l) ==
    /\ pc[l] = "leave"
    /\ thread' = NoThread
    /\ pc' = [pc EXCEPT ![l] = "idle"]
    /\ UNCHANGED <<queue, cur, logging, cats, clean, pushed, ran>>

Loop(l) == \/ FetchWait(l) \/ FetchPop(l) \/ FetchNothing(l) \/ Start(l)
           \/ Return(l) \/ Throw(l) \/ Leave(l)

Next == \/ \E e \in Events : Push(e)
        \/ \E l \in Loopers : Enter(l) \/ SpuriousWakeup(l) \/ Loop(l)

(* A thread inside Enter() is scheduled, and events return; nobody has to  *)
(* push or to call Enter().                                                *)
Fairness == \A l \in Loopers : WF_vars(Loop(l))

Spec == Init /\ [][Next]_vars /\ Fairness
-----------------------------------------------------------------------------
TypeOK ==
    /\ queue \in Seq(Events)
    /\ thread \in Loopers \cup {NoThread}
    /\ pc \in [Loopers -> LooperPC]
    /\ cur \in [Loopers -> Events \cup {NoEvent}]
    /\ \A l \in Loopers : cur[l] = NoEvent <=> pc[l] \notin {"start", "run"}
    /\ logging \in [Loopers -> BOOLEAN]
    /\ cats \in Seq(Events)
    /\ clean \in BOOLEAN
    /\ pushed \in Seq(Events)
    /\ ran \in Seq(Events)

(* A looper sleeps only while there is nothing to do: push() and the       *)
(* test-and-wait of enter() exclude each other.                            *)
NoSleepWithWork == \A l \in Loopers : pc[l] = "wait" => queue = <<>>

(* Events are taken in the order of push(), each once, none skipped, even  *)
(* across a Terminate() and a second Enter().                              *)
TakenInOrder ==
    /\ Len(pushed) = Len(ran) + Len(queue)
    /\ \A i \in 1 .. Len(ran) : ran[i] = pushed[i]
    /\ \A i \in 1 .. Len(queue) : queue[i] = pushed[Len(ran) + i]

(* The brace that enter() closes behind a named event, which may return or *)
(* throw, is the one it opened for it: whatever categories other threads   *)
(* have open, and whatever event, of this or an earlier Enter(), left by   *)
(* the catch block, as long as the uninitialised `logging' was FALSE.      *)
OwnBraceClosed ==
    clean => \A l \in Loopers : pc[l] = "run" /\ logging[l] =>
                cats # <<>> /\ cats[Len(cats)] = cur[l] /\ Named(cur[l])

(* The n-th event is taken if a thread is looping, unless the loop ends or *)
(* a spurious wake-up sent it to an empty deque.                           *)
EveryEventTaken ==
    \A n \in 1 .. MaxPush : \A l \in Loopers :
        Len(pushed) >= n /\ pc[l] # "idle"
            ~> Len(ran) >= n \/ pc[l] \in {"idle", "undefined"}

=============================================================================
