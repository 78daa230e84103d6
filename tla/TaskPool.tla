------------------------------ MODULE TaskPool ------------------------------
(***************************************************************************)
(* What a pool of scaling::threadpool's kind promises to those who use it: *)
(* tasks are started in the order they were put, each at most once, at     *)
(* most Slots of them run at a time, and while the pool is open a task     *)
(* that was put is started sooner or later.  Nothing is said of tasks      *)
(* still pending when the pool closes: the code drops them.                *)
(***************************************************************************)
EXTENDS Sequences

CONSTANTS Tasks,      \* the callables that may be put
          Slots,      \* the places in which a task can run
          NoTask      \* an empty place

VARIABLES pending,    \* tasks put and not started, oldest first
          active,     \* slot -> the task it runs
          open        \* FALSE once the pool was told to stop

poolVars == <<pending, active, open>>

Init == /\ pending = <<>>
        /\ active = [s \in Slots |-> NoTask]
        /\ open = TRUE

Put(t) == /\ pending' = Append(pending, t)
          /\ UNCHANGED <<active, open>>

Start(s) == /\ pending # <<>>
            /\ active[s] = NoTask
            /\ active' = [active EXCEPT ![s] = Head(pending)]
            /\ pending' = Tail(pending)
            /\ UNCHANGED open

Finish(s) == /\ active[s] # NoTask
             /\ active' = [active EXCEPT ![s] = NoTask]
             /\ UNCHANGED <<pending, open>>

Close == /\ open
         /\ open' = FALSE
         /\ UNCHANGED <<pending, active>>

Next == \/ \E t \in Tasks : Put(t)
        \/ \E s \in Slots : Start(s) \/ Finish(s)
        \/ Close

(* Some task is started as long as the pool is open and one can be. *)
StartWhileOpen == open /\ \E s \in Slots : Start(s)

Safe == Init /\ [][Next]_poolVars
Spec == Safe /\ WF_poolVars(StartWhileOpen)
=============================================================================
