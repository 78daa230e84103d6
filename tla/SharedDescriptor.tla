-------------------------- MODULE SharedDescriptor --------------------------
(***************************************************************************)
(* What both reference-counting socket classes promise: every object holds *)
(* a socket or none, and the sockets that are open are exactly those some  *)
(* object holds.                                                           *)
(***************************************************************************)
CONSTANTS Objects, Sockets, None

VARIABLES held, open

Init == held = [o \in Objects |-> None] /\ open = {}

(* o lets go of what it holds, and holds a new socket, an open one or none.*)
Take(o, k) ==
    /\ held' = [held EXCEPT ![o] = k]
    /\ open' = {held'[p] : p \in Objects} \ {None}

Next == \E o \in Objects, k \in Sockets \cup {None} : Take(o, k)

Spec == Init /\ [][Next]_<<held, open>>
=============================================================================
