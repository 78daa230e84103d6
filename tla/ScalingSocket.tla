---------------------------- MODULE ScalingSocket ----------------------------
(***************************************************************************)
(* soc::Socket (scaling/src/Socket.cpp): objects that share a descriptor   *)
(* count themselves in *_count.  Unlike in net::sync_socket the counter is *)
(* NULL in every object that never got a socket, and a copy counts without *)
(* looking: the process then dies.                                         *)
(***************************************************************************)
EXTENDS Integers, FiniteSets

CONSTANTS Objects,     \* variables of type Socket
          MaxFd,       \* descriptors are 1 .. MaxFd
          MaxCounters  \* bound: counters allocated in a behaviour

ASSUME BoundsAssumption == MaxFd \in Nat \ {0} /\ MaxCounters \in Nat
ASSUME ObjectsAssumption == IsFiniteSet(Objects)

Counters == 1 .. MaxCounters
Fds == 1 .. MaxFd
None == 0
Types == {"none", "server", "client"}

VARIABLES
    obj,       \* _type, _fd and _count of each object, and whether it exists
    counts,    \* *_count of each counter ever allocated; None once deleted
    table,     \* the kernel's table: which counter's socket a descriptor is
    allocated, \* how many counters were allocated
    crashed    \* the operation that used a NULL counter, or "no"

vars == <<obj, counts, table, allocated, crashed>>

NoObject == [exists |-> FALSE, type |-> "none", fd |-> None, count |-> None]
Made(t, f, c) == [exists |-> TRUE, type |-> t, fd |-> f, count |-> c]
Empty == Made("none", None, None)
Live(o) == obj[o].exists
Counted(o) == obj[o].count # None

Init ==
    /\ obj = [o \in Objects |-> NoObject]
    /\ counts = [c \in Counters |-> None]
    /\ table = [f \in Fds |-> None]
    /\ allocated = 0
    /\ crashed = "no"

is_connected(o) == obj[o].type = "client" /\ obj[o].fd # None
is_acceptable(o) == obj[o].type = "server" /\ obj[o].fd # None

FreeFds == {f \in Fds : table[f] = None}
Lowest == CHOOSE f \in FreeFds : \A g \in FreeFds : f <= g
Tried == IF FreeFds = {} THEN None ELSE Lowest

(* new uint32_t(1) *)
NewCount ==
    /\ allocated < MaxCounters
    /\ allocated' = allocated + 1
    /\ counts' = [counts EXCEPT ![allocated + 1] = 1]

(* Socket() *)
Construct(o) ==
    /\ ~Live(o)
    /\ obj' = [obj EXCEPT ![o] = Empty]
    /\ UNCHANGED <<counts, table, allocated, crashed>>

(* Socket(port), Socket(host, port), Socket(fd, type) that get a socket *)
Opens(o, t) ==
    /\ ~Live(o) /\ FreeFds # {}
    /\ NewCount
    /\ obj' = [obj EXCEPT ![o] = Made(t, Lowest, allocated + 1)]
    /\ table' = [table EXCEPT ![Lowest] = allocated + 1]
    /\ UNCHANGED crashed

(* Socket(port): no address could be bound *)
ServerFails(o) ==
    /\ ~Live(o)
    /\ obj' = [obj EXCEPT ![o] = Made("server", None, None)]
    /\ UNCHANGED <<counts, table, allocated, crashed>>

(* Socket(host, port): no address answered.  The last descriptor tried was *)
(* closed, twice, and stays in _fd.                                        *)
ClientFails(o) ==
    /\ ~Live(o)
    /\ obj' = [obj EXCEPT ![o] = Made("client", Tried, None)]
    /\ UNCHANGED <<counts, table, allocated, crashed>>

(* Socket o = s.Accept() *)
Accept(s, o) ==
    /\ Live(s) /\ ~Live(o) /\ is_acceptable(s) /\ FreeFds # {}
    /\ NewCount
    /\ obj' = [obj EXCEPT ![o] = Made("client", Lowest, allocated + 1)]
    /\ table' = [table EXCEPT ![Lowest] = allocated + 1]
    /\ UNCHANGED crashed

(* accept() answers -1, which is counted as if it were a descriptor. *)
AcceptFails(s, o) ==
    /\ Live(s) /\ ~Live(o) /\ is_acceptable(s)
    /\ NewCount
    /\ obj' = [obj EXCEPT ![o] = Made("client", None, allocated + 1)]
    /\ UNCHANGED <<table, crashed>>

AcceptRefuses(s, o) ==
    /\ Live(s) /\ ~Live(o) /\ ~is_acceptable(s)
    /\ obj' = [obj EXCEPT ![o] = Empty]
    /\ UNCHANGED <<counts, table, allocated, crashed>>

(* Mutant of Copy: the counter is left alone. *)
CopyUncounted(o, p) ==
    /\ ~Live(o) /\ Live(p) /\ Counted(p)
    /\ obj' = [obj EXCEPT ![o] = obj[p]]
    /\ UNCHANGED <<counts, table, allocated, crashed>>

(* Socket o(p), copied or moved: the moved-from object stays a user. *)
Copy(o, p) ==
    /\ ~Live(o) /\ Live(p) /\ Counted(p)
    /\ obj' = [obj EXCEPT ![o] = obj[p]]
    /\ counts' = [counts EXCEPT ![obj[p].count] = @ + 1]
    /\ UNCHANGED <<table, allocated, crashed>>

Crash(by) == crashed' = by /\ UNCHANGED <<obj, counts, table, allocated>>

CopyCrashes(o, p) == ~Live(o) /\ Live(p) /\ ~Counted(p) /\ Crash("copy")

(* What ~Socket and operator= do to the counter of o and to its socket *)
Last(o) == Counted(o) /\ counts[obj[o].count] = 1
CountsLeft(o) ==
    IF Counted(o) THEN [counts EXCEPT ![obj[o].count] = @ - 1] ELSE counts
TableLeft(o) ==
    IF Last(o) THEN [f \in Fds |-> IF f = obj[o].fd THEN None ELSE table[f]] ELSE table

Destroy(o) ==
    /\ Live(o)
    /\ counts' = CountsLeft(o)
    /\ table' = TableLeft(o)
    /\ obj' = [obj EXCEPT ![o] = NoObject]
    /\ UNCHANGED <<allocated, crashed>>

(* Mutant of Assign: the socket assigned to is not closed. *)
AssignForgets(o, p) ==
    /\ Live(o) /\ Live(p) /\ Counted(p)
    /\ obj' = [obj EXCEPT ![o] = obj[p]]
    /\ counts' = [CountsLeft(o) EXCEPT ![obj[p].count] = @ + 1]
    /\ UNCHANGED <<table, allocated, crashed>>

(* o = p: what o held is let go of first, so p must still have its counter *)
Survives(o, p) == Counted(p) /\ (o = p => ~Last(o))

Assign(o, p) ==
    /\ Live(o) /\ Live(p) /\ Survives(o, p)
    /\ obj' = [obj EXCEPT ![o] = obj[p]]
    /\ counts' = [CountsLeft(o) EXCEPT ![obj[p].count] = @ + 1]
    /\ table' = TableLeft(o)
    /\ UNCHANGED <<allocated, crashed>>

AssignCrashes(o, p) == Live(o) /\ Live(p) /\ ~Survives(o, p) /\ Crash("assign")

Next ==
    /\ crashed = "no"
    /\ \E o \in Objects :
        \/ Construct(o) \/ Opens(o, "server") \/ Opens(o, "client")
        \/ ServerFails(o) \/ ClientFails(o) \/ Destroy(o)
        \/ \E p \in Objects :
            \/ Accept(p, o) \/ AcceptFails(p, o) \/ AcceptRefuses(p, o)
            \/ Copy(o, p) \/ CopyCrashes(o, p)
            \/ Assign(o, p) \/ AssignCrashes(o, p)

Spec == Init /\ [][Next]_vars
-----------------------------------------------------------------------------
Users(c) == {o \in Objects : Live(o) /\ obj[o].count = c}

(* *_count is the number of objects that share the counter, through every  *)
(* sequence of copies, moves, assignments, accepts and destructions: none  *)
(* of them uses it after delete.                                           *)
CountsExact == \A c \in Counters : counts[c] = Cardinality(Users(c))

(* ~Socket: "If the reference count in then 0, this will close the file    *)
(* descriptor" (Socket.cpp:551), and only then: the class implements       *)
(* SharedDescriptor.                                                       *)
Held(o) == IF Live(o) /\ obj[o].fd # None THEN obj[o].count ELSE None
Shared == INSTANCE SharedDescriptor
    WITH Sockets <- Counters,
         held <- [o \in Objects |-> Held(o)],
         open <- {table[f] : f \in Fds} \ {None}
SharesDescriptors == Shared!Spec
=============================================================================
