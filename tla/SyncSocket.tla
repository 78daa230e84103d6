----------------------------- MODULE SyncSocket -----------------------------
(***************************************************************************)
(* net::sync_socket (proj1/socket.cpp): objects that share a descriptor    *)
(* count themselves in *_refs, and the last one closes it.  A descriptor   *)
(* is a number the kernel gives out again as soon as it is closed; only    *)
(* the class closes one here, and what listen() closes behind its back is  *)
(* in EchoService.  A UDP object also has _src, the address it sends to,   *)
(* which its copies share and the last one deletes; the buffer and the     *)
(* counter have the number of their socket here.                           *)
(***************************************************************************)
EXTENDS Integers, FiniteSets

CONSTANTS Objects,       \* variables of type sync_socket
          MaxFd,         \* descriptors are 1 .. MaxFd
          MaxSockets     \* bound: sockets and counters made in a behaviour

ASSUME BoundsAssumption == MaxFd \in Nat \ {0} /\ MaxSockets \in Nat
ASSUME ObjectsAssumption == IsFiniteSet(Objects)

Sockets == 1 .. MaxSockets
Fds == 1 .. MaxFd
None == 0        \* no socket, no counter; as a descriptor, -1

VARIABLES
    obj,      \* _conn, _fd, _refs and _src of each object, and whether it exists
    refs,     \* *_refs for each socket there was; None once deleted
    table,    \* the kernel's table: which socket a descriptor is
    buffers,  \* the address buffers that are allocated
    opened,   \* how many counters were made
    hollow,   \* history: the counters made for a descriptor that was -1
    spoilt    \* connect() has left an object half changed, or is undefined

vars == <<obj, refs, table, buffers, opened, hollow, spoilt>>

NoObject == [exists |-> FALSE, conn |-> FALSE, fd |-> None, refs |-> None, src |-> None]
Unconnected == [NoObject EXCEPT !.exists = TRUE]
Live(o) == obj[o].exists

Init ==
    /\ obj = [o \in Objects |-> NoObject]
    /\ refs = [k \in Sockets |-> None]
    /\ table = [f \in Fds |-> None]
    /\ buffers = {}
    /\ opened = 0
    /\ hollow = {}
    /\ spoilt = FALSE

(* check_close(): what it leaves of the counters, of the kernel's table    *)
(* and of the object. *)
Last(o) == obj[o].conn /\ refs[obj[o].refs] = 1
Dangling(o) == obj[o].conn /\ refs[obj[o].refs] = None
RefsLeft(o) == IF obj[o].conn THEN [refs EXCEPT ![obj[o].refs] = IF Last(o) THEN None ELSE @ - 1]
               ELSE refs
TableLeft(o) == IF Last(o) THEN [f \in Fds |-> IF f = obj[o].fd THEN None ELSE table[f]]
                ELSE table
BuffersLeft(o) == IF Last(o) THEN buffers \ {obj[o].src} ELSE buffers

(* Mutant of ObjectLeft: _src = NULL is missing. *)
ObjectLeftKeepsSrc(o) == IF Last(o) THEN [Unconnected EXCEPT !.src = obj[o].src] ELSE obj[o]
ObjectLeft(o) == IF Last(o) THEN Unconnected ELSE obj[o]

(* What an object does with a counter that was deleted is undefined and    *)
(* not modelled: RefsExact is what excludes it.                            *)
Works(o) == Live(o) /\ ~Dangling(o)

(* socket(), accept(): the lowest free descriptor of t *)
FreeFds(t) == {f \in Fds : t[f] = None}
Lowest(t) == CHOOSE f \in FreeFds(t) : \A g \in FreeFds(t) : f <= g
Tried(t) == IF FreeFds(t) = {} THEN None ELSE Lowest(t)
Room(t) == opened < MaxSockets /\ FreeFds(t) # {}

(* Over TCP, connect() leaves _src as it was. *)
Connected(f, tcp, src) ==
    [exists |-> TRUE, conn |-> TRUE, fd |-> f, refs |-> opened + 1,
     src |-> IF tcp THEN src ELSE opened + 1]
Allocated(tcp) == IF tcp THEN {} ELSE {opened + 1}

(* sync_socket() *)
Construct(o) ==
    /\ ~Live(o)
    /\ obj' = [obj EXCEPT ![o] = Unconnected]
    /\ UNCHANGED <<refs, table, buffers, opened, hollow, spoilt>>

(* sync_socket(fd), sync_socket(fd, src, len) around a new descriptor; and *)
(* sync_socket(host, port, tcp), which is Construct and Connect at once    *)
ConstructConnected(o, tcp) ==
    /\ ~Live(o) /\ Room(table)
    /\ obj' = [obj EXCEPT ![o] = Connected(Lowest(table), tcp, None)]
    /\ buffers' = buffers \cup Allocated(tcp)
    /\ refs' = [refs EXCEPT ![opened + 1] = 1]
    /\ table' = [table EXCEPT ![Lowest(table)] = opened + 1]
    /\ opened' = opened + 1
    /\ UNCHANGED <<hollow, spoilt>>

(* The descriptor is not looked at: around the -1 of an accept() that      *)
(* failed (service.hpp listen) an object is connected and counted, too.    *)
ConstructAroundNone(o, tcp) ==
    /\ ~Live(o) /\ opened < MaxSockets
    /\ obj' = [obj EXCEPT ![o] = Connected(None, tcp, None)]
    /\ buffers' = buffers \cup Allocated(tcp)
    /\ refs' = [refs EXCEPT ![opened + 1] = 1]
    /\ opened' = opened + 1
    /\ hollow' = hollow \cup {opened + 1}
    /\ UNCHANGED <<table, spoilt>>

(* Mutant of CopyConstruct: the counter is left alone. *)
CopyUncounted(o, p) ==
    /\ ~Live(o) /\ Works(p)
    /\ obj' = [obj EXCEPT ![o] = obj[p]]
    /\ UNCHANGED <<refs, table, buffers, opened, hollow, spoilt>>

CopyConstruct(o, p) ==
    /\ ~Live(o) /\ Works(p)
    /\ obj' = [obj EXCEPT ![o] = obj[p]]
    /\ refs' = IF obj[p].conn THEN [refs EXCEPT ![obj[p].refs] = @ + 1] ELSE refs
    /\ UNCHANGED <<table, buffers, opened, hollow, spoilt>>

Destroy(o) ==
    /\ Works(o)
    /\ refs' = RefsLeft(o)
    /\ table' = TableLeft(o)
    /\ buffers' = BuffersLeft(o)
    /\ obj' = [obj EXCEPT ![o] = NoObject]
    /\ UNCHANGED <<opened, hollow, spoilt>>

(* o = p; after check_close() the fields are copied, and p may be o. *)
Assign(o, p) ==
    /\ Works(o) /\ Live(p)
    /\ LET source == IF p = o THEN ObjectLeft(o) ELSE obj[p]
           left == RefsLeft(o)
       IN /\ source.conn => left[source.refs] # None
          /\ obj' = [obj EXCEPT ![o] = source]
          /\ refs' = IF source.conn THEN [left EXCEPT ![source.refs] = @ + 1] ELSE left
    /\ table' = TableLeft(o)
    /\ buffers' = BuffersLeft(o)
    /\ UNCHANGED <<opened, hollow, spoilt>>

(* An object that shared a UDP socket and connects over TCP keeps the      *)
(* buffer of the others, which will be deleted twice.                      *)
Connect(o, tcp) ==
    /\ Works(o) /\ Room(TableLeft(o))
    /\ obj' = [obj EXCEPT ![o] = Connected(Lowest(TableLeft(o)), tcp, ObjectLeft(o).src)]
    /\ buffers' = BuffersLeft(o) \cup Allocated(tcp)
    /\ spoilt' = (tcp /\ ObjectLeft(o).conn /\ ObjectLeft(o).src # None)
    /\ refs' = [RefsLeft(o) EXCEPT ![opened + 1] = 1]
    /\ table' = [TableLeft(o) EXCEPT ![Lowest(TableLeft(o))] = opened + 1]
    /\ opened' = opened + 1
    /\ UNCHANGED hollow

(* Mutant of ConnectFails: check_close() is not called. *)
ConnectForgets(o) ==
    /\ Works(o)
    /\ obj' = [obj EXCEPT ![o] = [Unconnected EXCEPT !.fd = Tried(table)]]
    /\ UNCHANGED <<refs, table, buffers, opened, hollow, spoilt>>

(* Every address was tried and closed again: _fd is the last descriptor    *)
(* tried, the other fields are as check_close() left them, and connect()   *)
(* throws.  An object that shared its socket is then no longer counted,    *)
(* but still connected.                                                    *)
ConnectFails(o) ==
    /\ Works(o)
    /\ spoilt' = ObjectLeft(o).conn
    /\ obj' = [obj EXCEPT ![o] = [ObjectLeft(o) EXCEPT !.fd = Tried(TableLeft(o))]]
    /\ refs' = RefsLeft(o)
    /\ table' = TableLeft(o)
    /\ buffers' = BuffersLeft(o)
    /\ UNCHANGED <<opened, hollow>>

(* getaddrinfo() failed and left `servers' as it was, uninitialised: NULL, *)
(* and connect() throws without having tried anything, or garbage, along   *)
(* which the loop runs.                                                    *)
ConnectUnresolved(o) ==
    /\ Works(o)
    /\ \E garbage \in BOOLEAN : spoilt' = (garbage \/ ObjectLeft(o).conn)
    /\ obj' = [obj EXCEPT ![o] = ObjectLeft(o)]
    /\ refs' = RefsLeft(o)
    /\ table' = TableLeft(o)
    /\ buffers' = BuffersLeft(o)
    /\ UNCHANGED <<opened, hollow>>

(* From then on a counter or a buffer may be deleted twice, which is       *)
(* undefined and not modelled.                                             *)
Next == /\ ~spoilt
        /\ \E o \in Objects :
            \/ Construct(o) \/ Destroy(o) \/ ConnectFails(o) \/ ConnectUnresolved(o)
            \/ \E tcp \in BOOLEAN :
                  ConstructConnected(o, tcp) \/ ConstructAroundNone(o, tcp) \/ Connect(o, tcp)
            \/ \E p \in Objects : CopyConstruct(o, p) \/ Assign(o, p)

Spec == Init /\ [][Next]_vars
-----------------------------------------------------------------------------
Users(k) == {o \in Objects : obj[o].conn /\ obj[o].refs = k}

(* The counter of a socket is the number of objects that use it, through   *)
(* every sequence of copies, assignments (of an object to itself, too),    *)
(* connects and destructions: none is used after its deletion.  Only       *)
(* connect() breaks it, when it fails on an object that shares, or leaves  *)
(* UDP for TCP there, or follows the garbage of a failed getaddrinfo().    *)
RefsExact == spoilt \/ \A k \in Sockets : refs[k] = Cardinality(Users(k))

(* A connected object's descriptor is its own socket and not one that got  *)
(* the number later, or -1 from the start: no reuse of a number, and no    *)
(* close(), reaches an object around -1.  It sends to its own socket's     *)
(* address or to none, and the buffers allocated are those of the          *)
(* connected objects: none is deleted twice or lost.  What breaks          *)
(* RefsExact breaks it, too.                                               *)
SrcIsOwn ==
    spoilt \/
    /\ \A o \in Objects : obj[o].conn =>
          /\ IF obj[o].refs \in hollow THEN obj[o].fd = None
             ELSE obj[o].fd # None /\ table[obj[o].fd] = obj[o].refs
          /\ obj[o].src \in {None, obj[o].refs}
    /\ buffers = {obj[o].src : o \in {p \in Objects : obj[p].conn}} \ {None}

(* check_close() is to close a socket exactly when its last user lets go   *)
(* (socket.cpp:200-203): the class implements SharedDescriptor, where an   *)
(* object around -1 holds nothing.                                         *)
Holds(o) == IF obj[o].conn /\ obj[o].refs \notin hollow THEN obj[o].refs ELSE None
Shared == INSTANCE SharedDescriptor
    WITH held <- [o \in Objects |-> Holds(o)],
         open <- {table[f] : f \in Fds} \ {None}
SharesDescriptors == Shared!Spec
=============================================================================
