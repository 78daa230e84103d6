---------------------------- MODULE SteppingStone ----------------------------
(***************************************************************************)
(* proj2: awget (awget.c) asks for a file through a chain of stepping      *)
(* stones (ss.c).  Whoever holds the list of stones left picks one at      *)
(* random, connects to it, sends it the rest of the list, and waits for    *)
(* the file; the stone that gets an empty list fetches the file with wget. *)
(*                                                                         *)
(* Node <<q, 0>> is the awget process of request q, node <<q, k>> the      *)
(* thread that the k-th stone of its route runs for it; link <<q, k>> is   *)
(* the TCP connection from node <<q, k-1>> to node <<q, k>>.  awget's      *)
(* main() and curr_ss() do the same until the file comes, and share their  *)
(* actions here.                                                           *)
(***************************************************************************)
EXTENDS Integers, Sequences, FiniteSets, Functions

CONSTANTS
    Stones,          \* ss processes
    NoStone,
    Requests,        \* runs of awget
    Settings,        \* what may be asked for, and what may go wrong
    Running,         \* the stones that run at the start
    Dir,             \* Dir[s]: the working directory of s
    NoFile,
    Junk,            \* a list element that was not received, or not whole
    Part,            \* what recv() left of a list element
    MaxHops,         \* the longest chain
    MaxFd            \* descriptors are 1 .. MaxFd

(* In a setting, chain[q] is the list in the file q reads, size[q] the     *)
(* parts of the file it asks for, crashes bounds the processes that are    *)
(* killed from outside, and whole says whether recv() returns list         *)
(* elements whole.                                                         *)
ASSUME SettingAssumption ==
    /\ MaxHops \in Nat /\ MaxFd \in Nat
    /\ \A x \in Settings :
          /\ x.crashes \in Nat /\ x.whole \in BOOLEAN
          /\ \A q \in Requests : /\ x.chain[q] \in Seq(Stones)
                                 /\ Len(x.chain[q]) \in 1 .. MaxHops
                                 /\ x.size[q] \in Nat
    /\ Running \subseteq Stones
    /\ {Junk, Part, NoStone} \cap Stones = {} /\ Junk # Part

(* No stone runs out of descriptors: a thread takes two at most. *)
ASSUME DescriptorsAssumption ==
    IsFiniteSet(Requests) /\ 2 * MaxHops * Cardinality(Requests) <= MaxFd

Nodes == Requests \X (0 .. MaxHops)
Prev(n) == <<n[1], n[2] - 1>>
Succ(n) == <<n[1], n[2] + 1>>
IsAwget(n) == n[2] = 0

VARIABLES
    setting,
    up,              \* stones running
    pc,              \* what each node does
    at,              \* the stone a node runs on
    list,            \* the list elements it has
    size,            \* list_h.l_size, as received
    todo,            \* what it still has to send
    left,            \* what is left of f_size in the receive loop
    down, back,      \* per link: messages on their way to and from the stone
    reqShut, srvShut,\* links whose requester, whose stone, closed its end
    s, fd,           \* the descriptors of its two sockets, or socket and file
    held,            \* held[t]: descriptors open in the process of stone t
    tmp,             \* the files file_<s>.tmp of each directory
    saved,           \* what awget wrote to foo
    crashes

vars == <<setting, up, pc, at, list, size, todo, left, down, back, reqShut, srvShut,
          s, fd, held, tmp, saved, crashes>>
links == <<down, back>>
shut == <<reqShut, srvShut>>
fds == <<s, fd, held>>
reading == <<at, list, size>>

Ended == {"received", "done", "failed", "killed"}
PC == {"none", "backlog", "header", "list", "dial", "send", "reply", "relay",
       "forward", "fetch", "open", "serve", "close", "spin"} \cup Ended

File(q) == [i \in 1 .. setting.size[q] |-> <<q, i>>]

(* Mutant of Name: the descriptor is not part of it. *)
NameForAll(n) == <<Dir[at[n]], 1>>
Name(n) == <<Dir[at[n]], s[n]>>
Without(l, i) == SubSeq(l, 1, i - 1) \o SubSeq(l, i + 1, Len(l))

Init ==
    /\ setting \in Settings
    /\ up = Running
    /\ pc = [n \in Nodes |-> IF IsAwget(n) THEN "dial" ELSE "none"]
    /\ at = [n \in Nodes |-> NoStone]
    /\ list = [n \in Nodes |-> IF IsAwget(n) THEN setting.chain[n[1]] ELSE <<>>]
    /\ size = [n \in Nodes |-> 0]
    /\ todo = [n \in Nodes |-> <<>>]
    /\ left = [n \in Nodes |-> 0]
    /\ down = [n \in Nodes |-> <<>>]
    /\ back = [n \in Nodes |-> <<>>]
    /\ reqShut = {} /\ srvShut = {}
    /\ s = [n \in Nodes |-> 0]
    /\ fd = [n \in Nodes |-> 0]
    /\ held = [t \in Stones |-> {}]
    /\ tmp = [f \in {Dir[t] : t \in Stones} \X (1 .. MaxFd) |-> NoFile]
    /\ saved = [q \in Requests |-> <<>>]
    /\ crashes = 0
-----------------------------------------------------------------------------
(* The kernel gives the lowest descriptor that is free. *)
LowestFree(t) == CHOOSE i \in 1 .. MaxFd :
                    i \notin held[t] /\ \A j \in 1 .. (i - 1) : j \in held[t]

HoldOne(n) == IF IsAwget(n) THEN held
              ELSE [held EXCEPT ![at[n]] = @ \cup {LowestFree(at[n])}]
Free(n, ds) == IF IsAwget(n) THEN held ELSE [held EXCEPT ![at[n]] = @ \ ds]

(* A node ends and closes both of its connections (exit of awget,          *)
(* dump_two, the end of connection()).                                     *)
End(n, how) ==
    /\ pc' = [pc EXCEPT ![n] = how]
    /\ srvShut' = srvShut \cup {n}
    /\ reqShut' = reqShut \cup {Succ(n)}
    /\ held' = Free(n, {s[n], fd[n]})

(* It ends and closes s only (dump_one, and an error in last_ss).          *)
EndKeeping(n, extra) ==
    /\ pc' = [pc EXCEPT ![n] = "failed"]
    /\ srvShut' = srvShut \cup {n}
    /\ reqShut' = IF IsAwget(n) THEN reqShut \cup {Succ(n)} ELSE reqShut
    /\ held' = IF IsAwget(n) THEN held
               ELSE [held EXCEPT ![at[n]] = (@ \cup extra) \ {s[n]}]

(* A process dies: every thread of the stone, and every connection it has. *)
Threads(n) == IF IsAwget(n) THEN {n} ELSE {m \in Nodes : at[m] = at[n]}
Alive(n) == pc[n] \notin Ended \cup {"none"}
Kill(n) ==
    LET dead == {m \in Threads(n) : Alive(m)}
    IN /\ pc' = [m \in Nodes |-> IF m \in dead THEN "killed" ELSE pc[m]]
       /\ srvShut' = srvShut \cup Threads(n)
       /\ reqShut' = reqShut \cup {Succ(m) : m \in Threads(n)}
       /\ up' = up \ {at[n]}
       /\ UNCHANGED <<setting, reading, todo, left, links, fds, tmp, saved>>

Crash(n) ==
    /\ crashes < setting.crashes
    /\ Alive(n)
    /\ crashes' = crashes + 1
    /\ Kill(n)
-----------------------------------------------------------------------------
(* What awget's main() and curr_ss() do to find the next stone.            *)

(* Mutant of RestOfList: the stone that was picked stays in the list. *)
RestKeepsIt(n, i) == SubSeq(list[n], 1, Len(list[n]) - 1)
RestOfList(n, i) == Without(list[n], i)

(* What was received of an element, or was on the stack before, may be the *)
(* name of any stone.                                                      *)
Names(element) == IF element = Junk THEN Stones ELSE {element}

Connect(n) ==
    /\ pc[n] = "dial"
    /\ \E i \in 1 .. Len(list[n]) : \E t \in up \cap Names(list[n][i]) :
          /\ at' = [at EXCEPT ![Succ(n)] = t]
          /\ todo' = [todo EXCEPT ![n] = <<Len(list[n]) - 1>> \o RestOfList(n, i)]
    /\ pc' = [pc EXCEPT ![n] = "send", ![Succ(n)] = "backlog"]
    /\ fd' = [fd EXCEPT ![n] = IF IsAwget(n) THEN 0 ELSE LowestFree(at[n])]
    /\ held' = HoldOne(n)
    /\ UNCHANGED <<setting, up, list, size, left, links, shut, s, tmp, saved, crashes>>

(* Mutant of Refused: close(s) is missing. *)
RefusedOpen(n) ==
    /\ pc[n] = "dial"
    /\ \E i \in 1 .. Len(list[n]) : list[n][i] \notin up
    /\ pc' = [pc EXCEPT ![n] = "failed"]
    /\ UNCHANGED <<setting, up, reading, todo, left, links, shut, fds, tmp, saved, crashes>>

(* next_ss() fails, and never closes the socket it made. *)
Refused(n) ==
    /\ pc[n] = "dial"
    /\ \E i \in 1 .. Len(list[n]) : list[n][i] \notin up
    /\ EndKeeping(n, IF IsAwget(n) THEN {} ELSE {LowestFree(at[n])})
    /\ UNCHANGED <<setting, up, reading, todo, left, links, s, fd, tmp, saved, crashes>>

(* What was received of an element may also name nothing.  The result of   *)
(* getaddrinfo() is tested against -1 only, so servs is then used          *)
(* uninitialised: the process dies of it, or finds no address, and fails   *)
(* without having made a socket.                                           *)
DialsJunk(n) == pc[n] = "dial" /\ Junk \in Range(list[n])

ConnectJunk(n) ==
    /\ DialsJunk(n)
    /\ Kill(n)
    /\ UNCHANGED crashes

LookupFails(n) ==
    /\ DialsJunk(n)
    /\ EndKeeping(n, {})
    /\ UNCHANGED <<setting, up, reading, todo, left, links, s, fd, tmp, saved, crashes>>

(* Send the header and the other elements; to a connection that the stone  *)
(* closed, a send is lost ...                                              *)
SendList(n) ==
    /\ pc[n] = "send"
    /\ down' = IF Succ(n) \in srvShut THEN down
               ELSE [down EXCEPT ![Succ(n)] = Append(@, Head(todo[n]))]
    /\ todo' = [todo EXCEPT ![n] = Tail(@)]
    /\ pc' = [pc EXCEPT ![n] = IF Len(todo[n]) = 1 THEN "reply" ELSE "send"]
    /\ UNCHANGED <<setting, up, reading, left, back, shut, fds, tmp, saved, crashes>>

(* ... or, once the other side has reset it, raises SIGPIPE or returns -1. *)
SendsDown(n) == pc[n] = "send" /\ Succ(n) \in srvShut
SendsBack(n) == pc[n] \in {"forward", "serve"} /\ todo[n] # <<>> /\ n \in reqShut

SigPipe(n) ==
    /\ SendsDown(n) \/ SendsBack(n)
    /\ Kill(n)
    /\ UNCHANGED crashes

(* last_ss() then returns with its file open and on the disk. *)
SendFails(n) ==
    /\ SendsDown(n) \/ SendsBack(n)
    /\ IF pc[n] = "serve" THEN EndKeeping(n, {}) ELSE End(n, "failed")
    /\ UNCHANGED <<setting, up, reading, todo, left, links, s, fd, tmp, saved, crashes>>
-----------------------------------------------------------------------------
(* server() and connection(): accept, read the header and the list. *)
Accept(n) ==
    /\ pc[n] = "backlog"
    /\ pc' = [pc EXCEPT ![n] = "header"]
    /\ s' = [s EXCEPT ![n] = LowestFree(at[n])]
    /\ held' = HoldOne(n)
    /\ UNCHANGED <<setting, up, reading, todo, left, links, shut, fd, tmp, saved, crashes>>

(* Mutant of RecvHeader: an empty list is not told apart. *)
RecvHeaderOnly(n) ==
    /\ pc[n] = "header" /\ down[n] # <<>>
    /\ size' = [size EXCEPT ![n] = Head(down[n])]
    /\ down' = [down EXCEPT ![n] = Tail(@)]
    /\ pc' = [pc EXCEPT ![n] = "list"]
    /\ UNCHANGED <<setting, up, at, list, todo, left, back, shut, fds, tmp, saved, crashes>>

RecvHeader(n) ==
    /\ pc[n] = "header" /\ down[n] # <<>>
    /\ size' = [size EXCEPT ![n] = Head(down[n])]
    /\ down' = [down EXCEPT ![n] = Tail(@)]
    /\ pc' = [pc EXCEPT ![n] = IF Head(down[n]) = 0 THEN "fetch" ELSE "list"]
    /\ UNCHANGED <<setting, up, at, list, todo, left, back, shut, fds, tmp, saved, crashes>>

(* recv() returns 0 at the end of the stream: no progress, no error. *)
AtEnd(n) == down[n] = <<>> /\ n \in reqShut

SpinHeader(n) ==
    /\ pc[n] = "header" /\ AtEnd(n)
    /\ pc' = [pc EXCEPT ![n] = "spin"]
    /\ UNCHANGED <<setting, up, reading, todo, left, links, shut, fds, tmp, saved, crashes>>

(* What one recv() of a list element takes: the element; a part of it,     *)
(* whether or not the rest has come; what was left of the one before, with *)
(* or without the beginning of the next; or nothing, at the end.           *)
Receipts(n) ==
    LET l == down[n]
        Took(element, rest) == [element |-> element, rest |-> rest]
    IN CASE l = <<>> /\ n \notin reqShut -> {}
         [] l = <<>> /\ n \in reqShut -> {Took(Junk, <<>>)}
         [] l # <<>> /\ l[1] = Part ->
               {Took(Junk, Tail(l))}
               \cup {Took(Junk, <<Part>> \o SubSeq(l, k, Len(l))) : k \in {3} \cap 1 .. Len(l) + 1}
         [] OTHER ->
               {Took(l[1], Tail(l))}
               \cup {Took(Junk, <<Part>> \o Tail(l)) : w \in {FALSE} \cap {setting.whole}}

(* Every receipt counts as an element. *)
RecvElement(n) ==
    /\ pc[n] = "list"
    /\ \E r \in Receipts(n) :
          /\ list' = [list EXCEPT ![n] = Append(@, r.element)]
          /\ down' = [down EXCEPT ![n] = r.rest]
    /\ pc' = [pc EXCEPT ![n] = IF Len(list[n]) + 1 = size[n] THEN "dial" ELSE "list"]
    /\ UNCHANGED <<setting, up, at, size, todo, left, back, shut, fds, tmp, saved, crashes>>

(* A connection whose other process was killed may be reset instead, and   *)
(* one that the other side closed with something unread is.                *)
RecvReset(n) ==
    /\ \/ pc[n] \in {"header", "list"} /\ pc[Prev(n)] = "killed"
       \/ /\ pc[n] \in {"reply", "relay"}
          /\ pc[Succ(n)] = "killed" \/ (Succ(n) \in srvShut /\ down[Succ(n)] # <<>>)
    /\ End(n, "failed")
    /\ UNCHANGED <<setting, up, reading, todo, left, links, s, fd, tmp, saved, crashes>>
-----------------------------------------------------------------------------
(* The way back of awget's main() and of curr_ss(). *)

(* What recv() put into the file header: f_size, or anything that was on   *)
(* the stack when the stream has ended.                                    *)
Replies(n) ==
    LET m == Succ(n)
    IN CASE back[m] # <<>>   -> {Head(back[m])}
         [] back[m] = <<>> /\ m \in srvShut -> {0, 1}
         [] OTHER            -> {}

TakeBack(n) == back' = IF back[Succ(n)] = <<>> THEN back
                       ELSE [back EXCEPT ![Succ(n)] = Tail(@)]

(* Without the forwarding, awget is done when nothing is left. *)
RecvReply(n) ==
    /\ pc[n] = "reply"
    /\ \E f_size \in Replies(n) :
          /\ left' = [left EXCEPT ![n] = f_size]
          /\ IF IsAwget(n)
             THEN /\ todo' = todo
                  /\ IF f_size = 0 THEN End(n, "received")
                     ELSE /\ pc' = [pc EXCEPT ![n] = "relay"]
                          /\ UNCHANGED <<shut, held>>
             ELSE /\ todo' = [todo EXCEPT ![n] = <<f_size>>]
                  /\ pc' = [pc EXCEPT ![n] = "forward"]
                  /\ UNCHANGED <<shut, held>>
    /\ TakeBack(n)
    /\ UNCHANGED <<setting, up, reading, down, s, fd, tmp, saved, crashes>>

RecvData(n) ==
    /\ pc[n] = "relay" /\ back[Succ(n)] # <<>>
    /\ left' = [left EXCEPT ![n] = @ - 1]
    /\ IF IsAwget(n)
       THEN /\ saved' = [saved EXCEPT ![n[1]] = Append(@, Head(back[Succ(n)]))]
            /\ todo' = todo
            /\ IF left[n] = 1 THEN End(n, "received")
               ELSE UNCHANGED <<pc, shut, held>>
       ELSE /\ todo' = [todo EXCEPT ![n] = <<Head(back[Succ(n)])>>]
            /\ pc' = [pc EXCEPT ![n] = "forward"]
            /\ UNCHANGED <<saved, shut, held>>
    /\ TakeBack(n)
    /\ UNCHANGED <<setting, up, reading, down, s, fd, tmp, crashes>>

SpinRelay(n) ==
    /\ pc[n] = "relay" /\ back[Succ(n)] = <<>> /\ Succ(n) \in srvShut
    /\ pc' = [pc EXCEPT ![n] = "spin"]
    /\ UNCHANGED <<setting, up, reading, todo, left, links, shut, fds, tmp, saved, crashes>>

(* Mutant of SendBack: the loop of curr_ss() goes on to i <= f_size. *)
SendBackOneMore(n) ==
    /\ pc[n] \in {"forward", "serve"} /\ todo[n] # <<>>
    /\ back' = [back EXCEPT ![n] = Append(@, Head(todo[n]))]
    /\ todo' = [todo EXCEPT ![n] = Tail(@)]
    /\ pc' = [pc EXCEPT ![n] = IF @ = "serve" THEN "serve" ELSE "relay"]
    /\ UNCHANGED <<setting, up, reading, left, down, shut, fds, tmp, saved, crashes>>

(* send() to the requester, of curr_ss() and of last_ss() *)
SendBack(n) ==
    /\ pc[n] \in {"forward", "serve"} /\ todo[n] # <<>>
    /\ back' = IF n \in reqShut THEN back
               ELSE [back EXCEPT ![n] = Append(@, Head(todo[n]))]
    /\ todo' = [todo EXCEPT ![n] = Tail(@)]
    /\ pc' = [pc EXCEPT ![n] = IF @ = "serve" THEN "serve"
                               ELSE IF left[n] = 0 THEN "close" ELSE "relay"]
    /\ UNCHANGED <<setting, up, reading, left, down, shut, fds, tmp, saved, crashes>>
-----------------------------------------------------------------------------
(* last_ss() *)
Fetch(n) ==
    /\ pc[n] = "fetch"
    /\ tmp' = [tmp EXCEPT ![Name(n)] = File(n[1])]
    /\ pc' = [pc EXCEPT ![n] = "open"]
    /\ UNCHANGED <<setting, up, reading, todo, left, links, shut, fds, saved, crashes>>

Open(n) ==
    /\ pc[n] = "open"
    /\ tmp[Name(n)] # NoFile /\ tmp[Name(n)] # <<>>
    /\ todo' = [todo EXCEPT ![n] = <<Len(tmp[Name(n)])>> \o tmp[Name(n)]]
    /\ fd' = [fd EXCEPT ![n] = LowestFree(at[n])]
    /\ held' = HoldOne(n)
    /\ pc' = [pc EXCEPT ![n] = "serve"]
    /\ UNCHANGED <<setting, up, reading, left, links, shut, s, tmp, saved, crashes>>

(* There is no file, or mmap() fails because it is empty: the function     *)
(* returns, in the second case with the file open and undeleted.           *)
CannotServe(n) ==
    /\ pc[n] = "open"
    /\ tmp[Name(n)] = NoFile \/ tmp[Name(n)] = <<>>
    /\ EndKeeping(n, IF tmp[Name(n)] = NoFile THEN {} ELSE {LowestFree(at[n])})
    /\ UNCHANGED <<setting, up, reading, todo, left, links, s, fd, tmp, saved, crashes>>

Clean(n) ==
    /\ pc[n] = "serve" /\ todo[n] = <<>>
    /\ tmp' = [tmp EXCEPT ![Name(n)] = NoFile]
    /\ held' = Free(n, {fd[n]})
    /\ fd' = [fd EXCEPT ![n] = 0]
    /\ pc' = [pc EXCEPT ![n] = "close"]
    /\ UNCHANGED <<setting, up, reading, todo, left, links, shut, s, saved, crashes>>

(* the end of curr_ss() and of connection() *)
Close(n) ==
    /\ pc[n] = "close"
    /\ End(n, "done")
    /\ UNCHANGED <<setting, up, reading, todo, left, links, s, fd, tmp, saved, crashes>>
-----------------------------------------------------------------------------
Step(n) ==
    \/ Connect(n) \/ Refused(n) \/ ConnectJunk(n) \/ LookupFails(n)
    \/ SendList(n) \/ SigPipe(n) \/ SendFails(n)
    \/ Accept(n) \/ RecvHeader(n) \/ SpinHeader(n) \/ RecvElement(n) \/ RecvReset(n)
    \/ RecvReply(n) \/ RecvData(n) \/ SpinRelay(n) \/ SendBack(n)
    \/ Fetch(n) \/ Open(n) \/ CannotServe(n) \/ Clean(n) \/ Close(n)

Next == \E n \in Nodes : Step(n) \/ Crash(n)

(* Every process is scheduled, wget ends and TCP delivers; nobody crashes  *)
(* by necessity.                                                           *)
Spec == Init /\ [][Next]_vars /\ \A n \in Nodes : WF_vars(Step(n))
-----------------------------------------------------------------------------
Visited(n) == [k \in 1 .. n[2] |-> at[<<n[1], k>>]]
Count(l, t) == Cardinality({i \in 1 .. Len(l) : l[i] = t})
HasList(n) == pc[n] \in {"dial", "send", "reply", "relay", "forward",
                         "fetch", "open", "serve", "close", "done"}

(* A route never goes round in circles: a node and the list it has read    *)
(* count as many stones as the chain awget's file names, and they are      *)
(* those stones, each as often as it was listed, unless a list of the      *)
(* route so far had an element that was not received whole, whatever that  *)
(* element led to.                                                         *)
RouteIsTheChain ==
    \A n \in Nodes : HasList(n) =>
        /\ n[2] + Len(list[n]) = Len(setting.chain[n[1]])
        /\ \/ \E k \in 0 .. n[2] : Junk \in Range(list[<<n[1], k>>])
           \/ \A t \in Stones :
                 Count(Visited(n), t) + Count(list[n], t) = Count(setting.chain[n[1]], t)

(* When awget says it received the file, it has the file it asked for, or  *)
(* a node of its route failed: two requests never get each other's file,   *)
(* and no part is lost, repeated or reordered on the way.                  *)
RouteOf(q) == {<<q, k>> : k \in 1 .. MaxHops}
FileIsTheOneAskedFor ==
    \A q \in Requests :
        pc[<<q, 0>>] = "received" =>
            saved[q] = File(q) \/ \E n \in RouteOf(q) : pc[n] \in {"failed", "killed"}

(* Without crashes, with stones that all run, list elements received whole *)
(* and files that are not empty, awget receives its file and every thread  *)
(* ends.                                                                   *)
Healthy == /\ crashes = 0 /\ setting.whole
           /\ \A q \in Requests : setting.size[q] > 0 /\ Range(setting.chain[q]) \subseteq Running
EveryRequestServed ==
    <>(Healthy => \A q \in Requests : saved[q] = File(q) /\ pc[<<q, 0>>] = "received")
EveryThreadEnds == []<>(Healthy => \A n \in Nodes : pc[n] \in Ended \cup {"none"})

(* Whatever crashes or comes in parts, awget does not wait for ever for a  *)
(* stone that has gone: it ends, or it or a stone of its route spins at    *)
(* the end of a stream.                                                    *)
AnsweredOrSpinning ==
    \A q \in Requests :
        <>(pc[<<q, 0>>] \in Ended \/ \E n \in RouteOf(q) \cup {<<q, 0>>} : pc[n] = "spin")

=============================================================================
