------------------------------ MODULE Resolver ------------------------------
(***************************************************************************)
(* proj3/myresolver.cpp: attempt() walks from the root servers down the    *)
(* delegations of DNS.  It asks a random server of its list; a referral is *)
(* a list for a recursive call, any other reply that does not end the      *)
(* program drops the server.  The bytes of a packet are abstracted to what *)
(* parse() makes of them.                                                  *)
(***************************************************************************)
EXTENDS Integers, Sequences, FiniteSets

CONSTANTS
    Servers,      \* name servers, each with its one address
    hostServers,  \* the list of root servers
    Replies       \* what a server may reply: see Kinds

(* A referral has the servers of the additional section that have an IPv4  *)
(* address.  "other" is every RCODE, or combination of RCODE, AA and       *)
(* ANCOUNT, for which parse() returns an empty list, "silent" a server     *)
(* whose datagrams, or ours to it, are lost.                               *)
Kinds == {"answer", "referral", "no such name", "format", "other", "silent"}

ASSUME ServersAssumption == hostServers \in Seq(Servers) /\ hostServers # <<>>
ASSUME RepliesAssumption ==
    \A r \in Replies : r.kind \in Kinds /\ r.list \in Seq(Servers)

VARIABLES
    reply,        \* what each server replies to our question
    frames,       \* the activations of attempt(), the innermost last
    stack,        \* the servers on the way down to here
    waiting,      \* the innermost one is in recv()
    misread,      \* history: a reply was parsed at a wrong offset
    outcome       \* how the program ended

vars == <<reply, frames, stack, waiting, misread, outcome>>

Outcomes == {"running", "found", "garbled", "no such name", "no record",
             "fatal", "crashed"}

(* dnsPacket is local to attempt() and never cleared: `packets' is how     *)
(* many queries are in it, 2 for more than one.                            *)
Activation(l) == [servers |-> l, srvNum |-> 1, packets |-> 0]

Init ==
    /\ reply \in [Servers -> Replies]
    /\ frames = <<Activation(hostServers)>>
    /\ stack = <<>>
    /\ waiting = FALSE
    /\ misread = FALSE
    /\ outcome = "running"

Depth == Len(frames)
Top == frames[Depth]
Asked == Top.servers[Top.srvNum]
Without(l, i) == SubSeq(l, 1, i - 1) \o SubSeq(l, i + 1, Len(l))
OnStack(x) == \E i \in 1 .. Len(stack) : stack[i] = x
Picking == outcome = "running" /\ ~waiting

(* A server that was asked further up is dropped: std::find() finds the    *)
(* first that equals it.                                                   *)
Drop ==
    /\ Picking
    /\ \E i \in 1 .. Len(Top.servers) :
          /\ OnStack(Top.servers[i])
          /\ \A k \in 1 .. (i - 1) : Top.servers[k] # Top.servers[i]
          /\ frames' = [frames EXCEPT ![Depth].servers = Without(@, i)]
    /\ UNCHANGED <<reply, stack, waiting, misread, outcome>>

Ask ==
    /\ Picking
    /\ \E i \in 1 .. Len(Top.servers) :
          /\ ~OnStack(Top.servers[i])
          /\ frames' = [frames EXCEPT ![Depth].srvNum = i, ![Depth].packets = IF @ = 0 THEN 1 ELSE 2]
          /\ stack' = Append(stack, Top.servers[i])
    /\ waiting' = TRUE
    /\ UNCHANGED <<reply, misread, outcome>>

(* recv() returned.  A packet that holds more than one query may be        *)
(* refused as malformed.                                                   *)
Received ==
    {reply[Asked].kind} \cup (IF Top.packets > 1 THEN {"format"} ELSE {})
Arrives(kind) ==
    /\ outcome = "running" /\ waiting
    /\ reply[Asked].kind # "silent"
    /\ kind \in Received

Finish(how) == outcome' = how /\ UNCHANGED <<reply, frames, stack, waiting>>

(* sendOut() ends the program when one of its calls fails: no descriptor   *)
(* is left (it closes none), or an ICMP message says that nobody listens.  *)
SendOutFails ==
    /\ outcome = "running" /\ waiting
    /\ Finish("fatal")
    /\ UNCHANGED misread

(* successParse() and nextParse() start at numbytes, which is right only   *)
(* for the first query of the packet: otherwise they read somewhere else.  *)
Misplaced == Top.packets > 1

(* parseRRSIG() takes for granted that a signature follows the first       *)
(* record: substr() beyond the end throws.                                 *)
Answer ==
    /\ Arrives("answer")
    /\ misread' = (misread \/ Misplaced)
    /\ \/ Finish(IF Misplaced THEN "garbled" ELSE "found")
       \/ Finish("crashed")

NoSuchName == Arrives("no such name") /\ Finish("no such name") /\ UNCHANGED misread
FormatError == Arrives("format") /\ Finish("fatal") /\ UNCHANGED misread

(* Mutants of NextServer: pop_back() without erase(), and the reverse. *)
NextServerStays ==
    /\ stack' = SubSeq(stack, 1, Len(stack) - 1)
    /\ waiting' = FALSE
    /\ UNCHANGED <<reply, frames, outcome>>
NextServerKeeps ==
    /\ frames' = [frames EXCEPT ![Depth].servers = Without(@, Top.srvNum)]
    /\ waiting' = FALSE
    /\ UNCHANGED <<reply, stack, outcome>>

NextServer ==
    /\ frames' = [frames EXCEPT ![Depth].servers = Without(@, Top.srvNum)]
    /\ stack' = SubSeq(stack, 1, Len(stack) - 1)
    /\ waiting' = FALSE
    /\ UNCHANGED <<reply, outcome>>

Recurse(l) ==
    /\ l # <<>>
    /\ frames' = Append(frames, Activation(l))
    /\ waiting' = FALSE
    /\ UNCHANGED <<reply, stack, outcome>>

Other == Arrives("other") /\ NextServer /\ UNCHANGED misread

(* Mutant of Lists: the list of the caller goes on being used. *)
ListsOfCaller == {Without(Top.servers, Top.srvNum)}

(* The list that nextParse() returns; one that was misread may hold        *)
(* anything, here at most one server.                                      *)
Lists == IF Misplaced THEN {<<>>} \cup {<<x>> : x \in Servers} ELSE {reply[Asked].list}

Referral ==
    /\ Arrives("referral")
    /\ misread' = (misread \/ Misplaced)
    /\ \/ \E l \in Lists : Recurse(l) \/ (l = <<>> /\ NextServer)
       \/ Misplaced /\ Finish("crashed")

(* The list is empty: the program ends, in whatever activation it is, so   *)
(* a call of attempt() never returns.                                      *)
GiveUp ==
    /\ Picking
    /\ Top.servers = <<>>
    /\ Finish("no record")
    /\ UNCHANGED misread

(* No call of sendOut() fails by necessity. *)
Walk == Drop \/ Ask \/ Answer \/ NoSuchName \/ FormatError \/ Other \/ Referral \/ GiveUp
Next == Walk \/ SendOutFails

Spec == Init /\ [][Next]_vars /\ WF_vars(Walk)
-----------------------------------------------------------------------------
TypeOK ==
    /\ \A i \in 1 .. Depth : /\ frames[i].servers \in Seq(Servers)
                             /\ frames[i].packets \in 0 .. 2
    /\ stack \in Seq(Servers)
    /\ outcome \in Outcomes
    /\ waiting => Top.srvNum \in 1 .. Len(Top.servers)

(* The stack is the path of the recursion: one server for each activation  *)
(* above, the one it asked, and no server twice.                           *)
StackIsThePath ==
    /\ Len(stack) = IF waiting THEN Depth ELSE Depth - 1
    /\ \A i \in 1 .. Len(stack) : stack[i] = frames[i].servers[frames[i].srvNum]
    /\ \A i, j \in 1 .. Len(stack) : stack[i] = stack[j] => i = j

(* As long as no reply was misread, the path goes from a root server down  *)
(* delegations, each given by the server before, and an answer that was    *)
(* found is that of the last server on it.                                 *)
In(x, l) == \E i \in 1 .. Len(l) : l[i] = x
PathIsDelegation ==
    ~misread =>
        /\ stack # <<>> => In(stack[1], hostServers)
        /\ \A i \in 1 .. (Len(stack) - 1) : /\ reply[stack[i]].kind = "referral"
                                            /\ In(stack[i + 1], reply[stack[i]].list)
        /\ outcome = "found" => stack # <<>> /\ reply[stack[Len(stack)]].kind = "answer"

(* The program ends, although delegations may lead in circles, unless it   *)
(* asks a silent server: recv() has no timeout.                            *)
StuckInRecv == waiting /\ reply[Asked].kind = "silent"
Terminates == <>(outcome # "running" \/ StuckInRecv)
=============================================================================
