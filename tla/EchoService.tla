----------------------------- MODULE EchoService -----------------------------
(***************************************************************************)
(* proj1: a server and its clients.  A client sends one number and waits   *)
(* three seconds for a reply of one byte; the server (service.hpp listen)  *)
(* takes one connection, or one datagram, at a time, prints the number and *)
(* replies.  Both run over TCP or over UDP.                                *)
(***************************************************************************)
EXTENDS Integers, Sequences, FiniteSets

CONSTANTS Clients,  \* client processes; each sends a number of its own
          Ports,    \* the ports a kernel gives to the UDP sockets of clients
          Backlog,  \* connections that wait to be accepted, PENDING in the code
          MaxFd,    \* descriptors of the server are 1 .. MaxFd
          MaxFlight \* bound: datagrams under way; one more is lost at once

ASSUME BoundsAssumption == Backlog \in Nat \ {0} /\ MaxFd \in Nat \ {0, 1}
                           /\ MaxFlight \in Nat

Fds == 1 .. MaxFd
None == 0
Listener == 1    \* fd_blar: the first descriptor that the server opens
Nobody == "nobody"
ASSUME NamesAssumption == Nobody \notin Clients /\ Nobody \notin Ports

VARIABLES
    tcp,        \* the -t option of every process
    server,     \* where the server is, its descriptor and whom it replies to
    table,      \* what the server's descriptors are; Nobody if not open
    addr_size,  \* listen() never initialises what it passes to accept()
    addr,       \* what an earlier receive_udp() left where the next has its own
    backlog,    \* connections established by the kernel, not yet accepted
    conns,      \* of each client's connection: what is under way, who closed
    net,        \* datagrams under way
    client,     \* where a client is, its port and its alarm
    printed     \* the numbers the server printed

vars == <<tcp, server, table, addr_size, addr, backlog, conns, net, client,
          printed>>

Start == [pc |-> "start", port |-> Nobody, alarm |-> FALSE]
NoConnection == [message |-> FALSE, split |-> FALSE, reply |-> FALSE,
                 left |-> FALSE, closed |-> FALSE]
At(where, f, c) == [pc |-> where, fd |-> f, peer |-> c]

(* "error": recv() of the reply failed; "failed": any other way to end     *)
Ends == {"ok", "error", "failed"}

Init ==
    /\ tcp \in BOOLEAN
    /\ server = At("start", None, Nobody)
    /\ table = [f \in Fds |-> Nobody]
    /\ addr_size = "unset"
    /\ addr = Nobody
    /\ backlog = <<>>
    /\ conns = [c \in Clients |-> NoConnection]
    /\ net = {}
    /\ client = [c \in Clients |-> Start]
    /\ printed = {}

ToPort(p) == [to |-> "client", from |-> Nobody, port |-> p]
Running(c) == client[c].pc \notin Ends
Listening == server.pc \notin {"start", "dead"}
-----------------------------------------------------------------------------
Put(d) == IF Cardinality(net) < MaxFlight THEN net \cup {d} ELSE net

(* The client.  The end of the process closes its connection or port.      *)
Goes(c, where) == client' = [client EXCEPT ![c].pc = where]
Exit(c, how) ==
    /\ client' = [client EXCEPT ![c].pc = how, ![c].alarm = FALSE]
    /\ conns' = [conns EXCEPT ![c].left = TRUE]
    /\ UNCHANGED <<tcp, server, table, addr_size, addr, backlog, net, printed>>

(* The kernel completes connect() before the server accepts; with a full   *)
(* backlog connect() blocks.  A UDP socket is not connected.               *)
Connect(c) ==
    /\ client[c].pc = "start"
    /\ tcp => Listening /\ Len(backlog) < Backlog
    /\ Goes(c, "connected")
    /\ backlog' = IF tcp THEN Append(backlog, c) ELSE backlog
    /\ UNCHANGED <<tcp, server, table, addr_size, addr, conns, net, printed>>

(* Refused, or given up: connect() throws, and nobody catches.  No alarm   *)
(* is set yet.                                                             *)
ConnectFails(c) == client[c].pc = "start" /\ tcp /\ Exit(c, "failed")

FreePorts == Ports \ {client[c].port : c \in {d \in Clients : Running(d)}}

SendTcp(c) ==
    /\ client[c].pc = "connected" /\ tcp
    /\ conns' = [conns EXCEPT ![c].message = TRUE]
    /\ Goes(c, "sent")
    /\ UNCHANGED net

(* sendto() gives the socket a port: maybe one that an earlier client had  *)
(* and to which a reply is still under way.                                *)
SendUdp(c) ==
    /\ client[c].pc = "connected" /\ ~tcp
    /\ \E p \in FreePorts :
          client' = [client EXCEPT ![c] = [pc |-> "sent", port |-> p, alarm |-> FALSE]]
    /\ net' = Put([to |-> "server", from |-> c, port |-> client'[c].port])
    /\ UNCHANGED conns

Send(c) ==
    /\ SendTcp(c) \/ SendUdp(c)
    /\ UNCHANGED <<tcp, server, table, addr_size, addr, backlog, printed>>

SendFails(c) == client[c].pc = "connected" /\ Exit(c, "failed")

(* Mutant of SetAlarm: alarm() is not called. *)
SetNoAlarm(c) ==
    /\ client[c].pc = "sent"
    /\ Goes(c, "waiting")
    /\ UNCHANGED <<tcp, server, table, addr_size, addr, backlog, conns, net, printed>>

SetAlarm(c) ==
    /\ client[c].pc = "sent"
    /\ client' = [client EXCEPT ![c].pc = "waiting", ![c].alarm = TRUE]
    /\ UNCHANGED <<tcp, server, table, addr_size, addr, backlog, conns, net, printed>>

(* recv() of the reply: any datagram for the port will do.  recvfrom() is  *)
(* given an uninitialised length, too, and may fail because of it.         *)
Recv(c) ==
    /\ client[c].pc = "waiting"
    /\ \/ tcp /\ conns[c].reply /\ UNCHANGED net
       \/ /\ ~tcp /\ ToPort(client[c].port) \in net
          /\ net' \in {net, net \ {ToPort(client[c].port)}}
    /\ Goes(c, "got")
    /\ UNCHANGED <<tcp, server, table, addr_size, addr, backlog, conns, printed>>

RecvFails(c) ==
    /\ client[c].pc = "waiting"
    /\ \/ tcp /\ conns[c].closed /\ ~conns[c].reply
       \/ ~tcp /\ ToPort(client[c].port) \in net
    /\ Exit(c, "error")

Return(c) == client[c].pc = "got" /\ Exit(c, "ok")

(* SIGALRM: the handler exits, even if the reply has come.                 *)
Timeout(c) == client[c].alarm /\ Exit(c, "failed")

Kill(c) == Running(c) /\ client[c].pc # "start" /\ Exit(c, "failed")

ClientStep(c) ==
    \/ Connect(c) \/ ConnectFails(c) \/ Send(c) \/ SendFails(c) \/ SetAlarm(c)
    \/ Recv(c) \/ RecvFails(c) \/ Return(c) \/ Timeout(c)
-----------------------------------------------------------------------------
(* The server *)
Peer == server.peer
Lowest == CHOOSE f \in Fds : table[f] = Nobody /\ \A g \in 1 .. (f - 1) : table[g] # Nobody

(* add_port() binds the first address that it can; without one it throws.  *)
AddPort ==
    /\ server.pc = "start"
    /\ \/ /\ server' = At("loop", None, Nobody)
          /\ table' = [table EXCEPT ![Lowest] = "listener"]
       \/ server' = At("dead", None, Nobody) /\ UNCHANGED table
    /\ UNCHANGED <<tcp, addr_size, addr, backlog, conns, net, client, printed>>

(* Mutant of Accept: the reply is sent before the number is received. *)
AcceptReplies ==
    /\ server.pc = "loop" /\ tcp /\ backlog # <<>> /\ addr_size # "bad"
    /\ addr_size' = "good"
    /\ table' = [table EXCEPT ![Lowest] = Head(backlog)]
    /\ server' = At("send", Lowest, Head(backlog))
    /\ backlog' = Tail(backlog)
    /\ UNCHANGED <<tcp, addr, conns, net, client, printed>>

(* A length that happens to be negative makes accept() fail, which drops   *)
(* the connection and leaves the length as it is; otherwise accept() sets  *)
(* it right.                                                               *)
Accept ==
    /\ server.pc = "loop" /\ tcp /\ backlog # <<>> /\ addr_size # "bad"
    /\ addr_size' = "good"
    /\ table' = [table EXCEPT ![Lowest] = Head(backlog)]
    /\ server' = At("recv", Lowest, Head(backlog))
    /\ backlog' = Tail(backlog)
    /\ UNCHANGED <<tcp, addr, conns, net, client, printed>>

AcceptFails ==
    /\ server.pc = "loop" /\ tcp /\ backlog # <<>> /\ addr_size # "good"
    /\ addr_size' = "bad"
    /\ conns' = [conns EXCEPT ![Head(backlog)].closed = TRUE]
    /\ server' = At("send", None, Nobody)  \* recv() on -1 fails, 0 is printed
    /\ backlog' = Tail(backlog)
    /\ UNCHANGED <<tcp, table, addr, net, client, printed>>

(* Mutant of ReceiveNothing: it waits for the whole message. *)
ReceiveNever == FALSE /\ UNCHANGED vars

(* receive_tcp(): the number that came; 0 (not recorded) if only a part of *)
(* the message came or the client left without sending.                    *)
Receive ==
    /\ server.pc = "recv" /\ conns[Peer].message
    /\ server' = [server EXCEPT !.pc = "send"]
    /\ \/ printed' = printed \cup {Peer} /\ UNCHANGED conns
       \/ conns' = [conns EXCEPT ![Peer].split = TRUE] /\ UNCHANGED printed
    /\ UNCHANGED <<tcp, table, addr_size, addr, backlog, net, client>>

ReceiveNothing ==
    /\ server.pc = "recv" /\ conns[Peer].left /\ ~conns[Peer].message
    /\ server' = [server EXCEPT !.pc = "send"]
    /\ UNCHANGED <<tcp, table, addr_size, addr, backlog, conns, net, client, printed>>

(* What close(server.fd) does *)
Closes ==
    /\ table' = [f \in Fds |-> IF f = server.fd THEN Nobody ELSE table[f]]
    /\ conns' = [c \in Clients |->
                   IF server.fd # None /\ table[server.fd] = c
                   THEN [conns[c] EXCEPT !.closed = TRUE] ELSE conns[c]]
    /\ UNCHANGED <<tcp, addr_size, addr, backlog, net, client, printed>>

(* Mutant of Reply: the connection is closed before the reply is sent. *)
ReplyAfterClose ==
    /\ server.pc = "send"
    /\ server' = [server EXCEPT !.pc = "destroy"]
    /\ Closes

Reply ==
    /\ server.pc = "send"
    /\ server' = [server EXCEPT !.pc = "close"]
    /\ conns' = [c \in Clients |-> IF c = Peer THEN [conns[c] EXCEPT !.reply = TRUE] ELSE conns[c]]
    /\ UNCHANGED <<tcp, table, addr_size, addr, backlog, net, client, printed>>

(* listen() closes the descriptor and then ~sync_socket closes it again.   *)
Close ==
    /\ server.pc = "close"
    /\ server' = [server EXCEPT !.pc = "destroy"]
    /\ Closes

Destroy ==
    /\ server.pc = "destroy"
    /\ server' = At("loop", None, Nobody)
    /\ Closes

(* receive_udp() initialises neither addr nor addr_len, and ignores what   *)
(* recvfrom() returns.  A length that is large enough has addr filled in;  *)
(* a short one leaves all or part of what an earlier call left there, and  *)
(* yet is set to the whole length; a negative one makes sendto() fail.     *)
Address(d) == {d.port, addr, Nobody}

(* A datagram may come twice. *)
ReceiveFrom ==
    /\ server.pc = "loop" /\ ~tcp
    /\ \E d \in net :
          /\ d.to = "server"
          /\ net' \in {net, net \ {d}}
          /\ printed' = printed \cup {d.from}
          /\ addr' \in Address(d)
    /\ server' = At("reply", None, addr')
    /\ UNCHANGED <<tcp, table, addr_size, backlog, conns, client>>

(* recvfrom() fails: the number of an earlier call is printed once more    *)
(* (not recorded) and its sender, or nobody, is replied to.                *)
ReceiveFails ==
    /\ server.pc = "loop" /\ ~tcp
    /\ addr' \in {addr, Nobody}
    /\ server' = At("reply", None, addr')
    /\ UNCHANGED <<tcp, table, addr_size, backlog, conns, net, client, printed>>

ReplyTo ==
    /\ server.pc = "reply"
    /\ net' = IF Peer = Nobody THEN net ELSE Put(ToPort(Peer))
    /\ server' = At("loop", None, Nobody)
    /\ UNCHANGED <<tcp, table, addr_size, addr, backlog, conns, client, printed>>

ServerStep ==
    \/ AddPort \/ Accept \/ AcceptFails \/ Receive \/ ReceiveNothing \/ Reply
    \/ Close \/ Destroy \/ ReceiveFrom \/ ReceiveFails \/ ReplyTo

Lose ==
    /\ \E d \in net : net' = net \ {d}
    /\ UNCHANGED <<tcp, server, table, addr_size, addr, backlog, conns, client,
                   printed>>

Next == ServerStep \/ Lose \/ \E c \in Clients : ClientStep(c) \/ Kill(c)

Spec ==
    /\ Init /\ [][Next]_vars
    /\ WF_vars(ServerStep) /\ \A c \in Clients : WF_vars(ClientStep(c))
-----------------------------------------------------------------------------
SharesPort(c, d) == client[c].port # Nobody /\ client[d].port = client[c].port
Earned(c) ==
    \/ c \in printed
    \/ tcp /\ conns[c].split
    \/ ~tcp /\ \E d \in printed : SharesPort(c, d)

(* Every acknowledgement is earned: a client that got its reply has had    *)
(* its number printed, or over TCP a part of its message received (recv()  *)
(* is asked once), or over UDP a number printed that came from its port.   *)
(* The last is all that holds there, however datagrams are lost, repeated  *)
(* and late and whatever is left in addr: nothing in a reply says whom it  *)
(* is for.                                                                 *)
AckedWasHeard == \A c \in Clients : client[c].pc \in {"got", "ok"} => Earned(c)

(* A TCP client is told of an error only if accept() failed: no client,    *)
(* however slow, early, killed or split, costs another one its reply.      *)
ErrorMeansNotAccepted ==
    \A c \in Clients : tcp /\ client[c].pc = "error" => addr_size = "bad"

(* Every client ends, whatever happens to the server, the datagrams and    *)
(* the other clients: by its alarm, if by nothing else.                    *)
EveryClientEnds == <>(\A c \in Clients : ~Running(c))

(* A connection does not stay in the backlog for ever: the server waits    *)
(* for one client at a time, but each of them sends or leaves.             *)
Queued(c) == \E i \in 1 .. Len(backlog) : backlog[i] = c
BacklogDrains == \A c \in Clients : Queued(c) ~> ~Queued(c)
=============================================================================
