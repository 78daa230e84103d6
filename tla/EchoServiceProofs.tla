-------------------------- MODULE EchoServiceProofs --------------------------
(***************************************************************************)
(* Proofs about EchoService, for any number of clients, of ports and of    *)
(* datagrams under way, over TCP and over UDP.                             *)
(***************************************************************************)
EXTENDS EchoService, TLAPS, SequenceTheorems, FiniteSetTheorems

ClientPC == {"start", "connected", "sent", "waiting", "got"} \cup Ends
ServerPC == {"start", "dead", "loop", "recv", "send", "close", "destroy", "reply"}
Processes == [pc : ClientPC, port : Ports \cup {Nobody}, alarm : BOOLEAN]
Connections == [message : BOOLEAN, split : BOOLEAN, reply : BOOLEAN,
                left : BOOLEAN, closed : BOOLEAN]
Datagrams == [to : {"server", "client"}, from : Clients \cup {Nobody},
              port : Ports \cup {Nobody}]

TypeOK ==
    /\ tcp \in BOOLEAN
    /\ server \in [pc : ServerPC, fd : Fds \cup {None}, peer : Clients \cup Ports \cup {Nobody}]
    /\ table \in [Fds -> Clients \cup {Nobody, "listener"}]
    /\ addr_size \in {"unset", "good", "bad"}
    /\ addr \in Ports \cup {Nobody}
    /\ backlog \in Seq(Clients)
    /\ conns \in [Clients -> Connections]
    /\ net \in SUBSET Datagrams
    /\ client \in [Clients -> Processes]
    /\ printed \in SUBSET Clients

(* Why a TCP client is replied to: its number was printed, or a recv()     *)
(* returned a part of it, or it left without sending.                      *)
HeardOf(c) == \/ c \in printed
              \/ conns[c].split
              \/ conns[c].left /\ ~conns[c].message

(* Why a UDP port is replied to: a client that has or had it was heard. *)
Known(p) == \E d \in Clients : client[d].port = p /\ d \in printed

(* Who waits over TCP has sent; who left has ended, and who ended has no    *)
(* alarm; a UDP client gets its port from sendto().                        *)
Progress(c) ==
    /\ tcp /\ client[c].pc \in {"sent", "waiting", "got", "ok", "error"} => conns[c].message
    /\ conns[c].left => ~Running(c)
    /\ client[c].alarm => Running(c)
    /\ client[c].pc \in {"start", "connected"} => client[c].port = Nobody
    /\ ~tcp /\ client[c].pc \in {"sent", "waiting"} => client[c].port # Nobody

(* Every datagram comes from where it says; a reply, and what is left in   *)
(* addr for a later one, answers what was heard.                           *)
NetIsTrue ==
    /\ \A m \in net : m.to = "server" =>
          m.from \in Clients /\ m.port # Nobody /\ client[m.from].port = m.port
    /\ \A m \in net : m.to = "client" => m.port # Nobody /\ Known(m.port)
    /\ server.pc = "reply" /\ Peer # Nobody => Known(Peer)
    /\ addr # Nobody => Known(addr)

(* A connection is closed after its reply, or never accepted. *)
Served(c) ==
    /\ conns[c].reply => HeardOf(c)
    /\ conns[c].closed => conns[c].reply \/ addr_size = "bad"

(* The server's descriptors are its socket and at most one connection,     *)
(* which the second close() finds closed.                                  *)
TableIsRight ==
    /\ server.fd # Listener
    /\ server.fd # None => Peer \in Clients /\ server.pc \in {"recv", "send", "close", "destroy"}
    /\ server.pc = "start" => \A f \in Fds : table[f] = Nobody
    /\ server.pc \notin {"start", "dead"} =>
          \A f \in Fds : table[f] = IF f = Listener THEN "listener"
                                    ELSE IF f = server.fd /\ server.pc # "destroy" THEN Peer
                                    ELSE Nobody

ServerIsRight ==
    /\ server.pc = "recv" => Peer \in Clients
    /\ server.pc = "send" /\ Peer \in Clients => HeardOf(Peer)
    /\ server.pc = "close" /\ Peer \in Clients => conns[Peer].reply

IInv == /\ TypeOK
        /\ \A c \in Clients : Progress(c)
        /\ NetIsTrue
        /\ \A c \in Clients : Served(c)
        /\ TableIsRight
        /\ ServerIsRight
        /\ AckedWasHeard
        /\ ErrorMeansNotAccepted
-----------------------------------------------------------------------------
LEMMA InitIInv == Init => IInv
<1> SUFFICES ASSUME Init PROVE IInv
  OBVIOUS
<1>1. TypeOK
  <2>1. Start \in Processes /\ NoConnection \in Connections
    BY DEF Start, Processes, ClientPC, NoConnection, Connections
  <2>2. server \in [pc : ServerPC, fd : Fds \cup {None}, peer : Clients \cup Ports \cup {Nobody}]
    BY DEF Init, At, ServerPC
  <2>3. backlog \in Seq(Clients) /\ net \in SUBSET Datagrams /\ printed \in SUBSET Clients
    BY DEF Init
  <2> QED
    BY <2>1, <2>2, <2>3 DEF Init, TypeOK
<1>2. \A c \in Clients : Progress(c) /\ Served(c)
  BY DEF Init, Progress, Served, Start, NoConnection
<1>3. NetIsTrue /\ TableIsRight /\ ServerIsRight
  BY DEF Init, NetIsTrue, TableIsRight, ServerIsRight, At, None, Listener
<1>4. AckedWasHeard /\ ErrorMeansNotAccepted
  BY DEF Init, AckedWasHeard, ErrorMeansNotAccepted, Start
<1> QED
  BY <1>1, <1>2, <1>3, <1>4 DEF IInv

(* A step of client c: what it must not change, and what it may *)
ClientOnly(c) ==
    /\ UNCHANGED <<tcp, server, table, addr_size, addr, printed>>
    /\ \A d \in Clients : d # c => client'[d] = client[d] /\ conns'[d] = conns[d]
    /\ conns'[c].split = conns[c].split
    /\ conns'[c].reply = conns[c].reply
    /\ conns'[c].closed = conns[c].closed
    /\ conns[c].left => conns'[c].left /\ conns'[c].message = conns[c].message
    /\ \/ client'[c].port = client[c].port
       \/ /\ client[c].port = Nobody
          /\ \A d \in Clients : d # c /\ Running(d) => client[d].port # client'[c].port
    /\ \A m \in net' : m \in net \/ /\ m.to = "server" /\ m.from = c
                                    /\ m.port # Nobody /\ m.port = client'[c].port

(* What the client's own new state must be like *)
ClientRight(c) ==
    /\ Progress(c)'
    /\ client'[c].pc \in {"got", "ok"} => Earned(c)'
    /\ tcp /\ client'[c].pc = "error" => addr_size = "bad"

(* The others and the server are then as they were, and a reply stays a    *)
(* reply to what was heard.                                                *)
LEMMA ClientKeeps ==
    ASSUME IInv, TypeOK', NEW c \in Clients, ClientOnly(c), ClientRight(c)
    PROVE  IInv'
<1> USE DEF ClientOnly, ClientRight
<1>1. \A d \in Clients : Progress(d)'
  BY DEF IInv, Progress, Running
<1>2. \A d \in Clients : Earned(d) => Earned(d)'
  <2>1. \A d, e \in Clients : SharesPort(d, e) => SharesPort(d, e)'
    BY DEF SharesPort
  <2>2. printed \subseteq Clients
    BY DEF IInv, TypeOK
  <2> QED
    BY <2>1, <2>2 DEF Earned
<1>3. \A d \in Clients : HeardOf(d) => HeardOf(d)'
  BY DEF HeardOf
<1>4. \A d \in Clients : Served(d)'
  BY <1>3 DEF IInv, Served
<1>5. \A p : p # Nobody /\ Known(p) => Known(p)'
  BY DEF Known
<1>6. NetIsTrue'
  <2>1. \A m \in net' : m.to = "server" =>
          m.from \in Clients /\ m.port # Nobody /\ client'[m.from].port = m.port
    BY DEF IInv, NetIsTrue
  <2>2. \A m \in net' : m.to = "client" => m.port # Nobody /\ Known(m.port)'
    BY <1>5 DEF IInv, NetIsTrue
  <2>3. server'.pc = "reply" /\ Peer' # Nobody => Known(Peer)'
    BY <1>5 DEF IInv, NetIsTrue, Peer
  <2>4. addr' # Nobody => Known(addr)'
    BY <1>5 DEF IInv, NetIsTrue
  <2> QED
    BY <2>1, <2>2, <2>3, <2>4 DEF NetIsTrue
<1>7. TableIsRight'
  BY DEF IInv, TableIsRight, Peer
<1>8. ServerIsRight'
  BY <1>3 DEF IInv, ServerIsRight, Peer
<1>9. AckedWasHeard' /\ ErrorMeansNotAccepted'
  BY <1>2 DEF IInv, AckedWasHeard, ErrorMeansNotAccepted
<1> QED
  BY <1>1, <1>4, <1>6, <1>7, <1>8, <1>9 DEF IInv

(* The types of the fields, for any client *)
LEMMA FieldTypes ==
    ASSUME IInv, NEW c \in Clients
    PROVE  /\ client[c] \in Processes /\ conns[c] \in Connections
           /\ client \in [Clients -> Processes] /\ conns \in [Clients -> Connections]
           /\ Progress(c) /\ Served(c)
  BY DEF IInv, TypeOK

(* The end of a client *)
LEMMA ExitStep ==
    ASSUME IInv, NEW c \in Clients, Running(c), NEW how \in Ends, Exit(c, how),
           how = "ok" => client[c].pc = "got",
           how = "error" => /\ client[c].pc = "waiting"
                            /\ tcp => conns[c].closed /\ ~conns[c].reply
    PROVE  IInv'
<1>1. /\ client[c] \in Processes /\ conns[c] \in Connections
      /\ client \in [Clients -> Processes] /\ conns \in [Clients -> Connections]
      /\ Progress(c) /\ Served(c)
  BY FieldTypes
<1>2. /\ client'[c] = [client[c] EXCEPT !.pc = how, !.alarm = FALSE]
      /\ \A d \in Clients : d # c => client'[d] = client[d]
      /\ conns'[c] = [conns[c] EXCEPT !.left = TRUE]
      /\ \A d \in Clients : d # c => conns'[d] = conns[d]
      /\ UNCHANGED <<tcp, server, table, addr_size, addr, backlog, net, printed>>
  BY <1>1 DEF Exit
<1>3. [client[c] EXCEPT !.pc = how, !.alarm = FALSE] \in Processes
  BY <1>1 DEF Processes, ClientPC
<1>4. [conns[c] EXCEPT !.left = TRUE] \in Connections
  BY <1>1 DEF Connections
<1>5. /\ client'[c].pc = how /\ client'[c].port = client[c].port
  BY <1>1, <1>2 DEF Processes
<1>6. /\ conns'[c].left /\ conns'[c].message = conns[c].message
      /\ conns'[c].split = conns[c].split /\ conns'[c].reply = conns[c].reply
      /\ conns'[c].closed = conns[c].closed
  BY <1>1, <1>2 DEF Connections
<1>7. TypeOK'
  <2>1. client' \in [Clients -> Processes] /\ conns' \in [Clients -> Connections]
    BY <1>1, <1>2, <1>3, <1>4 DEF Exit
  <2> QED
    BY <1>2, <2>1 DEF IInv, TypeOK
<1>8. Progress(c)'
  BY <1>1, <1>2, <1>5, <1>6 DEF Progress, Running, Ends
<1>9. \A d \in Clients : SharesPort(c, d) => SharesPort(c, d)'
  BY <1>2, <1>5 DEF SharesPort
<1>10. client'[c].pc \in {"got", "ok"} => Earned(c)'
  <2>1. printed \subseteq Clients
    BY DEF IInv, TypeOK
  <2>2. Earned(c) => Earned(c)'
    BY <1>2, <1>6, <1>9, <2>1 DEF Earned
  <2> QED
    BY <1>5, <2>2 DEF IInv, AckedWasHeard, Ends
<1>11. tcp /\ client'[c].pc = "error" => addr_size = "bad"
  BY <1>1, <1>5 DEF Served
<1> QED
  <2>1. ClientOnly(c)
    BY <1>2, <1>5, <1>6 DEF ClientOnly
  <2>2. ClientRight(c)
    BY <1>8, <1>10, <1>11 DEF ClientRight
  <2> QED
    BY <1>7, <2>1, <2>2, ClientKeeps

(* A client moves on and leaves its connection alone. *)
LEMMA MoveStep ==
    ASSUME IInv, NEW c \in Clients, Running(c), NEW where \in ClientPC, NEW al \in BOOLEAN,
           client' = [client EXCEPT ![c] = [client[c] EXCEPT !.pc = where, !.alarm = al]],
           UNCHANGED <<tcp, server, table, addr_size, addr, conns, printed>>,
           backlog' \in Seq(Clients), net' \in SUBSET net,
           \/ where = "connected" /\ client[c].pc = "start"
           \/ where = "waiting" /\ client[c].pc = "sent"
           \/ /\ where = "got" /\ client[c].pc = "waiting"
              /\ Earned(c)
    PROVE  IInv'
<1>1. /\ client[c] \in Processes /\ conns[c] \in Connections
      /\ client \in [Clients -> Processes] /\ conns \in [Clients -> Connections]
      /\ Progress(c) /\ Served(c)
  BY FieldTypes
<1>2. /\ client'[c] = [client[c] EXCEPT !.pc = where, !.alarm = al]
      /\ \A d \in Clients : d # c => client'[d] = client[d]
  BY <1>1
<1>3. [client[c] EXCEPT !.pc = where, !.alarm = al] \in Processes
  BY <1>1 DEF Processes
<1>4. /\ client'[c].pc = where /\ client'[c].port = client[c].port
  BY <1>1, <1>2 DEF Processes
<1>5. TypeOK'
  <2>1. client' \in [Clients -> Processes]
    BY <1>1, <1>3
  <2> QED
    BY <2>1 DEF IInv, TypeOK
<1>6. Progress(c)'
  BY <1>1, <1>4 DEF Progress, Running, Ends
<1>7. client'[c].pc \in {"got", "ok"} => Earned(c)'
  <2>1. \A d \in Clients : SharesPort(c, d) => SharesPort(c, d)'
    BY <1>2, <1>4 DEF SharesPort
  <2>2. printed \subseteq Clients
    BY DEF IInv, TypeOK
  <2>3. Earned(c) => Earned(c)'
    BY <2>1, <2>2 DEF Earned
  <2> QED
    BY <1>4, <2>3
<1> QED
  <2>1. ClientOnly(c)
    BY <1>2, <1>4 DEF ClientOnly
  <2>2. ClientRight(c)
    BY <1>4, <1>6, <1>7 DEF ClientRight
  <2> QED
    BY <1>5, <2>1, <2>2, ClientKeeps

(* Over TCP nothing is lost: the message waits in the connection. *)
LEMMA SendTcpStep ==
    ASSUME IInv, NEW c \in Clients, SendTcp(c),
           UNCHANGED <<tcp, server, table, addr_size, addr, backlog, printed>>
    PROVE  IInv'
<1>1. /\ client[c] \in Processes /\ conns[c] \in Connections
      /\ client \in [Clients -> Processes] /\ conns \in [Clients -> Connections]
      /\ Progress(c) /\ Served(c)
  BY FieldTypes
<1>2. /\ client[c].pc = "connected" /\ tcp /\ net' = net /\ tcp' = tcp
      /\ client'[c] = [client[c] EXCEPT !.pc = "sent"]
      /\ \A d \in Clients : d # c => client'[d] = client[d]
      /\ conns'[c] = [conns[c] EXCEPT !.message = TRUE]
      /\ \A d \in Clients : d # c => conns'[d] = conns[d]
  BY <1>1 DEF SendTcp, Goes
<1>3. [client[c] EXCEPT !.pc = "sent"] \in Processes
  BY <1>1 DEF Processes, ClientPC
<1>4. [conns[c] EXCEPT !.message = TRUE] \in Connections
  BY <1>1 DEF Connections
<1>5. /\ client'[c].pc = "sent" /\ client'[c].port = client[c].port
  BY <1>1, <1>2 DEF Processes
<1>6. /\ conns'[c].left = conns[c].left /\ conns'[c].message
      /\ conns'[c].split = conns[c].split /\ conns'[c].reply = conns[c].reply
      /\ conns'[c].closed = conns[c].closed
  BY <1>1, <1>2 DEF Connections
<1>7. TypeOK'
  <2>1. client' \in [Clients -> Processes] /\ conns' \in [Clients -> Connections]
    BY <1>1, <1>2, <1>3, <1>4 DEF SendTcp, Goes
  <2> QED
    BY <1>2, <2>1 DEF IInv, TypeOK
<1>8. ~conns[c].left /\ client[c].port = Nobody
  BY <1>1, <1>2 DEF Progress, Running, Ends
<1>9. ClientOnly(c)
  BY <1>2, <1>5, <1>6, <1>8 DEF ClientOnly
<1>10. ClientRight(c)
  <2>1. Progress(c)'
    BY <1>2, <1>5, <1>6, <1>8 DEF Progress, Running, Ends
  <2> QED
    BY <1>5, <2>1 DEF ClientRight
<1> QED
  BY <1>7, <1>9, <1>10, ClientKeeps

(* The port that sendto() takes is no running client's, but an earlier one *)
(* may have had it.                                                        *)
LEMMA SendUdpStep ==
    ASSUME IInv, NEW c \in Clients, SendUdp(c),
           UNCHANGED <<tcp, server, table, addr_size, addr, backlog, printed>>
    PROVE  IInv'
<1> DEFINE now(p) == [pc |-> "sent", port |-> p, alarm |-> FALSE]
           m(p) == [to |-> "server", from |-> c, port |-> p]
<1>1. /\ client[c] \in Processes /\ conns[c] \in Connections
      /\ client \in [Clients -> Processes] /\ conns \in [Clients -> Connections]
      /\ Progress(c) /\ Served(c)
  BY FieldTypes
<1>2. PICK p \in FreePorts : client' = [client EXCEPT ![c] = now(p)]
  BY DEF SendUdp
<1>3. /\ p \in Ports /\ p # Nobody
      /\ \A d \in Clients : Running(d) => client[d].port # p
  BY NamesAssumption DEF FreePorts
<1>4. /\ client[c].pc = "connected" /\ ~tcp /\ conns' = conns
      /\ client'[c] = now(p) /\ \A d \in Clients : d # c => client'[d] = client[d]
      /\ net' = Put(m(client'[c].port))
  BY <1>1, <1>2 DEF SendUdp
<1>5. /\ client'[c].pc = "sent" /\ client'[c].port = p
      /\ now(p) \in Processes
  BY <1>3, <1>4 DEF Processes, ClientPC
<1>6. m(p) \in Datagrams /\ net' \in SUBSET (net \cup {m(p)})
  <2>1. m(p) \in Datagrams
    BY <1>3 DEF Datagrams
  <2>2. net' \in SUBSET (net \cup {m(p)})
    BY <1>4, <1>5 DEF Put
  <2> QED
    BY <2>1, <2>2
<1>7. TypeOK'
  <2>1. client' \in [Clients -> Processes]
    BY <1>1, <1>2, <1>5
  <2>2. net' \in SUBSET Datagrams
    BY <1>6 DEF IInv, TypeOK
  <2> QED
    BY <1>4, <2>1, <2>2 DEF IInv, TypeOK
<1>8. client[c].port = Nobody
  BY <1>1, <1>4 DEF Progress
<1>9. ClientOnly(c)
  <2>1. \A n \in net' : n \in net \/ /\ n.to = "server" /\ n.from = c
                                     /\ n.port # Nobody /\ n.port = client'[c].port
    BY <1>3, <1>5, <1>6
  <2> QED
    BY <1>3, <1>4, <1>5, <1>8, <2>1 DEF ClientOnly
<1>10. ClientRight(c)
  <2>1. Progress(c)'
    BY <1>1, <1>3, <1>4, <1>5 DEF Progress, Running, Ends
  <2> QED
    BY <1>5, <2>1 DEF ClientRight
<1> QED
  BY <1>7, <1>9, <1>10, ClientKeeps

(* A UDP reply is for whoever has the port now; who had it when the number *)
(* came was heard.                                                         *)
LEMMA RecvStep ==
    ASSUME IInv, NEW c \in Clients, Recv(c)
    PROVE  IInv'
<1>1. /\ client[c] \in Processes /\ conns[c] \in Connections
      /\ client \in [Clients -> Processes] /\ conns \in [Clients -> Connections]
      /\ Progress(c) /\ Served(c)
  BY FieldTypes
<1>2. client[c].pc = "waiting" /\ Running(c)
  BY DEF Recv, Running, Ends
<1>3. Earned(c)
  <2>1. CASE tcp
    <3>1. conns[c].reply /\ conns[c].message
      BY <1>1, <1>2, <2>1 DEF Recv, Progress
    <3> QED
      BY <1>1, <2>1, <3>1 DEF Served, HeardOf, Earned
  <2>2. CASE ~tcp
    <3>1. ToPort(client[c].port) \in net /\ client[c].port # Nobody
      BY <1>1, <1>2, <2>2 DEF Recv, Progress
    <3>2. Known(client[c].port)
      BY <3>1 DEF IInv, NetIsTrue, ToPort
    <3> QED
      BY <2>2, <3>1, <3>2 DEF Known, Earned, SharesPort
  <2> QED
    BY <2>1, <2>2
<1>4. client' = [client EXCEPT ![c] = [client[c] EXCEPT !.pc = "got", !.alarm = client[c].alarm]]
  BY <1>1 DEF Recv, Goes, Processes
<1>5. /\ UNCHANGED <<tcp, server, table, addr_size, addr, conns, printed>>
      /\ backlog' \in Seq(Clients) /\ net' \in SUBSET net
  BY DEF Recv, IInv, TypeOK
<1>6. "got" \in ClientPC /\ client[c].alarm \in BOOLEAN
  BY <1>1 DEF ClientPC, Processes
<1> QED
  BY <1>2, <1>3, <1>4, <1>5, <1>6, MoveStep

LEMMA ConnectStep ==
    ASSUME IInv, NEW c \in Clients, Connect(c)
    PROVE  IInv'
<1>1. client[c] \in Processes /\ client \in [Clients -> Processes]
  BY FieldTypes
<1>2. client' = [client EXCEPT ![c] =
                    [client[c] EXCEPT !.pc = "connected", !.alarm = client[c].alarm]]
  BY <1>1 DEF Connect, Goes, Processes
<1>3. /\ UNCHANGED <<tcp, server, table, addr_size, addr, conns, printed>>
      /\ net' \in SUBSET net
  BY DEF Connect
<1>4. backlog' \in Seq(Clients)
  BY DEF Connect, IInv, TypeOK
<1>5. /\ "connected" \in ClientPC /\ client[c].alarm \in BOOLEAN
      /\ client[c].pc = "start" /\ Running(c)
  BY <1>1 DEF ClientPC, Processes, Connect, Running, Ends
<1> QED
  BY <1>2, <1>3, <1>4, <1>5, MoveStep

LEMMA SetAlarmStep ==
    ASSUME IInv, NEW c \in Clients, SetAlarm(c)
    PROVE  IInv'
<1>1. client[c] \in Processes /\ client \in [Clients -> Processes]
  BY FieldTypes
<1>2. client' = [client EXCEPT ![c] = [client[c] EXCEPT !.pc = "waiting", !.alarm = TRUE]]
  BY <1>1 DEF SetAlarm
<1>3. /\ UNCHANGED <<tcp, server, table, addr_size, addr, conns, printed>>
      /\ net' \in SUBSET net /\ backlog' \in Seq(Clients)
  BY DEF SetAlarm, IInv, TypeOK
<1>4. "waiting" \in ClientPC /\ client[c].pc = "sent" /\ Running(c)
  BY DEF ClientPC, SetAlarm, Running, Ends
<1> QED
  BY <1>2, <1>3, <1>4, MoveStep

(* A client that ended has no alarm. *)
LEMMA ClientSteps ==
    ASSUME IInv, NEW c \in Clients, ClientStep(c) \/ Kill(c)
    PROVE  IInv'
<1>1. CASE Connect(c)
  BY <1>1, ConnectStep
<1>2. CASE Send(c)
  BY <1>2, SendTcpStep, SendUdpStep DEF Send
<1>3. CASE SetAlarm(c)
  BY <1>3, SetAlarmStep
<1>4. CASE Recv(c)
  BY <1>4, RecvStep
<1>5. CASE ConnectFails(c) \/ SendFails(c) \/ Kill(c)
  <2>1. Running(c) /\ Exit(c, "failed")
    BY <1>5 DEF ConnectFails, SendFails, Kill, Running, Ends
  <2> QED
    BY <2>1, ExitStep DEF Ends
<1>6. CASE RecvFails(c)
  <2>1. /\ Running(c) /\ Exit(c, "error") /\ client[c].pc = "waiting"
        /\ tcp => conns[c].closed /\ ~conns[c].reply
    BY <1>6 DEF RecvFails, Running, Ends
  <2> QED
    BY <2>1, ExitStep DEF Ends
<1>7. CASE Return(c)
  <2>1. Running(c) /\ Exit(c, "ok") /\ client[c].pc = "got"
    BY <1>7 DEF Return, Running, Ends
  <2> QED
    BY <2>1, ExitStep DEF Ends
<1>8. CASE Timeout(c)
  <2>1. client[c].alarm => Running(c)
    BY FieldTypes DEF Progress
  <2> QED
    BY <1>8, <2>1, ExitStep DEF Timeout, Ends
<1> QED
  BY <1>1, <1>2, <1>3, <1>4, <1>5, <1>6, <1>7, <1>8 DEF ClientStep

(* A step of the server: it only adds to what is heard and replied to, and *)
(* a reply is to a port it heard from.                                     *)
ServerOnly ==
    /\ UNCHANGED <<tcp, client>>
    /\ printed \subseteq printed'
    /\ addr_size = "bad" => addr_size' = "bad"
    /\ \A m \in net' : m \in net \/ (m.to = "client" /\ m.port # Nobody /\ Known(m.port))
    /\ server'.pc = "reply" /\ Peer' # Nobody => Known(Peer)'
    /\ addr' = addr \/ (addr' # Nobody => Known(addr)')

(* What it may do to the connection of a client *)
ServerServes(d) ==
    /\ conns'[d].message = conns[d].message /\ conns'[d].left = conns[d].left
    /\ conns[d].split => conns'[d].split
    /\ conns[d].reply => conns'[d].reply
    /\ conns'[d].reply => conns[d].reply \/ HeardOf(d)
    /\ conns'[d].closed => conns[d].closed \/ conns'[d].reply \/ addr_size' = "bad"

(* The clients are then as they were, and what was heard stays heard. *)
LEMMA ServerKeeps ==
    ASSUME IInv, TypeOK', ServerOnly, \A d \in Clients : ServerServes(d),
           TableIsRight', ServerIsRight'
    PROVE  IInv'
<1> USE DEF ServerOnly, ServerServes
<1>1. \A d \in Clients : Progress(d)'
  BY DEF IInv, Progress, Running
<1>2. \A d \in Clients : HeardOf(d) => HeardOf(d)'
  BY DEF HeardOf
<1>3. \A d \in Clients : Served(d)'
  BY <1>2 DEF IInv, Served
<1>4. \A p : Known(p) => Known(p)'
  BY DEF Known
<1>5. NetIsTrue'
  BY <1>4 DEF IInv, NetIsTrue, Peer
<1>6. AckedWasHeard' /\ ErrorMeansNotAccepted'
  <2>1. \A d, e \in Clients : SharesPort(d, e) => SharesPort(d, e)'
    BY DEF SharesPort
  <2>2. printed \subseteq Clients
    BY DEF IInv, TypeOK
  <2>3. \A d \in Clients : Earned(d) => Earned(d)'
    BY <2>1, <2>2 DEF Earned
  <2> QED
    BY <2>3 DEF IInv, AckedWasHeard, ErrorMeansNotAccepted
<1> QED
  BY <1>1, <1>3, <1>5, <1>6 DEF IInv

(* A step that leaves every connection alone *)
LEMMA SameConns ==
    ASSUME conns' = conns
    PROVE  \A d \in Clients : ServerServes(d)
  BY DEF ServerServes

(* The lowest free descriptor: the listener's at the start, another later *)
LEMMA LowestIs ==
    ASSUME IInv
    PROVE  /\ server.pc = "start" => Lowest = Listener
           /\ server.pc = "loop" => Lowest \in Fds /\ Lowest # Listener
<1> DEFINE Least(f) == table[f] = Nobody /\ \A g \in 1 .. (f - 1) : table[g] # Nobody
<1>1. 1 \in Fds /\ 2 \in Fds
  BY BoundsAssumption DEF Fds
<1>2. ASSUME server.pc = "start" PROVE Lowest = Listener
  <2>1. Least(1) /\ \A f \in Fds : f # 1 => ~Least(f)
    <3>1. \A f \in Fds : table[f] = Nobody
      BY <1>2 DEF IInv, TableIsRight
    <3>2. \A f \in Fds : f # 1 => 1 \in 1 .. (f - 1)
      BY BoundsAssumption DEF Fds
    <3>3. \A g \in 1 .. (1 - 1) : FALSE
      OBVIOUS
    <3> QED
      BY <1>1, <3>1, <3>2, <3>3
  <2> QED
    BY <1>1, <2>1 DEF Lowest, Listener
<1>3. ASSUME server.pc = "loop" PROVE Lowest \in Fds /\ Lowest # Listener
  <2>1. table[1] = "listener" /\ table[2] = Nobody
    <3>1. server.fd = None
      BY <1>3 DEF IInv, TableIsRight
    <3> QED
      BY <1>1, <1>3, <3>1 DEF IInv, TableIsRight, Listener, None
  <2>2. Least(2)
    <3>1. \A g \in 1 .. (2 - 1) : g = 1
      OBVIOUS
    <3> QED
      BY <2>1, <3>1 DEF Nobody
  <2>3. Lowest \in Fds /\ Least(Lowest)
    BY <1>1, <2>2 DEF Lowest
  <2> QED
    BY <2>1, <2>3 DEF Nobody, Listener
<1> QED
  BY <1>2, <1>3

LEMMA AddPortStep ==
    ASSUME IInv, AddPort
    PROVE  IInv'
<1>1. /\ server.pc = "start" /\ Lowest = Listener /\ Listener \in Fds
      /\ UNCHANGED <<tcp, addr_size, addr, backlog, conns, net, client, printed>>
  BY LowestIs, BoundsAssumption DEF AddPort, Listener, Fds
<1>2. \/ /\ server' = At("loop", None, Nobody)
         /\ table' = [table EXCEPT ![Listener] = "listener"]
      \/ server' = At("dead", None, Nobody) /\ table' = table
  BY <1>1 DEF AddPort
<1>3. TypeOK'
  BY <1>1, <1>2 DEF IInv, TypeOK, At, ServerPC
<1>4. server'.pc \in {"loop", "dead"} /\ server'.fd = None
  BY <1>2 DEF At
<1>5. ServerOnly
  BY <1>1, <1>4 DEF ServerOnly
<1>6. ServerIsRight'
  BY <1>4 DEF ServerIsRight
<1>7. TableIsRight'
  <2>1. None # Listener
    BY DEF None, Listener
  <2>2. CASE server'.pc = "dead"
    BY <1>4, <2>1, <2>2 DEF TableIsRight
  <2>3. CASE server'.pc = "loop"
    <3>1. \A f \in Fds : table[f] = Nobody
      BY <1>1 DEF IInv, TableIsRight
    <3>2. \A f \in Fds : table'[f] = IF f = Listener THEN "listener" ELSE Nobody
      BY <1>2, <2>3, <3>1 DEF IInv, TypeOK, At
    <3>3. \A f \in Fds : f # None
      BY DEF Fds, None
    <3> QED
      BY <1>4, <2>1, <2>3, <3>2, <3>3 DEF TableIsRight
  <2> QED
    BY <1>4, <2>2, <2>3
<1> QED
  BY <1>1, <1>3, <1>5, <1>6, <1>7, SameConns, ServerKeeps

(* The accepted connection takes a free descriptor beside the listener. *)
LEMMA AcceptStep ==
    ASSUME IInv, Accept
    PROVE  IInv'
<1> DEFINE c == Head(backlog)
<1>1. /\ server.pc = "loop" /\ Lowest \in Fds /\ Lowest # Listener
      /\ UNCHANGED <<tcp, addr, conns, net, client, printed>> /\ addr_size # "bad"
      /\ addr_size' = "good" /\ table' = [table EXCEPT ![Lowest] = c]
      /\ server' = At("recv", Lowest, c)
  BY LowestIs DEF Accept
<1>2. c \in Clients /\ backlog' \in Seq(Clients)
  BY DEF Accept, IInv, TypeOK
<1>3. TypeOK'
  BY <1>1, <1>2 DEF IInv, TypeOK, At, ServerPC
<1>4. ServerOnly /\ ServerIsRight'
  <2>1. server'.pc = "recv" /\ Peer' = c
    BY <1>1 DEF At, Peer
  <2>2. ServerOnly
    BY <1>1, <2>1 DEF ServerOnly
  <2> QED
    BY <1>2, <2>1, <2>2 DEF ServerIsRight
<1>5. TableIsRight'
  <2>1. server.fd = None
    BY <1>1 DEF IInv, TableIsRight
  <2>2. \A f \in Fds : table[f] = IF f = Listener THEN "listener" ELSE Nobody
    BY <1>1, <2>1 DEF IInv, TableIsRight, None, Fds
  <2>3. \A f \in Fds : table'[f] = IF f = Listener THEN "listener"
                                   ELSE IF f = Lowest THEN c ELSE Nobody
    BY <1>1, <2>2 DEF IInv, TypeOK
  <2> QED
    BY <1>1, <1>2, <2>3 DEF TableIsRight, At, Peer
<1> QED
  BY <1>1, <1>3, <1>4, <1>5, SameConns, ServerKeeps

(* A failed accept() drops the client that connected first. *)
LEMMA AcceptFailsStep ==
    ASSUME IInv, AcceptFails
    PROVE  IInv'
<1> DEFINE c == Head(backlog)
<1>1. /\ server.pc = "loop" /\ UNCHANGED <<tcp, table, addr, net, client, printed>>
      /\ addr_size' = "bad" /\ conns' = [conns EXCEPT ![c].closed = TRUE]
      /\ server' = At("send", None, Nobody)
  BY DEF AcceptFails
<1>2. c \in Clients /\ backlog' \in Seq(Clients)
  BY DEF AcceptFails, IInv, TypeOK
<1>3. conns \in [Clients -> Connections] /\ \A d \in Clients : conns[d] \in Connections
  BY DEF IInv, TypeOK
<1>4. TypeOK'
  <2>1. [conns[c] EXCEPT !.closed = TRUE] \in Connections
    BY <1>2, <1>3 DEF Connections
  <2>2. conns' \in [Clients -> Connections]
    BY <1>1, <1>2, <1>3, <2>1
  <2> QED
    BY <1>1, <1>2, <2>2 DEF IInv, TypeOK, At, ServerPC
<1>5. ServerOnly /\ ServerIsRight'
  <2>1. server'.pc = "send" /\ Peer' = Nobody
    BY <1>1 DEF At, Peer
  <2>2. ServerOnly
    BY <1>1, <2>1 DEF ServerOnly
  <2> QED
    BY <2>1, <2>2, NamesAssumption DEF ServerIsRight
<1>6. \A d \in Clients : ServerServes(d)
  BY <1>1, <1>3 DEF ServerServes, Connections
<1>7. TableIsRight'
  <2>1. server.fd = None
    BY <1>1 DEF IInv, TableIsRight
  <2> QED
    BY <1>1, <2>1 DEF IInv, TableIsRight, At, Peer, None, Listener, Fds
<1> QED
  BY <1>4, <1>5, <1>6, <1>7, ServerKeeps

(* What comes over a connection is printed, or cut, or its client left. *)
LEMMA ReceiveStep ==
    ASSUME IInv, Receive \/ ReceiveNothing
    PROVE  IInv'
<1>1. /\ server.pc = "recv" /\ server' = [server EXCEPT !.pc = "send"]
      /\ UNCHANGED <<tcp, table, addr_size, addr, backlog, net, client>>
      /\ \/ printed' = printed \cup {Peer} /\ conns' = conns
         \/ conns' = [conns EXCEPT ![Peer].split = TRUE] /\ printed' = printed
         \/ /\ conns[Peer].left /\ ~conns[Peer].message
            /\ conns' = conns /\ printed' = printed
  BY DEF Receive, ReceiveNothing
<1>2. /\ Peer \in Clients
      /\ conns \in [Clients -> Connections] /\ \A d \in Clients : conns[d] \in Connections
  BY <1>1 DEF IInv, TypeOK, ServerIsRight
<1>3. /\ server'.pc = "send" /\ server'.fd = server.fd /\ Peer' = Peer
  BY <1>1 DEF IInv, TypeOK, Peer
<1>4. TypeOK'
  <2>1. [conns[Peer] EXCEPT !.split = TRUE] \in Connections
    BY <1>2 DEF Connections
  <2>2. conns' \in [Clients -> Connections] /\ printed' \in SUBSET Clients
    BY <1>1, <1>2, <2>1 DEF IInv, TypeOK
  <2>3. server' \in [pc : ServerPC, fd : Fds \cup {None},
                     peer : Clients \cup Ports \cup {Nobody}]
    BY <1>1 DEF IInv, TypeOK, ServerPC
  <2> QED
    BY <1>1, <2>2, <2>3 DEF IInv, TypeOK
<1>5. ServerOnly
  BY <1>1, <1>3 DEF ServerOnly
<1>6. \A d \in Clients : ServerServes(d)
  BY <1>1, <1>2 DEF ServerServes, Connections
<1>7. TableIsRight'
  BY <1>1, <1>3 DEF IInv, TableIsRight
<1>8. ServerIsRight'
  <2>1. HeardOf(Peer)'
    BY <1>1, <1>2, <1>3 DEF HeardOf, Connections
  <2> QED
    BY <1>3, <2>1 DEF ServerIsRight
<1> QED
  BY <1>4, <1>5, <1>6, <1>7, <1>8, ServerKeeps

LEMMA ReplyStep ==
    ASSUME IInv, Reply
    PROVE  IInv'
<1>1. /\ server.pc = "send" /\ server' = [server EXCEPT !.pc = "close"]
      /\ UNCHANGED <<tcp, table, addr_size, addr, backlog, net, client, printed>>
      /\ \A d \in Clients : conns'[d] = IF d = Peer THEN [conns[d] EXCEPT !.reply = TRUE]
                                        ELSE conns[d]
  BY DEF Reply
<1>2. conns \in [Clients -> Connections] /\ \A d \in Clients : conns[d] \in Connections
  BY DEF IInv, TypeOK
<1>3. server'.pc = "close" /\ server'.fd = server.fd /\ Peer' = Peer
  BY <1>1 DEF IInv, TypeOK, Peer
<1>4. TypeOK'
  <2>1. \A d \in Clients : conns'[d] \in Connections
    BY <1>1, <1>2 DEF Connections
  <2>2. conns' \in [Clients -> Connections]
    BY <2>1 DEF Reply
  <2>3. server' \in [pc : ServerPC, fd : Fds \cup {None},
                     peer : Clients \cup Ports \cup {Nobody}]
    BY <1>1 DEF IInv, TypeOK, ServerPC
  <2> QED
    BY <1>1, <2>2, <2>3 DEF IInv, TypeOK
<1>5. ServerOnly
  BY <1>1, <1>3 DEF ServerOnly
<1>6. \A d \in Clients : ServerServes(d)
  <2>1. \A d \in Clients : d = Peer => HeardOf(d)
    BY <1>1 DEF IInv, ServerIsRight
  <2> QED
    BY <1>1, <1>2, <2>1 DEF ServerServes, Connections
<1>7. TableIsRight'
  BY <1>1, <1>3 DEF IInv, TableIsRight
<1>8. ServerIsRight'
  BY <1>1, <1>2, <1>3 DEF ServerIsRight, Connections
<1> QED
  BY <1>4, <1>5, <1>6, <1>7, <1>8, ServerKeeps

(* The first close() ends the connection that was replied to; the second,  *)
(* of the destructor, finds the descriptor closed and closes nobody's.     *)
LEMMA CloseStep ==
    ASSUME IInv, Close \/ Destroy
    PROVE  IInv'
<1>1. /\ UNCHANGED <<tcp, addr_size, addr, backlog, net, client, printed>>
      /\ \A f \in Fds : table'[f] = IF f = server.fd THEN Nobody ELSE table[f]
      /\ \A c \in Clients : conns'[c] = IF server.fd # None /\ table[server.fd] = c
                                        THEN [conns[c] EXCEPT !.closed = TRUE] ELSE conns[c]
  BY DEF Close, Destroy, Closes
<1>2. conns \in [Clients -> Connections] /\ \A d \in Clients : conns[d] \in Connections
  BY DEF IInv, TypeOK
<1>3. \/ /\ server.pc = "close" /\ server'.pc = "destroy"
         /\ server'.fd = server.fd /\ Peer' = Peer
      \/ /\ server.pc = "destroy" /\ server'.pc = "loop"
         /\ server'.fd = None /\ Peer' = Nobody
  BY DEF Close, Destroy, At, Peer, IInv, TypeOK
<1>4. TypeOK'
  <2>1. \A d \in Clients : conns'[d] \in Connections
    BY <1>1, <1>2 DEF Connections
  <2>2. conns' \in [Clients -> Connections]
    BY <2>1 DEF Close, Destroy, Closes
  <2>3. table' \in [Fds -> Clients \cup {Nobody, "listener"}]
    BY DEF Close, Destroy, Closes, IInv, TypeOK
  <2>4. server' \in [pc : ServerPC, fd : Fds \cup {None},
                     peer : Clients \cup Ports \cup {Nobody}]
    BY DEF Close, Destroy, At, IInv, TypeOK, ServerPC
  <2> QED
    BY <1>1, <2>2, <2>3, <2>4 DEF IInv, TypeOK
<1>5. server.fd \in Fds \cup {None} /\ server.fd # Listener
      /\ \A f \in Fds : f # None
  BY DEF IInv, TypeOK, TableIsRight, Fds, None
<1>6. \A c \in Clients : server.fd # None /\ table[server.fd] = c =>
          server.pc = "close" /\ c = Peer
  BY <1>3, <1>5, NamesAssumption DEF IInv, TableIsRight
<1>7. ServerOnly
  BY <1>1, <1>3 DEF ServerOnly
<1>8. \A d \in Clients : ServerServes(d)
  <2>1. \A d \in Clients : server.fd # None /\ table[server.fd] = d => conns[d].reply
    BY <1>6 DEF IInv, ServerIsRight
  <2> QED
    BY <1>1, <1>2, <2>1 DEF ServerServes, Connections
<1>9. TableIsRight'
  <2>1. \A f \in Fds : table'[f] = IF f = Listener THEN "listener" ELSE Nobody
    BY <1>1, <1>3, <1>5 DEF IInv, TableIsRight
  <2>2. None # Listener
    BY DEF None, Listener
  <2>3. CASE server'.pc = "destroy"
    BY <1>3, <1>5, <2>1, <2>3 DEF IInv, TableIsRight
  <2>4. CASE server'.pc = "loop"
    BY <1>3, <1>5, <2>1, <2>2, <2>4 DEF TableIsRight
  <2> QED
    BY <1>3, <2>3, <2>4
<1>10. ServerIsRight'
  BY <1>3 DEF ServerIsRight
<1> QED
  BY <1>4, <1>7, <1>8, <1>9, <1>10, ServerKeeps

(* Datagrams take no descriptor. *)
LEMMA ReplyTable ==
    ASSUME IInv, server.pc = "loop", table' = table,
           server'.pc = "reply", server'.fd = None
    PROVE  TableIsRight'
<1>1. server.fd = None /\ None # Listener
  BY DEF IInv, TableIsRight, None, Listener
<1> QED
  BY <1>1 DEF IInv, TableIsRight, None, Fds

(* A datagram is from a client that was given the port it comes from; what *)
(* addr holds is that port, or one that an earlier number came from.       *)
LEMMA ReceiveFromStep ==
    ASSUME IInv, ReceiveFrom
    PROVE  IInv'
<1>1. PICK d \in net : /\ d.to = "server" /\ net' \in SUBSET net
                       /\ printed' = printed \cup {d.from}
                       /\ addr' \in {d.port, addr, Nobody}
  BY DEF ReceiveFrom, Address
<1>2. server' = At("reply", None, addr')
  BY DEF ReceiveFrom
<1>3. /\ server.pc = "loop"
      /\ UNCHANGED <<tcp, table, addr_size, backlog, conns, client>>
  BY DEF ReceiveFrom
<1>4. d \in Datagrams /\ d.from \in Clients /\ client[d.from].port = d.port
  BY <1>1 DEF IInv, TypeOK, NetIsTrue
<1>5. server'.pc = "reply" /\ server'.fd = None /\ Peer' = addr'
  BY <1>2 DEF At, Peer
<1>6. TypeOK'
  <2>1. addr' \in Ports \cup {Nobody}
    BY <1>1, <1>4 DEF IInv, TypeOK, Datagrams
  <2>2. server' \in [pc : ServerPC, fd : Fds \cup {None},
                     peer : Clients \cup Ports \cup {Nobody}]
    BY <1>2, <2>1 DEF At, ServerPC
  <2>3. net' \in SUBSET Datagrams /\ printed' \in SUBSET Clients
    BY <1>1, <1>4 DEF IInv, TypeOK
  <2> QED
    BY <1>3, <2>1, <2>2, <2>3 DEF IInv, TypeOK
<1>7. addr' # Nobody => Known(addr)'
  <2>1. CASE addr' = d.port
    BY <1>1, <1>3, <1>4, <2>1 DEF Known
  <2>2. CASE addr' = addr
    BY <1>1, <1>3, <2>2 DEF IInv, NetIsTrue, Known
  <2> QED
    BY <1>1, <2>1, <2>2
<1>8. ServerOnly
  <2>1. Known(addr)' => Known(Peer)'
    BY <1>5 DEF Known
  <2> QED
    BY <1>1, <1>3, <1>5, <1>7, <2>1 DEF ServerOnly
<1>9. TableIsRight' /\ ServerIsRight'
  BY <1>3, <1>5, ReplyTable DEF ServerIsRight
<1> QED
  BY <1>3, <1>6, <1>8, <1>9, SameConns, ServerKeeps

(* A failed recvfrom() has the number of an earlier call answered again. *)
LEMMA ReceiveFailsStep ==
    ASSUME IInv, ReceiveFails
    PROVE  IInv'
<1>1. /\ server.pc = "loop" /\ addr' \in {addr, Nobody}
      /\ server' = At("reply", None, addr')
      /\ UNCHANGED <<tcp, table, addr_size, backlog, conns, net, client, printed>>
  BY DEF ReceiveFails
<1>2. server'.pc = "reply" /\ server'.fd = None /\ Peer' = addr'
  BY <1>1 DEF At, Peer
<1>3. TypeOK'
  <2>1. addr' \in Ports \cup {Nobody}
    BY <1>1 DEF IInv, TypeOK
  <2>2. server' \in [pc : ServerPC, fd : Fds \cup {None},
                     peer : Clients \cup Ports \cup {Nobody}]
    BY <1>1, <2>1 DEF At, ServerPC
  <2> QED
    BY <1>1, <2>1, <2>2 DEF IInv, TypeOK
<1>4. addr' # Nobody => Known(addr)'
  BY <1>1 DEF IInv, NetIsTrue, Known
<1>5. ServerOnly
  <2>1. Known(addr)' => Known(Peer)'
    BY <1>2 DEF Known
  <2> QED
    BY <1>1, <1>2, <1>4, <2>1 DEF ServerOnly
<1>6. TableIsRight' /\ ServerIsRight'
  BY <1>1, <1>2, ReplyTable DEF ServerIsRight
<1> QED
  BY <1>1, <1>3, <1>5, <1>6, SameConns, ServerKeeps

(* The reply goes to the port that was heard from, or nowhere. *)
LEMMA ReplyToStep ==
    ASSUME IInv, ReplyTo
    PROVE  IInv'
<1>1. /\ server.pc = "reply" /\ server' = At("loop", None, Nobody)
      /\ UNCHANGED <<tcp, table, addr_size, addr, backlog, conns, client, printed>>
      /\ \A m \in net' : m \in net \/ (Peer # Nobody /\ m = ToPort(Peer))
  BY DEF ReplyTo, Put
<1>2. Peer # Nobody => Known(Peer)
  BY <1>1 DEF IInv, NetIsTrue
<1>3. server'.pc = "loop" /\ server'.fd = None
  BY <1>1 DEF At
<1>4. TypeOK'
  <2>1. Peer # Nobody => Peer \in Ports
    BY <1>2 DEF Known, IInv, TypeOK, Processes
  <2>2. Peer # Nobody => ToPort(Peer) \in Datagrams
    BY <2>1 DEF ToPort, Datagrams
  <2>3. net' \in SUBSET Datagrams
    BY <1>1, <2>2 DEF IInv, TypeOK
  <2>4. server' \in [pc : ServerPC, fd : Fds \cup {None},
                     peer : Clients \cup Ports \cup {Nobody}]
    BY <1>1 DEF At, ServerPC
  <2> QED
    BY <1>1, <2>3, <2>4 DEF IInv, TypeOK
<1>5. ServerOnly
  <2>1. ASSUME NEW m \in net', m \notin net
        PROVE  m.to = "client" /\ m.port # Nobody /\ Known(m.port)
    BY <1>1, <1>2, <2>1 DEF ToPort
  <2> QED
    BY <1>1, <1>3, <2>1 DEF ServerOnly
<1>6. TableIsRight'
  <2>1. server.fd = None /\ None # Listener
    BY <1>1 DEF IInv, TableIsRight, None, Listener
  <2> QED
    BY <1>1, <1>3, <2>1 DEF IInv, TableIsRight, None, Fds
<1>7. ServerIsRight'
  BY <1>3 DEF ServerIsRight
<1> QED
  BY <1>1, <1>4, <1>5, <1>6, <1>7, SameConns, ServerKeeps

(* A datagram is lost. *)
LEMMA LoseStep ==
    ASSUME IInv, Lose
    PROVE  IInv'
<1>1. /\ net' \in SUBSET net
      /\ UNCHANGED <<tcp, server, table, addr_size, addr, backlog, conns, client, printed>>
  BY DEF Lose
<1>2. TypeOK'
  BY <1>1 DEF IInv, TypeOK
<1>3. ServerOnly
  <2>1. server.pc = "reply" /\ Peer # Nobody => Known(Peer)
    BY DEF IInv, NetIsTrue
  <2>2. Peer' = Peer /\ (Known(Peer) => Known(Peer)')
    BY <1>1 DEF Peer, Known
  <2> QED
    BY <1>1, <2>1, <2>2 DEF ServerOnly
<1>4. TableIsRight' /\ ServerIsRight'
  BY <1>1 DEF IInv, TableIsRight, ServerIsRight, Peer, HeardOf
<1> QED
  BY <1>1, <1>2, <1>3, <1>4, SameConns, ServerKeeps
-----------------------------------------------------------------------------
LEMMA NextIInv == IInv /\ [Next]_vars => IInv'
<1> SUFFICES ASSUME IInv, [Next]_vars PROVE IInv'
  OBVIOUS
<1>1. CASE ServerStep
  BY <1>1, AddPortStep, AcceptStep, AcceptFailsStep, ReceiveStep, ReplyStep,
     CloseStep, ReceiveFromStep, ReceiveFailsStep, ReplyToStep DEF ServerStep
<1>2. CASE Lose
  BY <1>2, LoseStep
<1>3. ASSUME NEW c \in Clients, ClientStep(c) \/ Kill(c) PROVE IInv'
  BY <1>3, ClientSteps
<1>4. CASE UNCHANGED vars
  BY <1>4 DEF vars, IInv, TypeOK, Progress, Earned, SharesPort, Running, NetIsTrue, Known, Served,
              HeardOf, TableIsRight, ServerIsRight, Peer, AckedWasHeard, ErrorMeansNotAccepted
<1> QED
  BY <1>1, <1>2, <1>3, <1>4 DEF Next

LEMMA SpecIInv == Spec => []IInv
  BY InitIInv, NextIInv, PTL DEF Spec

(* Every acknowledgement is earned: a client that got its reply had its    *)
(* number printed, or part of its message received, or, over UDP, a number *)
(* printed that came from its port, whatever is lost, repeated, delayed or *)
(* left in addr and whoever is killed, for any number of clients and ports *)
(* (receive_tcp and receive_udp, src/proj1/proj1_server.cpp).              *)
THEOREM AckCorrect == Spec => []AckedWasHeard
<1>1. IInv => AckedWasHeard
  BY DEF IInv
<1> QED
  BY SpecIInv, <1>1, PTL

(* A TCP client sees an error only if accept() failed: the second close()  *)
(* of a descriptor never cuts off another client (listen, service.hpp).    *)
THEOREM ErrorCorrect == Spec => []ErrorMeansNotAccepted
<1>1. IInv => ErrorMeansNotAccepted
  BY DEF IInv
<1> QED
  BY SpecIInv, <1>1, PTL
=============================================================================
