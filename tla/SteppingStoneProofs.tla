------------------------- MODULE SteppingStoneProofs -------------------------
(***************************************************************************)
(* Proofs about SteppingStone, for any number of stones and requests, any  *)
(* chains, files and crashes.                                              *)
(***************************************************************************)
EXTENDS SteppingStone, TLAPS, SequenceTheorems, FiniteSetTheorems, WellFoundedInduction

Elements == Stones \cup {Junk}
NoJunk(l) == \A i \in 1 .. Len(l) : l[i] # Junk
Chain(n) == setting.chain[n[1]]

(* Before a node reads its list, and before it has called the next one *)
Waiting == {"backlog", "header", "list"}
Early == {"none", "dial"} \cup Waiting

(* While it talks to the next one *)
Calling == {"send", "reply", "relay", "forward"}

TypeOK ==
    /\ setting \in Settings
    /\ up \in SUBSET Stones
    /\ pc \in [Nodes -> PC]
    /\ at \in [Nodes -> Stones \cup {NoStone}]
    /\ list \in [Nodes -> Seq(Elements)]
    /\ DOMAIN size = Nodes /\ DOMAIN todo = Nodes /\ DOMAIN left = Nodes
    /\ DOMAIN down = Nodes /\ DOMAIN back = Nodes

(* Who started, ended or is sending *)
Phase(n) ==
    /\ pc[n] = "send" => todo[n] \in Seq(Elements \cup Nat) /\ todo[n] # <<>>
    /\ pc[n] = "reply" => todo[n] = <<>>
    /\ pc[n] \in Calling => Succ(n) \in Nodes /\ pc[Succ(n)] # "none"
    /\ IsAwget(n) => at[n] = NoStone /\ pc[n] \notin Waiting \cup {"none"}
    /\ ~IsAwget(n) => (at[n] = NoStone <=> pc[n] = "none")

(* The k-th stone starts after the one before it has read its list. *)
InOrder ==
    \A q \in Requests : \A k \in 0 .. MaxHops : \A j \in 0 .. (k - 1) :
        pc[<<q, k>>] # "none" => pc[<<q, j>>] \notin Early

(* A stone that has not read its list has sent nothing back, and who sends *)
(* the list has not gone on.                                               *)
Unanswered(m) ==
    pc[m] \in Waiting \cup {"none"} =>
        /\ ~IsAwget(m) /\ m \notin srvShut /\ back[m] = <<>>
        /\ pc[m] # "none" => pc[Prev(m)] \in {"send", "reply", "killed"}

(* Every stone before n was picked from a list that had come whole. *)
Straight(n) == \A k \in 0 .. (n[2] - 1) : NoJunk(list[<<n[1], k>>])

(* l is as long as the chain leaves after the stones up to n, and what it  *)
(* leaves if no list on the way there had an element that had not come.    *)
RightFor(n, l) ==
    /\ n[2] + Len(l) = Len(Chain(n))
    /\ Straight(n) /\ NoJunk(l) => \A t \in Stones : Count(Visited(n), t) + Count(l, t) = Count(Chain(n), t)

(* The list is on its way, or being read, or has been read. *)
OnItsWay(m) ==
    \E rest \in Seq(Elements) :
        /\ RightFor(m, rest) /\ list[m] = <<>>
        /\ down[m] \in Seq(Elements \cup Nat) /\ todo[Prev(m)] \in Seq(Elements \cup Nat)
        /\ down[m] \o todo[Prev(m)] = <<Len(rest)>> \o rest
InParts(m) ==
    \E rest \in Seq(Elements) :
        /\ RightFor(m, rest) /\ size[m] = Len(rest) /\ Len(list[m]) < Len(rest)
        /\ down[m] \in Seq(Elements \cup {Part}) /\ todo[Prev(m)] \in Seq(Elements)
        /\ NoJunk(list[m]) => list[m] \o (down[m] \o todo[Prev(m)]) = rest
Route(m) ==
    /\ pc[m] = "none" => list[m] = <<>> /\ down[m] = <<>>
    /\ pc[m] \in {"backlog", "header"} => OnItsWay(m)
    /\ pc[m] = "list" => InParts(m)
    /\ HasList(m) => RightFor(m, list[m])

IInv == /\ TypeOK /\ InOrder
        /\ \A n \in Nodes : Phase(n) /\ Unanswered(n) /\ Route(n)
-----------------------------------------------------------------------------
LEMMA NodeFacts ==
    ASSUME NEW n \in Nodes
    PROVE  /\ n[1] \in Requests /\ n[2] \in 0 .. MaxHops /\ n = <<n[1], n[2]>>
           /\ Prev(Succ(n)) = n /\ Succ(Prev(n)) = n
           /\ Succ(n) # n /\ ~IsAwget(Succ(n))
           /\ ~IsAwget(n) => Prev(n) \in Nodes /\ Prev(n) # n
           /\ n[2] < MaxHops => Succ(n) \in Nodes
  BY SettingAssumption DEF Nodes, Prev, Succ, IsAwget

(* The stones a request has gone through stay the same, and their lists. *)
LEMMA RightForKeeps ==
    ASSUME NEW m \in Nodes, setting' = setting,
           \A k \in 1 .. m[2] : at'[<<m[1], k>>] = at[<<m[1], k>>],
           \A k \in 0 .. (m[2] - 1) : list'[<<m[1], k>>] = list[<<m[1], k>>]
    PROVE  \A l : RightFor(m, l)' <=> RightFor(m, l)
<1>1. Visited(m)' = Visited(m) /\ Chain(m)' = Chain(m)
  BY DEF Visited, Chain
<1>2. Straight(m)' <=> Straight(m)
  BY DEF Straight, NoJunk
<1> QED
  BY <1>1, <1>2 DEF RightFor

(* What a node that has read its list goes on to *)
Late == {"relay", "forward", "fetch", "open", "serve", "close", "spin"} \cup Ended

Moves(m) ==
    \/ pc'[m] = pc[m]
    \/ pc[m] = "backlog" /\ pc'[m] = "header"
    \/ pc[m] # "none" /\ pc'[m] = "killed"
    \/ /\ pc[m] \notin {"none"} \cup Ended /\ pc'[m] \in Late
       /\ HasList(m)' => HasList(m)
       /\ pc'[m] \in Calling => pc[m] \in Calling
       /\ pc[m] \in {"send", "reply"} /\ Succ(m) \in Nodes => pc[Succ(m)] \notin Waiting

(* A step that moves no list *)
Quiet ==
    /\ UNCHANGED <<setting, at, list, size, down>>
    /\ \A m \in Nodes : Moves(m)
    /\ \A m \in Nodes : pc[m] \in Waiting => todo'[Prev(m)] = todo[Prev(m)]
    /\ \A m \in Nodes : pc'[m] \in {"send", "reply"} => todo'[m] = todo[m]
    /\ \A m \in Nodes : pc'[m] \in Waiting \cup {"none"} =>
                            m \notin srvShut' /\ back'[m] = <<>>

LEMMA QuietKeeps ==
    ASSUME IInv, Quiet, TypeOK'
    PROVE  IInv'
<1> USE DEF Quiet
<1>1. InOrder'
  <2> SUFFICES ASSUME NEW q \in Requests, NEW k \in 0 .. MaxHops, NEW j \in 0 .. (k - 1),
                      pc'[<<q, k>>] # "none"
               PROVE  pc'[<<q, j>>] \notin Early
    BY DEF InOrder
  <2>1. <<q, k>> \in Nodes /\ <<q, j>> \in Nodes
    BY SettingAssumption DEF Nodes
  <2>2. pc[<<q, k>>] # "none"
    BY <2>1 DEF Moves
  <2>3. pc[<<q, j>>] \notin Early
    BY <2>2 DEF IInv, InOrder
  <2> QED
    BY <2>1, <2>3 DEF Moves, Early, Waiting, Late, Ended
<1>2. ASSUME NEW n \in Nodes PROVE Phase(n)'
  <2>1. Phase(n) /\ Moves(n)
    BY DEF IInv
  <2>2. pc'[n] \in Calling => Succ(n) \in Nodes /\ pc'[Succ(n)] # "none"
    <3>1. pc'[n] \in Calling => pc[n] \in Calling
      BY <2>1 DEF Moves, Calling
    <3> QED
      BY <2>1, <3>1 DEF Phase, Moves, Late, Ended
  <2>3. IsAwget(n) => pc'[n] \notin Waiting \cup {"none"}
    BY <2>1 DEF Phase, Moves, Late, Ended, Waiting
  <2> QED
    BY <2>1, <2>2, <2>3 DEF Phase, Moves, IsAwget, Late, Ended
<1>3. ASSUME NEW m \in Nodes PROVE Unanswered(m)'
  <2> SUFFICES ASSUME pc'[m] \in Waiting, pc'[m] # "none"
               PROVE  pc'[Prev(m)] \in {"send", "reply", "killed"}
    <3>1. Unanswered(m) /\ Moves(m)
      BY DEF IInv
    <3>2. pc'[m] \in Waiting \cup {"none"} => ~IsAwget(m)
      BY <3>1 DEF Unanswered, Moves, Waiting, Late, Ended
    <3> QED
      BY <3>2 DEF Unanswered, IsAwget
  <2>1. Unanswered(m) /\ Moves(m)
    BY DEF IInv
  <2>2. pc[m] \in Waiting /\ ~IsAwget(m)
    BY <2>1 DEF Moves, Waiting, Late, Ended, Unanswered
  <2>3. pc[Prev(m)] \in {"send", "reply", "killed"}
    BY <2>1, <2>2 DEF Unanswered, Waiting
  <2>4. Moves(Prev(m)) /\ Succ(Prev(m)) = m
    BY <2>2, NodeFacts
  <2> QED
    BY <2>2, <2>3, <2>4 DEF Moves, Late, Ended, HasList
<1>4. ASSUME NEW m \in Nodes PROVE Route(m)'
  <2>1. Route(m) /\ Moves(m)
    BY DEF IInv
  <2>2. \A l : RightFor(m, l)' <=> RightFor(m, l)
    BY RightForKeeps
  <2>3. HasList(m)' => HasList(m)
    BY <2>1 DEF Moves, HasList
  <2>4. pc'[m] \in Waiting => /\ pc[m] \in Waiting
                              /\ pc'[m] = "list" <=> pc[m] = "list"
    BY <2>1 DEF Moves, Waiting, Late, Ended
  <2>5. ASSUME pc'[m] \in {"backlog", "header"} PROVE OnItsWay(m)'
    BY <2>1, <2>2, <2>4, <2>5 DEF Route, OnItsWay, Waiting
  <2>6. ASSUME pc'[m] = "list" PROVE InParts(m)'
    BY <2>1, <2>2, <2>4, <2>6 DEF Route, InParts, Waiting
  <2>7. HasList(m)' => RightFor(m, list[m])'
    BY <2>1, <2>2, <2>3 DEF Route
  <2>8. list'[m] = list[m]
    OBVIOUS
  <2>9. pc'[m] = "none" => pc[m] = "none" /\ down'[m] = down[m]
    BY <2>1 DEF Moves, Late, Ended
  <2> QED
    BY <2>1, <2>5, <2>6, <2>7, <2>8, <2>9 DEF Route
<1> QED
  BY <1>1, <1>2, <1>3, <1>4 DEF IInv

(* One node goes on, and moves no list. *)
OneQuiet(n, where) ==
    /\ UNCHANGED <<setting, up, at, list, size, down>>
    /\ where \in PC /\ pc' = [pc EXCEPT ![n] = where]
    /\ DOMAIN todo' = Nodes /\ DOMAIN left' = Nodes /\ DOMAIN back' = Nodes
    /\ \A m \in Nodes : m # n => /\ todo'[m] = todo[m]
                                 /\ back'[m] = back[m] \/ (m = Succ(n) /\ back[m] # <<>>)
                                 /\ m \in srvShut' => m \in srvShut
    /\ \/ pc[n] = "backlog" /\ where = "header" /\ UNCHANGED <<back, srvShut>>
       \/ /\ pc[n] \notin {"none"} \cup Ended /\ where \in Late
          /\ HasList(n)' => HasList(n)
          /\ where \in Calling => pc[n] \in Calling
          /\ pc[n] \in {"send", "reply"} /\ Succ(n) \in Nodes => pc[Succ(n)] \notin Waiting

LEMMA OneQuietKeeps ==
    ASSUME IInv, NEW n \in Nodes, NEW where, OneQuiet(n, where)
    PROVE  IInv'
<1> USE DEF OneQuiet
<1>1. /\ pc \in [Nodes -> PC] /\ pc' \in [Nodes -> PC] /\ pc'[n] = where
      /\ \A m \in Nodes : m # n => pc'[m] = pc[m]
  BY DEF IInv, TypeOK
<1>2. TypeOK'
  BY <1>1 DEF IInv, TypeOK
<1>3. \A m \in Nodes : Moves(m)
  BY <1>1 DEF Moves
<1>4. ASSUME NEW m \in Nodes, pc[m] \in Waiting
      PROVE  todo'[Prev(m)] = todo[Prev(m)]
  <2>1. Unanswered(m) /\ ~IsAwget(m) /\ Prev(m) \in Nodes /\ Succ(Prev(m)) = m
    BY <1>4, NodeFacts DEF IInv, Unanswered
  <2>2. pc[Prev(m)] \in {"send", "reply", "killed"}
    BY <1>4, <2>1 DEF Unanswered, Waiting
  <2>3. Prev(m) # n
    BY <1>4, <2>1, <2>2 DEF Ended
  <2> QED
    BY <2>1, <2>3
<1>5. \A m \in Nodes : pc'[m] \in {"send", "reply"} => todo'[m] = todo[m]
  BY <1>1 DEF Late, Ended
<1>6. ASSUME NEW m \in Nodes, pc'[m] \in Waiting \cup {"none"}
      PROVE  m \notin srvShut' /\ back'[m] = <<>>
  <2>1. m \notin srvShut /\ back[m] = <<>>
    BY <1>1, <1>6 DEF IInv, Unanswered, Late, Ended, Waiting
  <2> QED
    BY <1>1, <1>6, <2>1 DEF Late, Ended, Waiting
<1> QED
  BY <1>2, <1>3, <1>4, <1>5, <1>6, QuietKeeps DEF Quiet

(* A process ends, with every thread of its stone. *)
LEMMA KillKeeps ==
    ASSUME IInv, NEW n \in Nodes, Alive(n), Kill(n)
    PROVE  IInv'
<1>1. /\ \A m \in Nodes : pc'[m] = IF m \in Threads(n) /\ Alive(m) THEN "killed" ELSE pc[m]
      /\ srvShut' = srvShut \cup Threads(n) /\ up' \in SUBSET up
      /\ UNCHANGED <<setting, at, list, size, todo, left, down, back>>
  BY DEF Kill, reading, links
<1>2. TypeOK'
  <2>1. pc' \in [Nodes -> PC]
    <3>1. \A m \in Nodes : pc'[m] \in PC
      BY <1>1 DEF IInv, TypeOK, PC, Ended
    <3> QED
      BY <3>1 DEF Kill
  <2> QED
    BY <1>1, <2>1 DEF IInv, TypeOK
<1>3. \A m \in Nodes : Moves(m)
  BY <1>1 DEF Moves, Alive
<1>4. ASSUME NEW m \in Nodes, pc'[m] \in Waiting \cup {"none"}
      PROVE  m \notin srvShut' /\ back'[m] = <<>>
  <2>1. pc[m] = pc'[m] /\ m \notin srvShut /\ back[m] = <<>> /\ Phase(m) /\ Phase(n)
    BY <1>1, <1>4 DEF IInv, Unanswered, Waiting
  <2>2. m \notin Threads(n)
    <3> SUFFICES ASSUME m \in Threads(n) PROVE FALSE
      OBVIOUS
    <3>1. pc[m] = "none"
      BY <1>1, <1>4, <2>1 DEF Alive, Waiting, Ended
    <3>2. m # n /\ ~IsAwget(n)
      BY <3>1 DEF Alive, Threads
    <3> QED
      BY <1>4, <2>1, <3>1, <3>2 DEF Threads, Phase, Alive
  <2> QED
    BY <1>1, <2>1, <2>2
<1> QED
  BY <1>1, <1>2, <1>3, <1>4, QuietKeeps DEF Quiet

(* The stone after one that sent its list has gone on when it answers or   *)
(* ends.                                                                   *)
LEMMA Answered ==
    ASSUME IInv, NEW n \in Nodes, Succ(n) \in Nodes,
           \/ back[Succ(n)] # <<>> \/ Succ(n) \in srvShut
           \/ pc[Succ(n)] = "killed"
    PROVE  pc[Succ(n)] \notin Waiting
<1>1. Unanswered(Succ(n)) /\ ~IsAwget(Succ(n))
  BY NodeFacts DEF IInv
<1> QED
  BY <1>1 DEF Unanswered, Waiting

LEMMA AcceptStep ==
    ASSUME IInv, NEW n \in Nodes, Accept(n)
    PROVE  IInv'
<1>1. OneQuiet(n, "header")
  BY DEF Accept, OneQuiet, IInv, TypeOK, PC, reading, links, shut
<1> QED
  BY <1>1, OneQuietKeeps

LEMMA FailSteps ==
    ASSUME IInv, NEW n \in Nodes,
           \/ Refused(n) \/ LookupFails(n) \/ SendFails(n) \/ SpinHeader(n)
           \/ RecvReset(n) \/ SpinRelay(n) \/ CannotServe(n)
    PROVE  IInv'
<1>1. /\ UNCHANGED <<setting, up, at, list, size, todo, left, down, back>>
      /\ \A m \in Nodes : m # n => (m \in srvShut' => m \in srvShut)
  BY DEF Refused, LookupFails, SendFails, DialsJunk, SendsDown, SendsBack,
         SpinHeader, RecvReset, SpinRelay, CannotServe, End, EndKeeping,
         reading, links, shut
<1>2. /\ pc[n] \notin {"none"} \cup Ended
      /\ pc[n] \in {"send", "reply"} => RecvReset(n) \/ SendsDown(n)
  BY DEF Refused, LookupFails, SendFails, DialsJunk, SendsDown, SendsBack,
         SpinHeader, RecvReset, SpinRelay, CannotServe, Ended
<1>3. \/ pc' = [pc EXCEPT ![n] = "spin"]
      \/ pc' = [pc EXCEPT ![n] = "failed"]
  BY DEF Refused, LookupFails, SendFails, DialsJunk, SendsDown, SendsBack,
         SpinHeader, RecvReset, SpinRelay, CannotServe, End, EndKeeping
<1>4. pc[n] \in {"send", "reply"} /\ Succ(n) \in Nodes => pc[Succ(n)] \notin Waiting
  BY <1>2, Answered DEF RecvReset, SendsDown
<1>5. /\ DOMAIN todo' = Nodes /\ DOMAIN left' = Nodes /\ DOMAIN back' = Nodes
      /\ pc \in [Nodes -> PC] /\ {"spin", "failed"} \subseteq PC \cap Late
  BY <1>1 DEF IInv, TypeOK, PC, Late, Ended
<1>6. ASSUME NEW how \in {"spin", "failed"}, pc' = [pc EXCEPT ![n] = how]
      PROVE  OneQuiet(n, how)
  <2>1. ~HasList(n)' /\ how \notin Calling
    BY <1>5, <1>6 DEF HasList, Calling
  <2> QED
    BY <1>1, <1>2, <1>4, <1>5, <1>6, <2>1 DEF OneQuiet
<1> QED
  BY <1>3, <1>6, OneQuietKeeps

(* The file on its way back: a step of a node that has read its list *)
Onward(n, how) ==
    /\ how \in {"received", "relay", "forward", "serve", "close", "open", "done"}
    /\ pc' = [pc EXCEPT ![n] = how]
    /\ how \in Calling => pc[n] \in Calling

LEMMA BackSteps ==
    ASSUME IInv, NEW n \in Nodes,
           RecvReply(n) \/ RecvData(n) \/ SendBack(n) \/ Fetch(n) \/ Open(n) \/ Clean(n) \/ Close(n)
    PROVE  IInv'
<1>1. /\ UNCHANGED <<setting, up, at, list, size, down>>
      /\ \A m \in Nodes : m # n => (m \in srvShut' => m \in srvShut)
  BY DEF RecvReply, RecvData, SendBack, Fetch, Open, Clean, Close, End, reading, links, shut
<1>2. pc[n] \in {"reply", "relay", "forward", "serve", "fetch", "open", "close"}
  BY DEF RecvReply, RecvData, SendBack, Fetch, Open, Clean, Close
<1>3. \E how : Onward(n, how)
  <2> USE DEF Calling, Onward
  <2>1. pc = [pc EXCEPT ![n] = pc[n]]
    BY DEF IInv, TypeOK
  <2>2. CASE RecvReply(n)
    BY <2>2 DEF RecvReply, End
  <2>3. CASE RecvData(n)
    BY <2>1, <2>3 DEF RecvData, End
  <2>4. CASE SendBack(n)
    BY <2>4 DEF SendBack
  <2>5. CASE Fetch(n) \/ Open(n) \/ Clean(n) \/ Close(n)
    BY <2>5 DEF Fetch, Open, Clean, Close, End
  <2> QED
    BY <2>2, <2>3, <2>4, <2>5
<1>4. /\ DOMAIN todo' = Nodes /\ DOMAIN left' = Nodes /\ DOMAIN back' = Nodes
      /\ \A m \in Nodes : m # n => /\ todo'[m] = todo[m]
                                   /\ back'[m] = back[m] \/ (m = Succ(n) /\ back[m] # <<>>)
  BY DEF RecvReply, RecvData, SendBack, Fetch, Open, Clean, Close, TakeBack, links, IInv, TypeOK
<1>5. pc[n] \in {"send", "reply"} /\ Succ(n) \in Nodes => pc[Succ(n)] \notin Waiting
  <2> SUFFICES ASSUME pc[n] = "reply", Succ(n) \in Nodes PROVE pc[Succ(n)] \notin Waiting
    BY <1>2
  <2>1. Replies(n) # {}
    BY DEF RecvReply, RecvData, SendBack, Fetch, Open, Clean, Close
  <2>2. back[Succ(n)] # <<>> \/ Succ(n) \in srvShut
    BY <2>1 DEF Replies
  <2> QED
    BY <2>2, Answered
<1>6. ASSUME NEW how, Onward(n, how) PROVE OneQuiet(n, how)
  <2> USE DEF Onward
  <2>1. how \in PC /\ how \in Late /\ HasList(n)
    BY <1>2, <1>6 DEF PC, Late, Ended, HasList
  <2>2. pc[n] \notin {"none"} \cup Ended
    BY <1>2 DEF Ended
  <2> QED
    BY <1>1, <1>4, <1>5, <1>6, <2>1, <2>2 DEF OneQuiet
<1> QED
  BY <1>3, <1>6, OneQuietKeeps

LEMMA KillSteps ==
    ASSUME IInv, NEW n \in Nodes, ConnectJunk(n) \/ SigPipe(n) \/ Crash(n)
    PROVE  IInv'
<1>1. Alive(n) /\ Kill(n)
  BY DEF ConnectJunk, SigPipe, DialsJunk, SendsDown, SendsBack, Crash, Alive, Ended
<1> QED
  BY <1>1, KillKeeps
-----------------------------------------------------------------------------
(* Where an element is *)
Places(l, x) == {i \in 1 .. Len(l) : l[i] = x}

LEMMA PlacesFinite ==
    ASSUME NEW S, NEW l \in Seq(S), NEW x
    PROVE  /\ IsFiniteSet(Places(l, x)) /\ Count(l, x) = Cardinality(Places(l, x))
           /\ Count(l, x) \in Nat
<1>1. IsFiniteSet(1 .. Len(l)) /\ Places(l, x) \in SUBSET (1 .. Len(l))
  BY FS_Interval DEF Places
<1>2. IsFiniteSet(Places(l, x))
  BY <1>1, FS_Subset
<1> QED
  BY <1>2, FS_CardinalityType DEF Places, Count

(* A sequence that grew by one element at its end *)
LEMMA CountGrows ==
    ASSUME NEW S, NEW l \in Seq(S), NEW r \in Seq(S), Len(r) = Len(l) + 1,
           \A i \in 1 .. Len(l) : r[i] = l[i], NEW x
    PROVE  /\ r[Len(r)] = x => Count(r, x) = Count(l, x) + 1
           /\ r[Len(r)] # x => Count(r, x) = Count(l, x)
<1>1. /\ IsFiniteSet(Places(l, x)) /\ Count(l, x) = Cardinality(Places(l, x))
      /\ Count(r, x) = Cardinality(Places(r, x))
  BY PlacesFinite
<1>2. \A i : i \in 1 .. Len(r) <=> i \in 1 .. Len(l) \/ i = Len(r)
  OBVIOUS
<1>3. Len(r) \notin Places(l, x)
  BY DEF Places
<1>4. ASSUME r[Len(r)] = x PROVE Count(r, x) = Count(l, x) + 1
  <2>1. Places(r, x) = Places(l, x) \cup {Len(r)}
    BY <1>2, <1>4 DEF Places
  <2> QED
    BY <1>1, <1>3, <2>1, FS_AddElement
<1>5. ASSUME r[Len(r)] # x PROVE Count(r, x) = Count(l, x)
  <2>1. Places(r, x) = Places(l, x)
    BY <1>2, <1>5 DEF Places
  <2> QED
    BY <1>1, <2>1
<1> QED
  BY <1>4, <1>5

LEMMA WithoutIs ==
    ASSUME NEW S, NEW l \in Seq(S), NEW i \in 1 .. Len(l)
    PROVE  /\ Without(l, i) \in Seq(S) /\ Len(Without(l, i)) = Len(l) - 1
           /\ \A j \in 1 .. (i - 1) : Without(l, i)[j] = l[j]
           /\ \A j \in i .. (Len(l) - 1) : Without(l, i)[j] = l[j + 1]
<1> DEFINE a == SubSeq(l, 1, i - 1)
           b == SubSeq(l, i + 1, Len(l))
<1>1. /\ a \in Seq(S) /\ Len(a) = i - 1 /\ \A j \in 1 .. (i - 1) : a[j] = l[j]
  <2>1. \A j \in 1 .. (i - 1) : l[j] \in S
    BY ElementOfSeq
  <2> QED
    BY <2>1, SubSeqProperties
<1>2. /\ b \in Seq(S) /\ Len(b) = Len(l) - i /\ \A j \in 1 .. (Len(l) - i) : b[j] = l[i + j]
  <2>1. \A j \in (i + 1) .. Len(l) : l[j] \in S
    BY ElementOfSeq
  <2>2. /\ b \in Seq(S) /\ Len(b) = IF i + 1 <= Len(l) THEN Len(l) - (i + 1) + 1 ELSE 0
        /\ \A j \in 1 .. Len(l) - (i + 1) + 1 : b[j] = l[(i + 1) + j - 1]
    BY <2>1, SubSeqProperties
  <2> QED
    BY <2>2
<1>3. /\ a \o b \in Seq(S) /\ Len(a \o b) = Len(a) + Len(b)
      /\ \A j \in 1 .. Len(a) + Len(b) : (a \o b)[j] = IF j <= Len(a) THEN a[j] ELSE b[j - Len(a)]
  BY <1>1, <1>2, ConcatProperties
<1>4. Without(l, i) = a \o b /\ Len(l) \in Nat
  BY DEF Without
<1> HIDE DEF a, b
<1>5. Len(a) + Len(b) = Len(l) - 1
  BY <1>1, <1>2, <1>4
<1>6. ASSUME NEW j \in i .. (Len(l) - 1) PROVE (a \o b)[j] = l[j + 1]
  <2>1. (a \o b)[j] = b[j - (i - 1)]
    BY <1>1, <1>3, <1>4, <1>5
  <2>2. j - (i - 1) \in 1 .. (Len(l) - i) /\ i + (j - (i - 1)) = j + 1
    BY <1>4
  <2> QED
    BY <1>2, <2>1, <2>2
<1>7. ASSUME NEW j \in 1 .. (i - 1) PROVE (a \o b)[j] = l[j]
  BY <1>1, <1>3, <1>4, <1>5
<1> QED
  BY <1>3, <1>4, <1>5, <1>6, <1>7

(* The stone picked is taken off the list once. *)
LEMMA CountWithout ==
    ASSUME NEW S, NEW l \in Seq(S), NEW i \in 1 .. Len(l), NEW x
    PROVE  /\ l[i] = x => Count(Without(l, i), x) + 1 = Count(l, x)
           /\ l[i] # x => Count(Without(l, i), x) = Count(l, x)
<1> DEFINE w == Without(l, i)
           A == Places(l, x) \ {i}
           B == Places(w, x)
           f == [j \in A |-> IF j < i THEN j ELSE j - 1]
<1>1. /\ w \in Seq(S) /\ Len(w) = Len(l) - 1
      /\ \A j \in 1 .. (i - 1) : w[j] = l[j]
      /\ \A j \in i .. (Len(l) - 1) : w[j] = l[j + 1]
  BY WithoutIs
<1>2. /\ IsFiniteSet(Places(l, x)) /\ Count(l, x) = Cardinality(Places(l, x))
      /\ Count(l, x) \in Nat /\ Count(w, x) = Cardinality(B)
  BY <1>1, PlacesFinite
<1>3. Cardinality(A) = Cardinality(B)
  <2>1. \A j \in A : f[j] \in B
    <3> SUFFICES ASSUME NEW j \in A PROVE f[j] \in B
      OBVIOUS
    <3>1. j \in 1 .. Len(l) /\ l[j] = x /\ j # i
      BY DEF Places
    <3>2. CASE j < i
      BY <1>1, <3>1, <3>2 DEF Places
    <3>3. CASE j > i
      <4>1. j - 1 \in i .. (Len(l) - 1) /\ w[j - 1] = l[j]
        BY <1>1, <3>1, <3>3
      <4> QED
        BY <1>1, <3>1, <3>3, <4>1 DEF Places
    <3> QED
      BY <3>1, <3>2, <3>3
  <2>2. \A j, k \in A : f[j] = f[k] => j = k
    BY DEF Places
  <2>3. \A k \in B : \E j \in A : f[j] = k
    <3> SUFFICES ASSUME NEW k \in B PROVE \E j \in A : f[j] = k
      OBVIOUS
    <3>1. k \in 1 .. (Len(l) - 1) /\ w[k] = x
      BY <1>1 DEF Places
    <3>2. CASE k < i
      <4>1. k \in A
        BY <1>1, <3>1, <3>2 DEF Places
      <4> QED
        BY <3>2, <4>1
    <3>3. CASE k >= i
      <4>1. k + 1 \in A
        BY <1>1, <3>1, <3>3 DEF Places
      <4>2. f[k + 1] = k
        BY <3>1, <3>3, <4>1
      <4> QED
        BY <4>1, <4>2
    <3> QED
      BY <3>1, <3>2, <3>3
  <2>4. f \in Bijection(A, B)
    BY <2>1, <2>2, <2>3 DEF Bijection, Injection, Surjection, IsInjective
  <2>5. ExistsBijection(A, B)
    BY <2>4 DEF ExistsBijection
  <2>6. IsFiniteSet(A)
    BY <1>2, FS_RemoveElement
  <2> QED
    BY <2>5, <2>6, FS_Bijection
<1>4. Cardinality(A) = IF i \in Places(l, x) THEN Cardinality(Places(l, x)) - 1
                       ELSE Cardinality(Places(l, x))
  BY <1>2, FS_RemoveElement
<1>5. i \in Places(l, x) <=> l[i] = x
  BY DEF Places
<1> QED
  BY <1>2, <1>3, <1>4, <1>5
-----------------------------------------------------------------------------
(* The parts of a concatenation are of its type. *)
LEMMA ConcatTypes ==
    ASSUME NEW S, NEW T, NEW a \in Seq(S), NEW b \in Seq(S), a \o b \in Seq(T)
    PROVE  a \in Seq(T) /\ b \in Seq(T)
<1>1. /\ Len(a \o b) = Len(a) + Len(b) /\ Len(a) \in Nat /\ Len(b) \in Nat
      /\ \A i \in 1 .. Len(a) + Len(b) :
            (a \o b)[i] = IF i <= Len(a) THEN a[i] ELSE b[i - Len(a)]
  BY ConcatProperties
<1>2. \A i \in 1 .. Len(a) + Len(b) : (a \o b)[i] \in T
  BY <1>1, ElementOfSeq
<1>3. \A i \in 1 .. Len(a) : a[i] \in T
  BY <1>1, <1>2
<1>4. ASSUME NEW i \in 1 .. Len(b) PROVE b[i] \in T
  <2>1. i + Len(a) \in 1 .. Len(a) + Len(b) /\ ~(i + Len(a) <= Len(a))
        /\ (i + Len(a)) - Len(a) = i
    BY <1>1
  <2> QED
    BY <1>1, <1>2, <2>1
<1>5. a \in [1 .. Len(a) -> T] /\ b \in [1 .. Len(b) -> T]
  BY <1>3, <1>4, LenProperties
<1> QED
  BY <1>1, <1>5, SeqDef

LEMMA FunctionIsSeq ==
    ASSUME NEW S, NEW k \in Nat, NEW f \in [1 .. k -> S]
    PROVE  f \in Seq(S) /\ Len(f) = k
<1>1. f \in Seq(S)
  BY SeqDef
<1>2. 1 .. Len(f) = 1 .. k /\ Len(f) \in Nat
  BY <1>1, LenProperties
<1> QED
  BY <1>1, <1>2

(* What is sent next moves from one sequence to the end of the other. *)
LEMMA ConcatMoves ==
    ASSUME NEW S, NEW a \in Seq(S), NEW b \in Seq(S), b # <<>>
    PROVE  /\ Append(a, Head(b)) \o Tail(b) = a \o b
           /\ Append(a, Head(b)) \in Seq(S) /\ Tail(b) \in Seq(S) /\ Head(b) \in S
           /\ b = <<Head(b)>> \o Tail(b)
<1>1. Head(b) \in S /\ Tail(b) \in Seq(S) /\ <<Head(b)>> \in Seq(S)
  BY HeadTailProperties
<1>2. Append(a, Head(b)) = a \o <<Head(b)>> /\ Append(a, Head(b)) \in Seq(S)
  BY <1>1, AppendIsConcat, AppendProperties
<1>3. <<Head(b)>> \o Tail(b) = b
  BY <1>1
<1> QED
  BY <1>1, <1>2, <1>3, ConcatAssociative

(* A first element taken off a concatenation *)
LEMMA ConcatTail ==
    ASSUME NEW S, NEW a \in Seq(S), NEW b \in Seq(S), a # <<>>
    PROVE  Tail(a) \o b = Tail(a \o b) /\ Head(a \o b) = Head(a) /\ a \o b # <<>>
<1>1. Head(a) \in S /\ Tail(a) \in Seq(S) /\ a = <<Head(a)>> \o Tail(a)
  BY ConcatMoves
<1>2. a \o b = <<Head(a)>> \o (Tail(a) \o b) /\ Tail(a) \o b \in Seq(S)
  <2>1. <<Head(a)>> \in Seq(S)
    BY <1>1
  <2> QED
    BY <1>1, <2>1, ConcatAssociative, ConcatProperties
<1> QED
  BY <1>1, <1>2

(* What is sent is what is received. *)
LEMMA SentIsReceived ==
    ASSUME NEW S, NEW a, NEW b, a \in Seq(S) /\ b \in Seq(S) /\ b # <<>>
    PROVE  /\ Append(a, Head(b)) \o Tail(b) = a \o b
           /\ Append(a, Head(b)) \in Seq(S)
  BY ConcatMoves

(* The same, with more behind it *)
LEMMA ElementMoves ==
    ASSUME NEW S, NEW l \in Seq(S), NEW a \in Seq(S), NEW b \in Seq(S), a # <<>>
    PROVE  Append(l, Head(a)) \o (Tail(a) \o b) = l \o (a \o b)
<1>1. /\ Head(a) \in S /\ Tail(a) \in Seq(S) /\ Append(l, Head(a)) \in Seq(S)
      /\ Append(l, Head(a)) \o Tail(a) = l \o a
  BY ConcatMoves
<1>2. PICK u, c : u = Append(l, Head(a)) /\ c = Tail(a)
  OBVIOUS
<1>3. u \o (c \o b) = (u \o c) \o b
  BY <1>1, <1>2, ConcatAssociative
<1>4. (l \o a) \o b = l \o (a \o b)
  BY ConcatAssociative
<1> QED
  BY <1>1, <1>2, <1>3, <1>4

(* A node that is not part of a step *)
LEMMA OtherRoute ==
    ASSUME IInv, NEW m \in Nodes, setting' = setting, pc'[m] = pc[m],
           list'[m] = list[m], size'[m] = size[m], down'[m] = down[m],
           pc[m] \in Waiting => todo'[Prev(m)] = todo[Prev(m)],
           pc[m] # "none" => \A k \in 1 .. m[2] : at'[<<m[1], k>>] = at[<<m[1], k>>],
           pc[m] # "none" =>
               \A k \in 0 .. (m[2] - 1) : list'[<<m[1], k>>] = list[<<m[1], k>>]
    PROVE  Route(m)'
<1>1. Route(m)
  BY DEF IInv
<1>2. CASE pc[m] = "none"
  BY <1>1, <1>2 DEF Route, HasList
<1>3. CASE pc[m] # "none"
  <2>1. \A l : RightFor(m, l)' <=> RightFor(m, l)
    BY <1>3, RightForKeeps
  <2>2. HasList(m)' <=> HasList(m)
    BY DEF HasList
  <2>3. OnItsWay(m) /\ pc[m] \in Waiting => OnItsWay(m)'
    BY <2>1 DEF OnItsWay
  <2>4. InParts(m) /\ pc[m] \in Waiting => InParts(m)'
    BY <2>1 DEF InParts
  <2>5. RightFor(m, list[m])' <=> RightFor(m, list[m])
    BY <2>1
  <2> QED
    BY <1>1, <1>3, <2>2, <2>3, <2>4, <2>5 DEF Route, Waiting
<1> QED
  BY <1>2, <1>3

(* The next stone: one that is listed, and has not been called *)
LEMMA NextStone ==
    ASSUME IInv, NEW n \in Nodes, pc[n] = "dial", NEW i \in 1 .. Len(list[n])
    PROVE  /\ Succ(n) \in Nodes /\ pc[Succ(n)] = "none"
           /\ list[n] \in Seq(Elements) /\ RightFor(n, list[n])
<1>1. list[n] \in Seq(Elements) /\ RightFor(n, list[n])
  BY DEF IInv, TypeOK, Route, HasList
<1>2. Chain(n) \in Seq(Stones) /\ Len(Chain(n)) \in 1 .. MaxHops
  BY SettingAssumption, NodeFacts DEF IInv, TypeOK, Chain
<1>3. n[2] < MaxHops
  <2>1. Len(list[n]) \in Nat /\ n[2] + Len(list[n]) = Len(Chain(n)) /\ n[2] \in Nat
    BY <1>1, NodeFacts DEF RightFor
  <2> QED
    BY <1>2, <2>1, SettingAssumption
<1>4. Succ(n) \in Nodes
  BY <1>3, NodeFacts
<1>5. pc[Succ(n)] = "none"
  <2> SUFFICES ASSUME pc[Succ(n)] # "none" PROVE FALSE
    OBVIOUS
  <2>1. n[1] \in Requests /\ n[2] \in 0 .. MaxHops /\ n = <<n[1], n[2]>>
    BY NodeFacts
  <2>2. n[2] + 1 \in 0 .. MaxHops /\ n[2] \in 0 .. (n[2] + 1 - 1)
    BY <1>3, <2>1, SettingAssumption
  <2>3. pc[<<n[1], n[2]>>] \notin Early
    BY <2>1, <2>2 DEF IInv, InOrder, Succ
  <2>4. pc[n] \notin Early
    BY <2>1, <2>3
  <2> QED
    BY <2>4 DEF Early
<1> QED
  BY <1>1, <1>4, <1>5

(* One stone further, with one stone less on the list *)
LEMMA RouteGrows ==
    ASSUME IInv, NEW n \in Nodes, pc[n] = "dial", NEW i \in 1 .. Len(list[n]),
           NEW next \in up \cap Names(list[n][i]), UNCHANGED <<setting, list>>,
           at' = [at EXCEPT ![Succ(n)] = next],
           NEW rest, rest = Without(list[n], i)
    PROVE  RightFor(Succ(n), rest)'
<1> DEFINE m == Succ(n)
<1>1. /\ m \in Nodes /\ list[n] \in Seq(Elements) /\ RightFor(n, list[n])
      /\ next \in Stones /\ n[2] \in Nat /\ n = <<n[1], n[2]>>
  BY NextStone, NodeFacts DEF IInv, TypeOK
<1>2. /\ rest \in Seq(Elements) /\ Len(rest) = Len(list[n]) - 1
      /\ \A j \in 1 .. (i - 1) : rest[j] = list[n][j]
      /\ \A j \in i .. (Len(list[n]) - 1) : rest[j] = list[n][j + 1]
  BY <1>1, WithoutIs
<1>3. m[1] = n[1] /\ m[2] = n[2] + 1 /\ Chain(m)' = Chain(n)
  BY DEF Succ, Chain
<1>4. m[2] + Len(rest) = Len(Chain(n))
  BY <1>1, <1>2, <1>3 DEF RightFor
<1>5. Straight(m)' => Straight(n) /\ NoJunk(list[n]) /\ next = list[n][i]
  <2> SUFFICES ASSUME Straight(m)' PROVE Straight(n) /\ NoJunk(list[n]) /\ next = list[n][i]
    OBVIOUS
  <2>1. \A k \in 0 .. (m[2] - 1) : NoJunk(list[<<n[1], k>>])
    BY <1>3 DEF Straight, NoJunk
  <2>2. \A k \in 0 .. n[2] : k \in 0 .. (m[2] - 1)
    BY <1>1, <1>3
  <2>3. NoJunk(list[<<n[1], n[2]>>]) /\ Straight(n)
    BY <1>1, <2>1, <2>2 DEF Straight
  <2>4. NoJunk(list[n])
    BY <1>1, <2>3
  <2> QED
    BY <2>3, <2>4 DEF NoJunk, Names
<1>6. ASSUME Straight(m)', NEW t \in Stones
      PROVE  Count(Visited(m)', t) + Count(rest, t) = Count(Chain(n), t)
  <2> DEFINE v == Visited(n)
             w == Visited(m)'
             Places2 == Stones \cup {NoStone}
  <2>1. \A k \in 1 .. n[2] + 1 : <<n[1], k>> \in Nodes
    <3>1. m[2] \in 0 .. MaxHops /\ n[1] \in Requests /\ MaxHops \in Nat
      BY <1>1, <1>3, NodeFacts, SettingAssumption
    <3> QED
      BY <1>1, <1>3, <3>1 DEF Nodes
  <2>2. at \in [Nodes -> Places2] /\ at' \in [Nodes -> Places2]
    BY <1>1 DEF IInv, TypeOK
  <2>3. v = [k \in 1 .. n[2] |-> at[<<n[1], k>>]]
        /\ w = [k \in 1 .. n[2] + 1 |-> at'[<<n[1], k>>]]
    BY <1>3 DEF Visited
  <2>4. v \in Seq(Places2) /\ Len(v) = n[2] /\ w \in Seq(Places2) /\ Len(w) = n[2] + 1
    <3>1. v \in [1 .. n[2] -> Places2] /\ w \in [1 .. n[2] + 1 -> Places2]
      BY <1>1, <2>1, <2>2, <2>3
    <3> HIDE DEF v, w
    <3> QED
      BY <1>1, <3>1, FunctionIsSeq
  <2>5. \A k \in 1 .. n[2] : w[k] = v[k]
    BY <1>1, <1>3, <2>1, <2>2, <2>3
  <2>6. w[n[2] + 1] = list[n][i]
    BY <1>1, <1>3, <1>5, <1>6, <2>1, <2>2, <2>3 DEF Succ
  <2> HIDE DEF v, w, Places2
  <2>7. /\ list[n][i] = t => Count(w, t) = Count(v, t) + 1
        /\ list[n][i] # t => Count(w, t) = Count(v, t)
    BY <2>4, <2>5, <2>6, CountGrows
  <2>8. /\ list[n][i] = t => Count(rest, t) + 1 = Count(list[n], t)
        /\ list[n][i] # t => Count(rest, t) = Count(list[n], t)
    BY <1>1, CountWithout
  <2>9. Count(v, t) + Count(list[n], t) = Count(Chain(n), t)
    BY <1>1, <1>5, <1>6 DEF RightFor, v
  <2>10. Count(v, t) \in Nat /\ Count(rest, t) \in Nat
    BY <1>2, <2>4, PlacesFinite
  <2> QED
    BY <2>7, <2>8, <2>9, <2>10 DEF w
<1> QED
  BY <1>3, <1>4, <1>6 DEF RightFor

LEMMA ConnectStep ==
    ASSUME IInv, NEW n \in Nodes, Connect(n)
    PROVE  IInv'
<1> DEFINE m == Succ(n)
<1>i. PICK i \in 1 .. Len(list[n]) : \E t \in up \cap Names(list[n][i]) :
          /\ at' = [at EXCEPT ![m] = t]
          /\ todo' = [todo EXCEPT ![n] = <<Len(list[n]) - 1>> \o RestOfList(n, i)]
  BY DEF Connect
<1>1. PICK next \in up \cap Names(list[n][i]) :
          /\ at' = [at EXCEPT ![m] = next]
          /\ todo' = [todo EXCEPT ![n] = <<Len(list[n]) - 1>> \o RestOfList(n, i)]
  BY <1>i
<1>2. PICK rest : rest = Without(list[n], i)
  OBVIOUS
<1>3. /\ pc[n] = "dial" /\ pc' = [pc EXCEPT ![n] = "send", ![m] = "backlog"]
      /\ UNCHANGED <<setting, up, list, size, left, down, back, srvShut>>
  BY DEF Connect, links, shut
<1>4. /\ m \in Nodes /\ pc[m] = "none" /\ list[n] \in Seq(Elements)
      /\ m # n /\ Prev(m) = n /\ ~IsAwget(m) /\ next \in Stones
  BY <1>1, <1>3, NextStone, NodeFacts DEF IInv, TypeOK
<1>5. /\ pc'[n] = "send" /\ pc'[m] = "backlog"
      /\ \A o \in Nodes : o \notin {n, m} => pc'[o] = pc[o]
      /\ at'[m] = next /\ \A o \in Nodes : o # m => at'[o] = at[o]
      /\ \A o \in Nodes : o # n => todo'[o] = todo[o]
  BY <1>1, <1>3, <1>4 DEF IInv, TypeOK
<1>6. /\ rest \in Seq(Elements) /\ Len(rest) = Len(list[n]) - 1 /\ Len(rest) \in Nat
      /\ todo'[n] = <<Len(rest)>> \o rest
  <2>1. rest \in Seq(Elements) /\ Len(rest) = Len(list[n]) - 1
    BY <1>2, <1>4, WithoutIs
  <2>2. todo'[n] = <<Len(list[n]) - 1>> \o rest
    BY <1>1, <1>2 DEF RestOfList, IInv, TypeOK
  <2> QED
    BY <2>1, <2>2
<1>7. todo'[n] \in Seq(Elements \cup Nat) /\ todo'[n] # <<>>
  <2>1. <<Len(rest)>> \in Seq(Elements \cup Nat) /\ rest \in Seq(Elements \cup Nat)
    BY <1>6, SeqMonotonic
  <2> QED
    BY <1>6, <2>1, ConcatProperties
<1>8. TypeOK'
  <2>1. pc' \in [Nodes -> PC] /\ at' \in [Nodes -> Stones \cup {NoStone}]
    BY <1>1, <1>3, <1>4 DEF IInv, TypeOK, PC
  <2> QED
    BY <1>1, <1>3, <2>1 DEF IInv, TypeOK, Connect
<1>9. InOrder'
  <2> SUFFICES ASSUME NEW q \in Requests, NEW k \in 0 .. MaxHops, NEW j \in 0 .. (k - 1),
                      pc'[<<q, k>>] # "none"
               PROVE  pc'[<<q, j>>] \notin Early
    BY DEF InOrder
  <2>1. <<q, k>> \in Nodes /\ <<q, j>> \in Nodes
    BY SettingAssumption DEF Nodes
  <2>2. CASE <<q, k>> = m
    <3>1. q = n[1] /\ k = n[2] + 1 /\ n[2] \in 0 .. MaxHops /\ n = <<n[1], n[2]>>
      BY <2>2, NodeFacts DEF Succ
    <3>2. CASE j = n[2]
      BY <1>5, <3>1, <3>2 DEF Early, Waiting
    <3>3. CASE j # n[2]
      <4>1. j \in 0 .. (n[2] - 1)
        BY <3>1, <3>3
      <4>2. pc[<<n[1], n[2]>>] # "none"
        BY <1>3, <3>1
      <4>3. pc[<<q, j>>] \notin Early
        BY <3>1, <4>1, <4>2 DEF IInv, InOrder
      <4> QED
        BY <1>3, <1>4, <1>5, <2>1, <4>3 DEF Early
    <3> QED
      BY <3>2, <3>3
  <2>3. CASE <<q, k>> # m
    <3>1. pc[<<q, k>>] # "none"
      BY <1>3, <1>5, <2>1, <2>3
    <3>2. pc[<<q, j>>] \notin Early
      BY <3>1 DEF IInv, InOrder
    <3> QED
      BY <1>3, <1>4, <1>5, <2>1, <3>2 DEF Early
  <2> QED
    BY <2>2, <2>3
<1>10. ASSUME NEW o \in Nodes PROVE Phase(o)' /\ Unanswered(o)'
  <2>1. Phase(o) /\ Unanswered(o) /\ Unanswered(m) /\ Phase(n)
    BY <1>4 DEF IInv
  <2>2. CASE o = n
    BY <1>3, <1>4, <1>5, <1>7, <2>1, <2>2 DEF Phase, Unanswered, Waiting, IsAwget, Calling
  <2>3. CASE o = m
    BY <1>3, <1>4, <1>5, <2>1, <2>3, SettingAssumption
       DEF Phase, Unanswered, Waiting, IsAwget, Calling
  <2>4. CASE o \notin {n, m}
    <3>1. Phase(o)'
      BY <1>3, <1>4, <1>5, <2>1, <2>4 DEF Phase, Calling, IsAwget
    <3>2. pc[o] \in Waiting => Prev(o) \in Nodes /\ Prev(o) \notin {n, m}
      BY <1>3, <1>4, <2>1, <2>4, NodeFacts DEF Unanswered, Waiting
    <3>3. Unanswered(o)'
      BY <1>3, <1>5, <2>1, <2>4, <3>2 DEF Unanswered, IsAwget, Waiting
    <3> QED
      BY <3>1, <3>3
  <2> QED
    BY <2>2, <2>3, <2>4
<1>11. ASSUME NEW o \in Nodes PROVE Route(o)'
  <2>1. CASE o = m
    <3>1. RightFor(m, rest)'
      BY <1>1, <1>2, <1>3, RouteGrows
    <3>2. list'[m] = <<>> /\ down'[m] = <<>>
      BY <1>3, <1>4 DEF IInv, Route
    <3>3. down'[m] \o todo'[n] = <<Len(rest)>> \o rest /\ <<>> \in Seq(Elements \cup Nat)
      BY <1>6, <1>7, <3>2, ConcatEmptySeq
    <3>4. OnItsWay(m)'
      BY <1>4, <1>6, <1>7, <3>1, <3>2, <3>3 DEF OnItsWay
    <3> QED
      BY <1>5, <2>1, <3>4 DEF Route, HasList
  <2>2. CASE o # m
    <3>1. pc[o] # "none" => \A k \in 1 .. o[2] : at'[<<o[1], k>>] = at[<<o[1], k>>]
      <4> SUFFICES ASSUME pc[o] # "none", NEW k \in 1 .. o[2]
                   PROVE  at'[<<o[1], k>>] = at[<<o[1], k>>]
        OBVIOUS
      <4>1. o[1] \in Requests /\ o[2] \in 0 .. MaxHops /\ o = <<o[1], o[2]>> /\ MaxHops \in Nat
        BY NodeFacts, SettingAssumption
      <4>2. <<o[1], k>> \in Nodes
        BY <4>1 DEF Nodes
      <4>3. <<o[1], k>> # m
        <5>1. k # o[2] => k \in 0 .. (o[2] - 1)
          BY <4>1
        <5>2. k # o[2] => pc[<<o[1], k>>] \notin Early
          BY <4>1, <5>1 DEF IInv, InOrder
        <5> QED
          BY <1>4, <2>2, <4>1, <5>2 DEF Early
      <4> QED
        BY <1>5, <4>2, <4>3
    <3>2. CASE o = n
      <4>1. \A l : RightFor(n, l)' <=> RightFor(n, l)
        BY <1>3, <3>1, <3>2, RightForKeeps
      <4>2. RightFor(n, list[n])
        BY <1>3 DEF IInv, Route, HasList
      <4>3. RightFor(n, list[n])'
        BY <1>3, <4>1, <4>2
      <4> QED
        BY <1>5, <3>2, <4>3 DEF Route
    <3>3. CASE o # n
      <4>1. pc[o] \in Waiting => todo'[Prev(o)] = todo[Prev(o)]
        <5>1. pc[o] \in Waiting => Prev(o) \in Nodes /\ Prev(o) # n
          BY <1>3, <2>2, <3>3, NodeFacts DEF IInv, Unanswered, Waiting
        <5> QED
          BY <1>5, <5>1
      <4> QED
        BY <1>3, <1>5, <2>2, <3>1, <3>3, <4>1, OtherRoute
    <3> QED
      BY <3>2, <3>3
  <2> QED
    BY <2>1, <2>2
<1> QED
  BY <1>8, <1>9, <1>10, <1>11 DEF IInv

(* A step of one node that has started leaves the others' order alone. *)
LEMMA OneInOrder ==
    ASSUME IInv, NEW n \in Nodes, NEW where \in PC \ {"none"}, pc[n] # "none",
           pc' = [pc EXCEPT ![n] = where], where \in Early => pc[n] \in Early
    PROVE  InOrder'
<1> SUFFICES ASSUME NEW q \in Requests, NEW k \in 0 .. MaxHops, NEW j \in 0 .. (k - 1),
                    pc'[<<q, k>>] # "none"
             PROVE  pc'[<<q, j>>] \notin Early
  BY DEF InOrder
<1>1. <<q, k>> \in Nodes /\ <<q, j>> \in Nodes
  BY SettingAssumption DEF Nodes
<1>2. pc'[n] = where /\ \A o \in Nodes : o # n => pc'[o] = pc[o]
  BY DEF IInv, TypeOK
<1>3. pc[<<q, k>>] # "none"
  BY <1>1, <1>2
<1>4. pc[<<q, j>>] \notin Early
  BY <1>3 DEF IInv, InOrder
<1> QED
  BY <1>1, <1>2, <1>4

(* The rest of the list moves on to the next stone, which counts on it     *)
(* until it has read its list.                                             *)
LEMMA SendListStep ==
    ASSUME IInv, NEW n \in Nodes, SendList(n)
    PROVE  IInv'
<1> DEFINE m == Succ(n)
           x == Head(todo[n])
           where == IF Len(todo[n]) = 1 THEN "reply" ELSE "send"
<1>1. /\ pc[n] = "send" /\ pc' = [pc EXCEPT ![n] = where]
      /\ down' = IF m \in srvShut THEN down ELSE [down EXCEPT ![m] = Append(@, x)]
      /\ todo' = [todo EXCEPT ![n] = Tail(@)]
      /\ UNCHANGED <<setting, up, at, list, size, left, back, srvShut>>
  BY DEF SendList, reading, shut
<1>2. /\ Phase(n) /\ m \in Nodes /\ pc[m] # "none" /\ m # n /\ Prev(m) = n
      /\ todo[n] \in Seq(Elements \cup Nat) /\ todo[n] # <<>>
  BY <1>1, NodeFacts DEF IInv, Phase, Calling
<1>3. /\ pc'[n] = where /\ \A o \in Nodes : o # n => pc'[o] = pc[o] /\ todo'[o] = todo[o]
      /\ todo'[n] = Tail(todo[n])
      /\ \A o \in Nodes : o # m => down'[o] = down[o]
      /\ m \notin srvShut => down'[m] = Append(down[m], x)
  BY <1>1, <1>2 DEF IInv, TypeOK
<1>4. /\ Tail(todo[n]) \in Seq(Elements \cup Nat)
      /\ where = "reply" => Tail(todo[n]) = <<>>
      /\ where = "send" => Tail(todo[n]) # <<>>
  <2>1. /\ Tail(todo[n]) \in Seq(Elements \cup Nat) /\ Len(Tail(todo[n])) = Len(todo[n]) - 1
        /\ Len(todo[n]) \in Nat \ {0}
    BY <1>2, HeadTailProperties, EmptySeq
  <2>2. Tail(todo[n]) = <<>> <=> Len(Tail(todo[n])) = 0
    BY <2>1, EmptySeq
  <2>3. /\ Len(todo[n]) = 1 => Tail(todo[n]) = <<>>
        /\ Len(todo[n]) # 1 => Tail(todo[n]) # <<>>
    BY <2>1, <2>2
  <2> QED
    BY <2>1, <2>3
<1>5. where \in {"reply", "send"}
  OBVIOUS
<1> HIDE DEF where
<1>6. TypeOK'
  <2>1. pc' \in [Nodes -> PC]
    BY <1>1, <1>5 DEF IInv, TypeOK, PC
  <2> QED
    BY <1>1, <2>1 DEF IInv, TypeOK
<1>7. InOrder'
  BY <1>1, <1>5, OneInOrder DEF PC, Early, Waiting
<1>8. ASSUME NEW o \in Nodes PROVE Phase(o)' /\ Unanswered(o)'
  <2>1. Phase(o) /\ Unanswered(o)
    BY DEF IInv
  <2>2. CASE o = n
    BY <1>1, <1>2, <1>3, <1>4, <1>5, <2>1, <2>2
       DEF Phase, Unanswered, Waiting, IsAwget, Calling
  <2>3. CASE o # n
    <3>1. Phase(o)'
      BY <1>1, <1>3, <1>5, <2>1, <2>3 DEF Phase, Calling, IsAwget
    <3>2. pc[o] \in Waiting => Prev(o) \in Nodes
      BY <2>1, NodeFacts DEF Unanswered, Waiting
    <3>3. Unanswered(o)'
      BY <1>1, <1>3, <1>5, <2>1, <2>3, <3>2 DEF Unanswered, IsAwget, Waiting
    <3> QED
      BY <3>1, <3>3
  <2> QED
    BY <2>2, <2>3
<1>9. ASSUME NEW o \in Nodes PROVE Route(o)'
  <2>1. Route(o) /\ \A l : RightFor(o, l)' <=> RightFor(o, l)
    BY <1>1, RightForKeeps DEF IInv
  <2>2. CASE o = n
    <3>1. RightFor(n, list[n])'
      BY <1>1, <2>1, <2>2 DEF Route, HasList
    <3> QED
      BY <1>3, <1>5, <2>2, <3>1 DEF Route
  <2>3. CASE o = m /\ pc[m] \in Waiting
    <3>1. m \notin srvShut
      BY <1>2, <2>3 DEF IInv, Unanswered
    <3>2. down'[m] = Append(down[m], x) /\ pc'[m] = pc[m] /\ list' = list /\ size' = size
      BY <1>1, <1>2, <1>3, <3>1
    <3>3. ASSUME pc[m] \in {"backlog", "header"} PROVE OnItsWay(m)'
      <4>1. PICK rest \in Seq(Elements) :
              /\ RightFor(m, rest) /\ list[m] = <<>>
              /\ down[m] \in Seq(Elements \cup Nat)
              /\ down[m] \o todo[n] = <<Len(rest)>> \o rest
        BY <1>2, <2>1, <2>3, <3>3 DEF Route, OnItsWay
      <4>2. /\ down'[m] \in Seq(Elements \cup Nat) /\ todo'[n] \in Seq(Elements \cup Nat)
            /\ down'[m] \o todo'[n] = <<Len(rest)>> \o rest
        <5>1. /\ Append(down[m], Head(todo[n])) \o Tail(todo[n]) = down[m] \o todo[n]
              /\ Append(down[m], Head(todo[n])) \in Seq(Elements \cup Nat)
          <6>. PICK a, b : a = down[m] /\ b = todo[n]
            OBVIOUS
          <6>1. /\ a \in Seq(Elements \cup Nat) /\ b \in Seq(Elements \cup Nat)
                /\ b # <<>>
            BY <1>2, <4>1
          <6> QED
            BY <6>1, SentIsReceived
        <5> QED
          BY <1>3, <1>4, <3>2, <4>1, <5>1
      <4>3. RightFor(m, rest)'
        BY <2>1, <2>3, <4>1
      <4> QED
        BY <1>2, <3>2, <4>1, <4>2, <4>3 DEF OnItsWay
    <3>4. ASSUME pc[m] = "list" PROVE InParts(m)'
      <4>1. PICK rest \in Seq(Elements) :
              /\ RightFor(m, rest) /\ size[m] = Len(rest) /\ Len(list[m]) < Len(rest)
              /\ down[m] \in Seq(Elements \cup {Part}) /\ todo[n] \in Seq(Elements)
              /\ NoJunk(list[m]) => list[m] \o (down[m] \o todo[n]) = rest
        BY <1>2, <2>1, <2>3, <3>4 DEF Route, InParts
      <4>2. todo[n] \in Seq(Elements \cup {Part})
        BY <4>1, SeqMonotonic
      <4>3. down'[m] \in Seq(Elements \cup {Part}) /\ down'[m] \o todo'[n] = down[m] \o todo[n]
        <5>1. /\ Append(down[m], Head(todo[n])) \o Tail(todo[n]) = down[m] \o todo[n]
              /\ Append(down[m], Head(todo[n])) \in Seq(Elements \cup {Part})
          <6>. PICK a, b : a = down[m] /\ b = todo[n]
            OBVIOUS
          <6>1. /\ a \in Seq(Elements \cup {Part}) /\ b \in Seq(Elements \cup {Part})
                /\ b # <<>>
            BY <1>2, <4>1, <4>2
          <6> QED
            BY <6>1, SentIsReceived
        <5> QED
          BY <1>3, <3>2, <5>1
      <4>4. todo'[n] \in Seq(Elements)
        BY <1>2, <1>3, <4>1, ConcatMoves
      <4>5. RightFor(m, rest)'
        BY <2>1, <2>3, <4>1
      <4> QED
        BY <1>2, <3>2, <4>1, <4>3, <4>4, <4>5 DEF InParts
    <3> QED
      BY <2>3, <3>2, <3>3, <3>4 DEF Route, HasList, Waiting
  <2>4. CASE o = m /\ pc[m] \notin Waiting
    <3>1. RightFor(m, list[m])' <=> RightFor(m, list[m])
      BY <1>1, <2>1, <2>4
    <3> QED
      BY <1>2, <1>3, <2>1, <2>4, <3>1 DEF Route, HasList, Waiting
  <2>5. CASE o \notin {n, m}
    <3>1. pc[o] \in Waiting => Prev(o) \in Nodes /\ Prev(o) # n
      BY <2>5, NodeFacts DEF IInv, Unanswered, Waiting
    <3> QED
      BY <1>1, <1>3, <2>5, <3>1, OtherRoute
  <2> QED
    BY <2>2, <2>3, <2>4, <2>5
<1> QED
  BY <1>6, <1>7, <1>8, <1>9 DEF IInv

(* The nodes before one that has started have read their lists. *)
LEMMA Earlier ==
    ASSUME IInv, NEW n \in Nodes, pc[n] # "none", NEW k \in 0 .. (n[2] - 1)
    PROVE  <<n[1], k>> \in Nodes /\ pc[<<n[1], k>>] \notin Early
<1>1. n[1] \in Requests /\ n[2] \in 0 .. MaxHops /\ n = <<n[1], n[2]>> /\ MaxHops \in Nat
  BY NodeFacts, SettingAssumption
<1>2. pc[<<n[1], n[2]>>] # "none"
  BY <1>1
<1>3. pc[<<n[1], k>>] \notin Early
  BY <1>1, <1>2 DEF IInv, InOrder
<1> QED
  BY <1>1, <1>3 DEF Nodes

(* A stone reads the header, or an element of the list. *)
Reads(n, where) ==
    /\ pc[n] \in {"header", "list"} /\ where \in {"list", "dial", "fetch"}
    /\ pc' = [pc EXCEPT ![n] = where]
    /\ UNCHANGED <<setting, up, at, todo, left, back, srvShut>>
    /\ list' \in [Nodes -> Seq(Elements)] /\ DOMAIN size' = Nodes /\ DOMAIN down' = Nodes
    /\ \A o \in Nodes : o # n => /\ list'[o] = list[o] /\ size'[o] = size[o]
                                 /\ down'[o] = down[o]

LEMMA ReadsKeeps ==
    ASSUME IInv, NEW n \in Nodes, NEW where, Reads(n, where), Route(n)'
    PROVE  IInv'
<1> USE DEF Reads
<1>1. /\ pc'[n] = where /\ \A o \in Nodes : o # n => pc'[o] = pc[o]
      /\ where \in PC \ {"none"}
  BY DEF IInv, TypeOK, PC
<1>2. TypeOK'
  <2>1. pc' \in [Nodes -> PC]
    BY <1>1 DEF IInv, TypeOK
  <2> QED
    BY <2>1 DEF IInv, TypeOK
<1>3. InOrder'
  BY <1>1, OneInOrder DEF Early, Waiting
<1>4. ASSUME NEW o \in Nodes PROVE Phase(o)'
  <2>1. Phase(o)
    BY DEF IInv
  <2>2. CASE o = n
    BY <1>1, <2>1, <2>2 DEF Phase, Waiting, Calling, IsAwget
  <2>3. CASE o # n
    BY <1>1, <2>1, <2>3 DEF Phase, Calling, IsAwget
  <2> QED
    BY <2>2, <2>3
<1>5. ASSUME NEW o \in Nodes, pc[o] \in Waiting
      PROVE  Prev(o) \in Nodes /\ Prev(o) # n
  <2>1. ~IsAwget(o) /\ pc[Prev(o)] \in {"send", "reply", "killed"}
    BY <1>5 DEF IInv, Unanswered, Waiting
  <2> QED
    BY <2>1, NodeFacts
<1>6. ASSUME NEW o \in Nodes PROVE Unanswered(o)'
  <2>1. Unanswered(o)
    BY DEF IInv
  <2>2. pc'[o] \in Waiting \cup {"none"} => pc[o] \in Waiting \cup {"none"}
        /\ (pc'[o] # "none" => pc[o] \in Waiting)
    BY <1>1 DEF Waiting
  <2>3. pc[o] \in Waiting => pc'[Prev(o)] = pc[Prev(o)]
    BY <1>1, <1>5
  <2> QED
    BY <2>1, <2>2, <2>3 DEF Unanswered, IsAwget, Waiting
<1>7. ASSUME NEW o \in Nodes PROVE Route(o)'
  <2>1. CASE o = n
    BY <2>1
  <2>2. CASE o # n
    <3>1. pc[o] # "none" =>
              \A k \in 0 .. (o[2] - 1) : list'[<<o[1], k>>] = list[<<o[1], k>>]
      BY Earlier DEF Early, Waiting
    <3>2. pc[o] \in Waiting => todo'[Prev(o)] = todo[Prev(o)]
      OBVIOUS
    <3> QED
      BY <1>1, <2>2, <3>1, <3>2, OtherRoute
  <2> QED
    BY <2>1, <2>2
<1> QED
  BY <1>2, <1>3, <1>4, <1>6, <1>7 DEF IInv

(* A first element put before a sequence, and taken off again *)
LEMMA HeaderTaken ==
    ASSUME NEW S, NEW h \in S, NEW rest \in Seq(S)
    PROVE  Tail(<<h>> \o rest) = rest /\ Head(<<h>> \o rest) = h
<1>1. <<h>> \in Seq(S) /\ <<h>> # <<>> /\ Head(<<h>>) = h /\ Tail(<<h>>) = <<>>
  OBVIOUS
<1>2. <<>> \o rest = rest
  BY ConcatEmptySeq
<1> QED
  BY <1>1, <1>2, ConcatTail

(* The header is the length of the list that follows. *)
LEMMA RecvHeaderStep ==
    ASSUME IInv, NEW n \in Nodes, RecvHeader(n)
    PROVE  IInv'
<1>1. PICK where : where = IF Head(down[n]) = 0 THEN "fetch" ELSE "list"
  OBVIOUS
<1>2. /\ pc[n] = "header" /\ down[n] # <<>> /\ pc' = [pc EXCEPT ![n] = where]
      /\ size' = [size EXCEPT ![n] = Head(down[n])]
      /\ down' = [down EXCEPT ![n] = Tail(@)]
      /\ UNCHANGED <<setting, up, at, list, todo, left, back, srvShut>>
  BY <1>1 DEF RecvHeader, shut
<1>3. where \in {"list", "fetch"}
  BY <1>1
<1>4. /\ pc'[n] = where /\ size'[n] = Head(down[n]) /\ down'[n] = Tail(down[n])
      /\ \A o \in Nodes : o # n => size'[o] = size[o] /\ down'[o] = down[o]
  BY <1>2 DEF IInv, TypeOK
<1>5. Reads(n, where)
  BY <1>2, <1>3, <1>4 DEF Reads, IInv, TypeOK
<1>6. PICK a, b : a = down[n] /\ b = todo[Prev(n)]
  OBVIOUS
<1>7. PICK rest \in Seq(Elements) :
          /\ RightFor(n, rest) /\ list[n] = <<>>
          /\ down[n] \in Seq(Elements \cup Nat) /\ b \in Seq(Elements \cup Nat)
          /\ down[n] \o b = <<Len(rest)>> \o rest
  BY <1>2, <1>6 DEF IInv, Route, OnItsWay
<1>8. Len(rest) \in Nat /\ rest \in Seq(Elements \cup Nat)
  BY SeqMonotonic
<1>9. Head(a) = Len(rest) /\ Tail(a) \in Seq(Elements \cup Nat) /\ Tail(a) \o b = rest
  <2>1. PICK h, S : h = Len(rest) /\ S = Elements \cup Nat
    OBVIOUS
  <2>2. /\ h \in S /\ rest \in Seq(S) /\ a \in Seq(S) /\ b \in Seq(S)
        /\ a # <<>> /\ a \o b = <<h>> \o rest
    BY <1>2, <1>6, <1>7, <1>8, <2>1
  <2>3. Head(a) = h /\ Tail(a) \in Seq(S) /\ Tail(a) \o b = rest
    <3>1. h \in S /\ rest \in Seq(S)
      BY <2>2
    <3>2. Tail(<<h>> \o rest) = rest /\ Head(<<h>> \o rest) = h
      BY <3>1, HeaderTaken
    <3>3. a \in Seq(S) /\ b \in Seq(S) /\ a # <<>>
      BY <2>2
    <3>4. Tail(a) \o b = Tail(a \o b) /\ Head(a \o b) = Head(a) /\ Tail(a) \in Seq(S)
      BY <3>3, ConcatTail, HeadTailProperties
    <3> QED
      BY <2>2, <3>2, <3>4
  <2> QED
    BY <2>1, <2>3
<1>10. Tail(a) \in Seq(Elements) /\ b \in Seq(Elements)
  BY <1>7, <1>9, ConcatTypes
<1>11. RightFor(n, rest)'
  BY <1>2, <1>7, RightForKeeps
<1>12. Route(n)'
  <2>1. CASE where = "fetch"
    <3>1. rest = <<>>
      BY <1>1, <1>6, <1>8, <1>9, <2>1, EmptySeq
    <3> QED
      BY <1>2, <1>4, <1>7, <1>11, <2>1, <3>1 DEF Route
  <2>2. CASE where = "list"
    <3>1. Len(rest) # 0 /\ Len(list'[n]) = 0
      BY <1>1, <1>2, <1>6, <1>7, <1>9, <2>2
    <3>2. list'[n] \o (Tail(a) \o b) = rest
      BY <1>2, <1>7, <1>9, ConcatEmptySeq
    <3>3. /\ Tail(a) \in Seq(Elements \cup {Part}) /\ size'[n] = Len(rest)
          /\ down'[n] = Tail(a) /\ todo'[Prev(n)] = b
      BY <1>2, <1>4, <1>6, <1>7, <1>9, <1>10, SeqMonotonic
    <3>4. Len(list'[n]) < Len(rest)
      BY <1>8, <3>1
    <3>5. /\ down'[n] \in Seq(Elements \cup {Part}) /\ todo'[Prev(n)] \in Seq(Elements)
          /\ list'[n] \o (down'[n] \o todo'[Prev(n)]) = rest
      BY <1>10, <3>2, <3>3
    <3>6. InParts(n)'
      BY <1>11, <3>3, <3>4, <3>5 DEF InParts
    <3> QED
      BY <1>4, <2>2, <3>6 DEF Route, HasList
  <2> QED
    BY <1>3, <2>1, <2>2
<1> QED
  BY <1>5, <1>12, ReadsKeeps

(* What one recv() takes: the next element with what follows it, or        *)
(* nothing that is an element.                                             *)
LEMMA Received ==
    ASSUME NEW n \in Nodes, down[n] \in Seq(Elements \cup {Part}), NEW r \in Receipts(n)
    PROVE  /\ r.element \in Elements /\ r.rest \in Seq(Elements \cup {Part})
           /\ r.element # Junk => /\ down[n] # <<>> /\ r.rest = Tail(down[n])
                                  /\ r.element = Head(down[n])
<1> DEFINE S == Elements \cup {Part}
<1>1. PICK l : l = down[n]
  OBVIOUS
<1>2. l \in Seq(S) /\ Len(l) \in Nat
  BY <1>1
<1>3. CASE l = <<>>
  <2>1. r = [element |-> Junk, rest |-> <<>>]
    BY <1>1, <1>3 DEF Receipts
  <2> QED
    BY <2>1 DEF Elements
<1>4. CASE l # <<>>
  <2>1. /\ Tail(l) \in Seq(S) /\ l[1] \in S /\ Head(l) = l[1]
        /\ <<Part>> \in Seq(S)
    BY <1>2, <1>4, HeadTailProperties
  <2>2. \A k \in {3} \cap 1 .. Len(l) + 1 : SubSeq(l, k, Len(l)) \in Seq(S)
    <3> SUFFICES ASSUME NEW k \in {3} \cap 1 .. Len(l) + 1
                 PROVE  SubSeq(l, k, Len(l)) \in Seq(S)
      OBVIOUS
    <3>1. \A i \in k .. Len(l) : l[i] \in S
      BY <1>2, ElementOfSeq
    <3> QED
      BY <1>2, <3>1, SubSeqProperties
  <2>3. CASE l[1] = Part
    <3>1. /\ r.element = Junk
          /\ \/ r.rest = Tail(l)
             \/ \E k \in {3} \cap 1 .. Len(l) + 1 : r.rest = <<Part>> \o SubSeq(l, k, Len(l))
      <4>1. \/ r = [element |-> Junk, rest |-> Tail(l)]
            \/ \E k \in {3} \cap 1 .. Len(l) + 1 :
                  r = [element |-> Junk, rest |-> <<Part>> \o SubSeq(l, k, Len(l))]
        BY <1>1, <1>4, <2>3 DEF Receipts
      <4> QED
        BY <4>1
    <3>2. \A k \in {3} \cap 1 .. Len(l) + 1 : <<Part>> \o SubSeq(l, k, Len(l)) \in Seq(S)
      <4> SUFFICES ASSUME NEW k \in {3} \cap 1 .. Len(l) + 1
                   PROVE  <<Part>> \o SubSeq(l, k, Len(l)) \in Seq(S)
        OBVIOUS
      <4>1. PICK x : x = SubSeq(l, k, Len(l))
        OBVIOUS
      <4> QED
        BY <2>1, <2>2, <4>1, ConcatProperties
    <3> QED
      BY <2>1, <3>1, <3>2 DEF Elements
  <2>4. CASE l[1] # Part
    <3>1. \/ r.element = l[1] /\ r.rest = Tail(l)
          \/ r.element = Junk /\ r.rest = <<Part>> \o Tail(l)
      <4>1. \/ r = [element |-> l[1], rest |-> Tail(l)]
            \/ r = [element |-> Junk, rest |-> <<Part>> \o Tail(l)]
        BY <1>1, <1>4, <2>4 DEF Receipts
      <4> QED
        BY <4>1
    <3>2. <<Part>> \o Tail(l) \in Seq(S)
      <4>1. PICK x : x = Tail(l)
        OBVIOUS
      <4> QED
        BY <2>1, <4>1, ConcatProperties
    <3> QED
      BY <1>1, <1>4, <2>1, <2>4, <3>1, <3>2 DEF Elements
  <2> QED
    BY <2>3, <2>4
<1> QED
  BY <1>3, <1>4

(* An element more of the list, or one that was not received whole: when   *)
(* as many have come as the header said, the list is what the requester    *)
(* sent, or has an element that was not received.                          *)
LEMMA RecvElementStep ==
    ASSUME IInv, NEW n \in Nodes, RecvElement(n)
    PROVE  IInv'
<1>1. PICK r \in Receipts(n) :
          /\ list' = [list EXCEPT ![n] = Append(@, r.element)]
          /\ down' = [down EXCEPT ![n] = r.rest]
  BY DEF RecvElement
<1>2. PICK where : where = IF Len(list[n]) + 1 = size[n] THEN "dial" ELSE "list"
  OBVIOUS
<1>3. /\ pc[n] = "list" /\ pc' = [pc EXCEPT ![n] = where]
      /\ UNCHANGED <<setting, up, at, size, todo, left, back, srvShut>>
  BY <1>2 DEF RecvElement, shut
<1>4. where \in {"list", "dial"}
  BY <1>2
<1>5. PICK a, b, l : a = down[n] /\ b = todo[Prev(n)] /\ l = list[n]
  OBVIOUS
<1>6. PICK rest \in Seq(Elements) :
          /\ a = down[n] /\ b = todo[Prev(n)] /\ l = list[n]
          /\ RightFor(n, rest) /\ size[n] = Len(rest) /\ Len(l) < Len(rest)
          /\ a \in Seq(Elements \cup {Part}) /\ b \in Seq(Elements)
          /\ NoJunk(l) => l \o (a \o b) = rest
  BY <1>3, <1>5 DEF IInv, Route, InParts
<1>7. PICK e, c : e = r.element /\ c = r.rest
  OBVIOUS
<1>8. /\ e \in Elements /\ c \in Seq(Elements \cup {Part})
      /\ e # Junk => a # <<>> /\ c = Tail(a) /\ e = Head(a)
  BY <1>6, <1>7, Received
<1>9. /\ pc'[n] = where /\ list'[n] = Append(l, e) /\ down'[n] = c
      /\ \A o \in Nodes : o # n => list'[o] = list[o] /\ down'[o] = down[o]
  BY <1>1, <1>3, <1>6, <1>7 DEF IInv, TypeOK
<1>10. /\ l \in Seq(Elements) /\ Append(l, e) \in Seq(Elements)
       /\ Len(Append(l, e)) = Len(l) + 1 /\ Len(l) \in Nat /\ Len(rest) \in Nat
       /\ \A i \in 1 .. Len(l) : Append(l, e)[i] = l[i]
       /\ Append(l, e)[Len(l) + 1] = e
  <2>1. l \in Seq(Elements)
    BY <1>6 DEF IInv, TypeOK
  <2> QED
    BY <1>8, <2>1, AppendProperties
<1>11. Reads(n, where)
  <2>1. list' \in [Nodes -> Seq(Elements)]
    BY <1>1, <1>6, <1>7, <1>10 DEF IInv, TypeOK
  <2> QED
    BY <1>1, <1>3, <1>4, <1>9, <2>1 DEF Reads, IInv, TypeOK
<1>12. RightFor(n, rest)'
  <2>1. \A k \in 0 .. (n[2] - 1) : <<n[1], k>> \in Nodes /\ <<n[1], k>> # n
    BY <1>3, Earlier DEF Early, Waiting
  <2>2. \A k \in 0 .. (n[2] - 1) : list'[<<n[1], k>>] = list[<<n[1], k>>]
    BY <1>9, <2>1
  <2> QED
    BY <1>3, <1>6, <2>2, RightForKeeps
<1>13. NoJunk(Append(l, e)) => NoJunk(l) /\ e # Junk
  BY <1>10 DEF NoJunk
<1>14. NoJunk(Append(l, e)) => Append(l, e) \o (c \o b) = rest
  <2> SUFFICES ASSUME NoJunk(Append(l, e))
               PROVE  Append(l, e) \o (c \o b) = rest
    OBVIOUS
  <2>1. l \o (a \o b) = rest /\ a # <<>> /\ c = Tail(a) /\ e = Head(a)
    BY <1>6, <1>8, <1>13
  <2>2. PICK S : S = Elements \cup {Part}
    OBVIOUS
  <2>3. a \in Seq(S) /\ b \in Seq(S) /\ l \in Seq(S) /\ a # <<>>
    BY <1>6, <1>10, <2>1, <2>2, SeqMonotonic
  <2>4. Append(l, Head(a)) \o (Tail(a) \o b) = l \o (a \o b)
    BY <2>3, ElementMoves
  <2> QED
    BY <2>1, <2>4
<1>15. Route(n)'
  <2>1. CASE where = "list"
    <3>1. Len(Append(l, e)) < Len(rest)
      BY <1>2, <1>6, <1>10, <2>1
    <3>2. size'[n] = Len(rest) /\ todo'[Prev(n)] = b
      BY <1>3, <1>6
    <3>3. InParts(n)'
      BY <1>6, <1>8, <1>9, <1>12, <1>14, <3>1, <3>2 DEF InParts, NoJunk
    <3> QED
      BY <1>9, <2>1, <3>3 DEF Route, HasList
  <2>2. CASE where = "dial"
    <3>1. Len(Append(l, e)) = Len(rest)
      BY <1>2, <1>6, <1>10, <2>2
    <3>2. NoJunk(Append(l, e)) => Append(l, e) = rest
      <4> SUFFICES ASSUME NoJunk(Append(l, e)) PROVE Append(l, e) = rest
        OBVIOUS
      <4> DEFINE S == Elements \cup {Part}
      <4>1. c \o b \in Seq(S) /\ Append(l, e) \in Seq(S)
        BY <1>6, <1>8, <1>10, SeqMonotonic, ConcatProperties
      <4>2. Len(Append(l, e)) + Len(c \o b) = Len(rest)
        BY <1>14, <4>1, ConcatProperties
      <4>3. c \o b = <<>>
        BY <1>10, <3>1, <4>1, <4>2, EmptySeq
      <4> QED
        BY <1>14, <4>1, <4>3, ConcatEmptySeq
    <3>3. RightFor(n, Append(l, e))'
      BY <1>12, <3>1, <3>2 DEF RightFor
    <3> QED
      BY <1>9, <2>2, <3>3 DEF Route
  <2> QED
    BY <1>4, <2>1, <2>2
<1> QED
  BY <1>11, <1>15, ReadsKeeps
-----------------------------------------------------------------------------
LEMMA InitIInv == Init => IInv
<1> SUFFICES ASSUME Init PROVE IInv
  OBVIOUS
<1> USE DEF Init
<1>1. /\ setting \in Settings
      /\ \A q \in Requests : /\ setting.chain[q] \in Seq(Stones)
                             /\ Len(setting.chain[q]) \in 1 .. MaxHops
  BY SettingAssumption
<1>2. \A n \in Nodes : /\ n[1] \in Requests /\ n[2] \in Nat
                       /\ pc[n] = IF IsAwget(n) THEN "dial" ELSE "none"
                       /\ list[n] = IF IsAwget(n) THEN Chain(n) ELSE <<>>
                       /\ at[n] = NoStone /\ down[n] = <<>> /\ back[n] = <<>>
  BY NodeFacts DEF Chain
<1>3. TypeOK
  <2>1. \A n \in Nodes : list[n] \in Seq(Elements)
    <3> SUFFICES ASSUME NEW n \in Nodes PROVE list[n] \in Seq(Elements)
      OBVIOUS
    <3>1. Chain(n) \in Seq(Elements)
      BY <1>1, <1>2, SeqMonotonic DEF Chain, Elements
    <3> QED
      BY <1>2, <3>1
  <2>2. list \in [Nodes -> Seq(Elements)]
    BY <2>1
  <2> QED
    BY <1>1, <2>2, SettingAssumption DEF TypeOK, PC
<1>4. InOrder
  <2> SUFFICES ASSUME NEW q \in Requests, NEW k \in 0 .. MaxHops, NEW j \in 0 .. (k - 1)
               PROVE  pc[<<q, k>>] = "none"
    BY DEF InOrder
  <2> QED
    BY SettingAssumption DEF Nodes, IsAwget
<1>5. ASSUME NEW n \in Nodes PROVE Phase(n) /\ Unanswered(n)
  BY <1>2 DEF Phase, Unanswered, Waiting, Calling
<1>6. ASSUME NEW n \in Nodes PROVE Route(n)
  <2>1. CASE ~IsAwget(n)
    BY <1>2, <2>1 DEF Route, HasList
  <2>2. CASE IsAwget(n)
    <3>1. n[2] = 0 /\ list[n] = Chain(n) /\ Chain(n) \in Seq(Stones) /\ pc[n] = "dial"
      BY <1>1, <1>2, <2>2 DEF IsAwget, Chain
    <3>2. ASSUME NEW t \in Stones PROVE Count(Visited(n), t) = 0
      <4>1. {i \in 1 .. Len(Visited(n)) : Visited(n)[i] = t} = {}
        <5>1. Visited(n) \in [1 .. 0 -> {NoStone}]
          BY <3>1 DEF Visited
        <5>2. Len(Visited(n)) = 0
          BY <5>1, FunctionIsSeq
        <5> QED
          BY <5>2
      <4> QED
        BY <4>1, FS_EmptySet DEF Count
    <3>3. \A t \in Stones : Count(Chain(n), t) \in Nat
      BY <3>1, PlacesFinite
    <3>4. RightFor(n, list[n])
      BY <3>1, <3>2, <3>3 DEF RightFor
    <3> QED
      BY <3>1, <3>4 DEF Route
  <2> QED
    BY <2>1, <2>2
<1> QED
  BY <1>3, <1>4, <1>5, <1>6 DEF IInv

LEMMA NextIInv == IInv /\ [Next]_vars => IInv'
<1> SUFFICES ASSUME IInv, [Next]_vars PROVE IInv'
  OBVIOUS
<1>1. CASE UNCHANGED vars
  <2>1. UNCHANGED <<setting, up, pc, at, list, size, todo, left, down, back, srvShut>>
    BY <1>1 DEF vars
  <2>2. TypeOK'
    BY <2>1 DEF IInv, TypeOK
  <2>3. \A m \in Nodes : pc[m] \in Waiting \cup {"none"} => m \notin srvShut /\ back[m] = <<>>
    BY DEF IInv, Unanswered
  <2> QED
    BY <2>1, <2>2, <2>3, QuietKeeps DEF Quiet, Moves
<1>2. ASSUME NEW n \in Nodes, Step(n) \/ Crash(n) PROVE IInv'
  <2>1. CASE Connect(n)
    BY <2>1, ConnectStep
  <2>2. CASE SendList(n)
    BY <2>2, SendListStep
  <2>3. CASE Accept(n)
    BY <2>3, AcceptStep
  <2>4. CASE RecvHeader(n)
    BY <2>4, RecvHeaderStep
  <2>5. CASE RecvElement(n)
    BY <2>5, RecvElementStep
  <2>6. CASE ConnectJunk(n) \/ SigPipe(n) \/ Crash(n)
    BY <2>6, KillSteps
  <2>7. CASE \/ Refused(n) \/ LookupFails(n) \/ SendFails(n) \/ SpinHeader(n)
             \/ RecvReset(n) \/ SpinRelay(n) \/ CannotServe(n)
    BY <2>7, FailSteps
  <2>8. CASE \/ RecvReply(n) \/ RecvData(n) \/ SendBack(n) \/ Fetch(n)
             \/ Open(n) \/ Clean(n) \/ Close(n)
    BY <2>8, BackSteps
  <2> QED
    BY <1>2, <2>1, <2>2, <2>3, <2>4, <2>5, <2>6, <2>7, <2>8 DEF Step
<1> QED
  BY <1>1, <1>2 DEF Next

LEMMA SpecIInv == Spec => []IInv
  BY InitIInv, NextIInv, PTL DEF Spec

(* Whatever the other requests do, whichever processes die, however recv() *)
(* cuts the list and whatever the cut elements name (next_ss() and the     *)
(* list loop of curr_ss()): a route and the list left are together as long *)
(* as the chain of awget's file, and, as long as every list came whole,    *)
(* the same stones as often.                                               *)
THEOREM RouteCorrect == Spec => []RouteIsTheChain
<1>1. ASSUME IInv, NEW n \in Nodes, HasList(n)
      PROVE  /\ n[2] + Len(list[n]) = Len(setting.chain[n[1]])
             /\ \/ \E k \in 0 .. n[2] : Junk \in Range(list[<<n[1], k>>])
                \/ \A t \in Stones :
                      Count(Visited(n), t) + Count(list[n], t) = Count(setting.chain[n[1]], t)
  <2>1. RightFor(n, list[n])
    BY <1>1 DEF IInv, Route
  <2>2. ASSUME \A k \in 0 .. n[2] : Junk \notin Range(list[<<n[1], k>>])
        PROVE  Straight(n) /\ NoJunk(list[n])
    <3>1. n[1] \in Requests /\ n[2] \in 0 .. MaxHops /\ n = <<n[1], n[2]>> /\ MaxHops \in Nat
      BY NodeFacts, SettingAssumption
    <3>2. \A k \in 0 .. n[2] : list[<<n[1], k>>] \in Seq(Elements)
      BY <1>1, <3>1 DEF IInv, TypeOK, Nodes
    <3>3. \A k \in 0 .. n[2] : NoJunk(list[<<n[1], k>>])
      BY <2>2, <3>2 DEF NoJunk, Range
    <3>4. n[2] \in 0 .. n[2] /\ \A k \in 0 .. (n[2] - 1) : k \in 0 .. n[2]
      BY <3>1
    <3> QED
      BY <3>1, <3>3, <3>4 DEF Straight
  <2> QED
    BY <2>1, <2>2 DEF RightFor, Chain
<1>2. IInv => RouteIsTheChain
  BY <1>1 DEF RouteIsTheChain
<1> QED
  BY <1>2, SpecIInv, PTL
-----------------------------------------------------------------------------
(* A thread takes its first descriptor with accept(), and one more at most *)
(* (the next stone's, or that of the file).                                *)
Fds == 1 .. MaxFd
Before == {"header", "list", "dial", "fetch", "open"}
Used(n) == IF pc[n] \in {"none", "backlog"} THEN {}
           ELSE IF pc[n] \in Before THEN {1} ELSE {1, 2}
AllSlots == (Requests \X (1 .. MaxHops)) \X {1, 2}
Slots(t) == {p \in AllSlots : at[p[1]] = t /\ p[2] \in Used(p[1])}

(* A has no more elements than P. *)
Fits(A, P) == \E h \in [A -> P] : \A x, y \in A : h[x] = h[y] => x = y

Holds(n) == ~IsAwget(n) /\ pc[n] \notin {"none", "backlog"} \cup Ended
Mine(n) == {s[n], fd[n]} \ {0}

FdTypes ==
    /\ s \in [Nodes -> Fds \cup {0}] /\ fd \in [Nodes -> Fds \cup {0}]
    /\ held \in [Stones -> SUBSET Fds]

(* The descriptors of a thread are its own while it runs. *)
Holding(n) ==
    /\ IsAwget(n) \/ pc[n] \in Before \cup {"none", "backlog"} => fd[n] = 0
    /\ Holds(n) => s[n] # 0 /\ s[n] # fd[n] /\ Mine(n) \subseteq held[at[n]]
Apart(n, m) ==
    n # m /\ Holds(n) /\ Holds(m) /\ at[n] = at[m] => Mine(n) \cap Mine(m) = {}

FInv == /\ FdTypes
        /\ \A n \in Nodes : Holding(n)
        /\ \A n, m \in Nodes : Apart(n, m)
        /\ \A t \in Stones : Fits(held[t], Slots(t))
-----------------------------------------------------------------------------
(* Fewer elements fit, and one more fits into one more place. *)
LEMMA FitsLess ==
    ASSUME NEW A, NEW P, Fits(A, P), NEW B, B \subseteq A, NEW R, P \subseteq R
    PROVE  Fits(B, R)
<1>1. PICK h \in [A -> P] : \A x, y \in A : h[x] = h[y] => x = y
  BY DEF Fits
<1>2. [x \in B |-> h[x]] \in [B -> R]
  OBVIOUS
<1>3. \A x, y \in B : [z \in B |-> h[z]][x] = [z \in B |-> h[z]][y] => x = y
  BY <1>1
<1> QED
  BY <1>2, <1>3 DEF Fits

LEMMA FitsMore ==
    ASSUME NEW A, NEW P, Fits(A, P), NEW f, NEW p, p \notin P, NEW R,
           P \subseteq R, p \in R
    PROVE  Fits(A \cup {f}, R)
<1>1. PICK h \in [A -> P] : \A x, y \in A : h[x] = h[y] => x = y
  BY DEF Fits
<1> DEFINE g == [x \in A \cup {f} |-> IF x = f THEN p ELSE h[x]]
<1>2. g \in [A \cup {f} -> R]
  OBVIOUS
<1>3. \A x, y \in A \cup {f} : g[x] = g[y] => x = y
  BY <1>1
<1> QED
  BY <1>2, <1>3 DEF Fits

(* There are as many descriptors as threads can ever take, ... *)
LEMMA SlotsSize ==
    IsFiniteSet(AllSlots) /\ Cardinality(AllSlots) \in Nat /\ Cardinality(AllSlots) <= MaxFd
<1>1. IsFiniteSet(1 .. MaxHops) /\ Cardinality(1 .. MaxHops) = MaxHops
  BY SettingAssumption, FS_Interval
<1>2. IsFiniteSet({1, 2}) /\ Cardinality({1, 2}) = 2
  <2>1. {1, 2} = 1 .. 2
    OBVIOUS
  <2>2. \A k \in Nat : IsFiniteSet(1 .. k) /\ Cardinality(1 .. k) = k
    BY FS_Interval
  <2> QED
    BY <2>1, <2>2
<1> DEFINE P == Requests \X (1 .. MaxHops)
<1>3. IsFiniteSet(P) /\ Cardinality(P) = Cardinality(Requests) * MaxHops
  BY <1>1, DescriptorsAssumption, FS_Product
<1> HIDE DEF P
<1>4. IsFiniteSet(P \X {1, 2}) /\ Cardinality(P \X {1, 2}) = Cardinality(P) * 2
  BY <1>2, <1>3, FS_Product
<1>5. Cardinality(Requests) \in Nat /\ MaxHops \in Nat
  BY DescriptorsAssumption, SettingAssumption, FS_CardinalityType
<1>6. (Cardinality(Requests) * MaxHops) * 2 = 2 * MaxHops * Cardinality(Requests)
  BY <1>5
<1> QED
  BY <1>3, <1>4, <1>5, <1>6, DescriptorsAssumption, FS_CardinalityType DEF AllSlots, P

(* ... so one is free while a thread has one to take. *)
LEMMA RoomLeft ==
    ASSUME NEW A, NEW P, Fits(A, P), P \subseteq AllSlots, NEW p \in AllSlots, p \notin P
    PROVE  A # Fds
<1>1. IsFiniteSet(P) /\ Cardinality(P) < Cardinality(AllSlots) /\ Cardinality(P) \in Nat
  <2>1. IsFiniteSet(P) /\ Cardinality(P) <= Cardinality(AllSlots)
        /\ (Cardinality(P) = Cardinality(AllSlots) => AllSlots = P)
    BY SlotsSize, FS_Subset
  <2> QED
    BY <2>1, SlotsSize, FS_CardinalityType
<1>2. PICK h \in [A -> P] : \A x, y \in A : h[x] = h[y] => x = y
  BY DEF Fits
<1>3. h \in Injection(A, P)
  BY <1>2 DEF Injection, IsInjective
<1>4. IsFiniteSet(A) /\ Cardinality(A) <= Cardinality(P)
  BY <1>1, <1>3, FS_Injection
<1>5. Cardinality(Fds) = MaxFd /\ MaxFd \in Nat
  BY SettingAssumption, FS_Interval DEF Fds
<1>6. Cardinality(A) \in Nat
  BY <1>4, FS_CardinalityType
<1> QED
  BY <1>1, <1>4, <1>5, <1>6, SlotsSize

(* The lowest free descriptor is a free one, while a thread of the stone   *)
(* has not taken its second.                                               *)
LEMMA LowestIsFree ==
    ASSUME IInv, FInv, NEW n \in Nodes, ~IsAwget(n), pc[n] # "none", NEW i \in {1, 2},
           i \notin Used(n)
    PROVE  at[n] \in Stones /\ LowestFree(at[n]) \in Fds \ held[at[n]]
<1> DEFINE t == at[n]
           free == Fds \ held[t]
<1>1. t \in Stones
  BY DEF IInv, TypeOK, Phase
<1>2. <<n, i>> \in AllSlots /\ <<n, i>> \notin Slots(t) /\ Slots(t) \subseteq AllSlots
  BY NodeFacts, SettingAssumption DEF AllSlots, Slots, IsAwget
<1>3. held[t] # Fds /\ held[t] \subseteq Fds
  BY <1>1, <1>2, RoomLeft DEF FInv, FdTypes
<1>4. free # {} /\ free \subseteq Nat
  <2>1. free # {}
    BY <1>3
  <2> QED
    BY <2>1 DEF Fds
<1>5. PICK f \in free : \A g \in free : ~ (<<g, f>> \in OpToRel(<, Nat))
  BY <1>4, NatLessThanWellFounded, WFMin, Zenon
<1>6. \A g \in free : ~ (g < f)
  BY <1>4, <1>5 DEF OpToRel
<1>7. f \in 1 .. MaxFd /\ f \notin held[t] /\ \A j \in 1 .. (f - 1) : j \in held[t]
  BY <1>6, SettingAssumption DEF Fds
<1> QED
  BY <1>1, <1>7 DEF LowestFree, Fds
-----------------------------------------------------------------------------
(* A node whose descriptors stay as they are *)
FdKeeps(m) ==
    /\ s'[m] = s[m] /\ fd'[m] = fd[m]
    /\ at'[m] = at[m] \/ pc[m] \in {"none", "backlog"}
    /\ Holds(m)' => Holds(m) /\ at'[m] = at[m]
    /\ Used(m) \subseteq Used(m)'
    /\ pc'[m] \in Before \cup {"none", "backlog"} => pc[m] \in Before \cup {"none", "backlog"}

LEMMA FdQuiet ==
    ASSUME FInv, UNCHANGED fds, \A m \in Nodes : FdKeeps(m)
    PROVE  FInv'
<1>1. FdTypes'
  BY DEF FInv, FdTypes, fds
<1>2. ASSUME NEW m \in Nodes PROVE Holding(m)'
  BY DEF FInv, fds, FdKeeps, Holding, Mine, IsAwget
<1>3. ASSUME NEW m \in Nodes, NEW o \in Nodes PROVE Apart(m, o)'
  BY DEF FInv, fds, FdKeeps, Apart, Mine
<1>4. ASSUME NEW t \in Stones PROVE Fits(held[t], Slots(t))'
  <2>1. Slots(t) \subseteq Slots(t)'
    <3> SUFFICES ASSUME NEW p \in Slots(t) PROVE p \in Slots(t)'
      OBVIOUS
    <3>1. p \in AllSlots /\ at[p[1]] = t /\ p[2] \in Used(p[1]) /\ p[1] \in Nodes
      BY SettingAssumption DEF Slots, AllSlots, Nodes
    <3>2. pc[p[1]] \notin {"none", "backlog"}
      BY <3>1 DEF Used
    <3> QED
      BY <3>1, <3>2 DEF FdKeeps, Slots
  <2> QED
    BY <2>1, FitsLess DEF FInv, fds, Fits
<1> QED
  BY <1>1, <1>2, <1>3, <1>4 DEF FInv

(* Thread n takes the descriptors E, one or none, and gives up D. *)
Old(n) == IF Holds(n) THEN Mine(n) ELSE {}
Table(n, E, D) ==
    /\ held' = [held EXCEPT ![at[n]] = (@ \cup E) \ D]
    /\ D \subseteq Old(n)
    /\ E = {} \/ \E f \in Fds \ held[at[n]] : E = {f}
    /\ E # {} => \E i \in Used(n)' : i \in {1, 2} \ Used(n)
    /\ s' \in [Nodes -> Fds \cup {0}] /\ fd' \in [Nodes -> Fds \cup {0}]
    /\ at'[n] = at[n] /\ Used(n) \subseteq Used(n)'
    /\ pc'[n] \in Before \cup {"none", "backlog"} => fd'[n] = 0
    /\ Holds(n)' => /\ s'[n] # 0 /\ s'[n] # fd'[n]
                    /\ Mine(n)' \subseteq (Old(n) \cup E) \ D
    /\ \A m \in Nodes : m # n => FdKeeps(m)

LEMMA TableStep ==
    ASSUME IInv, FInv, NEW n \in Nodes, ~IsAwget(n), pc[n] # "none", NEW E, NEW D,
           Table(n, E, D)
    PROVE  FInv'
<1> USE DEF Table
<1>1. /\ at[n] \in Stones /\ held \in [Stones -> SUBSET Fds]
      /\ held'[at[n]] = (held[at[n]] \cup E) \ D
      /\ \A t \in Stones : t # at[n] => held'[t] = held[t]
  BY DEF IInv, TypeOK, Phase, FInv, FdTypes
<1>2. FdTypes'
  BY <1>1 DEF FdTypes
<1>3. Old(n) \subseteq held[at[n]]
  BY DEF Old, FInv, Holding
<1>4. ASSUME NEW m \in Nodes, m # n, Holds(m), at[m] = at[n]
      PROVE  Mine(m) \cap (Old(n) \cup E) = {}
  <2>1. Mine(m) \cap Old(n) = {}
    BY <1>4 DEF Old, FInv, Apart
  <2>2. Mine(m) \subseteq held[at[n]]
    BY <1>4 DEF FInv, Holding
  <2> QED
    BY <2>1, <2>2
<1>5. ASSUME NEW m \in Nodes PROVE Holding(m)'
  <2>1. CASE m = n
    BY <1>1, <1>3, <2>1 DEF Holding
  <2>2. CASE m # n
    <3>1. FdKeeps(m) /\ Holding(m)
      BY <2>2 DEF FInv
    <3>2. Holds(m)' => Mine(m)' = Mine(m) /\ Mine(m) \subseteq held'[at[m]]
      <4> SUFFICES ASSUME Holds(m)' PROVE Mine(m)' = Mine(m) /\ Mine(m) \subseteq held'[at[m]]
        OBVIOUS
      <4>1. Holds(m) /\ Mine(m)' = Mine(m) /\ Mine(m) \subseteq held[at[m]] /\ at[m] \in Stones
        BY <3>1 DEF FdKeeps, Mine, Holding, Holds, IInv, TypeOK, Phase
      <4>2. CASE at[m] = at[n]
        BY <1>1, <1>4, <2>2, <4>1, <4>2
      <4>3. CASE at[m] # at[n]
        BY <1>1, <4>1, <4>3
      <4> QED
        BY <4>1, <4>2, <4>3
    <3> QED
      BY <3>1, <3>2 DEF FdKeeps, Holding, IsAwget
  <2> QED
    BY <2>1, <2>2
<1>6. ASSUME NEW m \in Nodes, NEW o \in Nodes PROVE Apart(m, o)'
  <2> SUFFICES ASSUME m # o, Holds(m)', Holds(o)', at'[m] = at'[o]
               PROVE  Mine(m)' \cap Mine(o)' = {}
    BY DEF Apart
  <2>1. CASE m # n /\ o # n
    BY <2>1 DEF FdKeeps, FInv, Apart, Mine
  <2>2. ASSUME NEW k \in Nodes, k # n, Holds(k)', Holds(n)', at'[k] = at'[n]
        PROVE  Mine(k)' \cap Mine(n)' = {}
    <3>1. Holds(k) /\ at[k] = at[n] /\ Mine(k)' = Mine(k)
      BY <2>2 DEF FdKeeps, Mine
    <3> QED
      BY <1>4, <2>2, <3>1
  <2> QED
    BY <2>1, <2>2
<1>7. ASSUME NEW t \in Stones PROVE Fits(held[t], Slots(t))'
  <2>1. /\ Slots(t) \subseteq Slots(t)' /\ Slots(t)' \subseteq AllSlots
        /\ \A p \in AllSlots : p[1] \in Nodes
    <3>1. \A p \in AllSlots : p[1] \in Nodes
      BY SettingAssumption DEF AllSlots, Nodes
    <3> SUFFICES ASSUME NEW p \in Slots(t) PROVE p \in Slots(t)'
      BY <3>1 DEF Slots
    <3>2. p \in AllSlots /\ at[p[1]] = t /\ p[2] \in Used(p[1]) /\ p[1] \in Nodes
      BY <3>1 DEF Slots
    <3>3. pc[p[1]] \notin {"none", "backlog"}
      BY <3>2 DEF Used
    <3>4. at'[p[1]] = at[p[1]] /\ Used(p[1]) \subseteq Used(p[1])'
      BY <3>2, <3>3 DEF FdKeeps
    <3> QED
      BY <3>2, <3>4 DEF Slots
  <2>2. Fits(held[t], Slots(t))
    BY DEF FInv
  <2>3. CASE t # at[n] \/ E = {}
    <3>1. held'[t] \subseteq held[t]
      BY <1>1, <2>3
    <3>2. Fits(held'[t], Slots(t)')
      BY <2>1, <2>2, <3>1, FitsLess
    <3> QED
      BY <3>2 DEF Fits
  <2>4. CASE t = at[n] /\ E # {}
    <3>1. PICK f, i : E = {f} /\ i \in Used(n)' /\ i \in {1, 2} \ Used(n)
      BY <2>4
    <3>2. /\ <<n, i>> \in AllSlots /\ <<n, i>> \notin Slots(t) /\ <<n, i>> \in Slots(t)'
      BY <2>4, <3>1, NodeFacts, SettingAssumption DEF AllSlots, Slots, IsAwget
    <3>3. Fits(held[t] \cup {f}, Slots(t)')
      BY <2>1, <2>2, <3>2, FitsMore
    <3>4. held'[t] \subseteq held[t] \cup {f}
      BY <1>1, <2>4, <3>1
    <3>5. Fits(held'[t], Slots(t)')
      BY <3>3, <3>4, FitsLess
    <3> QED
      BY <3>5 DEF Fits
  <2> QED
    BY <2>3, <2>4
<1> QED
  BY <1>2, <1>5, <1>6, <1>7 DEF FInv
-----------------------------------------------------------------------------
(* A step that neither opens nor closes anything *)
Onwards(n) ==
    \/ pc'[n] = pc[n]
    \/ /\ pc[n] \notin {"none", "backlog"} \cup Ended /\ pc'[n] \notin {"none", "backlog"}
       /\ pc'[n] \in Before => pc[n] \in Before
LEMMA OnwardsKeeps ==
    ASSUME NEW n \in Nodes, UNCHANGED <<fds, at>>, Onwards(n)
    PROVE  FdKeeps(n)
<1>1. Used(n) \subseteq Used(n)'
  BY DEF Onwards, Used
<1>2. Holds(n)' => Holds(n)
  BY DEF Onwards, Holds, Ended, IsAwget
<1>3. pc'[n] \in Before \cup {"none", "backlog"} => pc[n] \in Before \cup {"none", "backlog"}
  BY DEF Onwards
<1> QED
  BY <1>1, <1>2, <1>3 DEF FdKeeps, fds

(* A process dies with its threads and descriptors. *)
LEMMA FdKill ==
    ASSUME IInv, FInv, NEW n \in Nodes, Alive(n), Kill(n)
    PROVE  FInv'
<1>1. /\ \A m \in Nodes : pc'[m] = IF m \in Threads(n) /\ Alive(m) THEN "killed" ELSE pc[m]
      /\ UNCHANGED <<fds, at>>
  BY DEF Kill, reading
<1>2. ASSUME NEW m \in Nodes PROVE FdKeeps(m)
  <2>1. CASE pc'[m] = pc[m]
    BY <1>1, <2>1, OnwardsKeeps DEF Onwards
  <2>2. CASE pc'[m] = "killed" /\ pc[m] # "killed"
    <3>1. Used(m)' = {1, 2} /\ ~Holds(m)' /\ Used(m) \subseteq {1, 2}
      BY <2>2 DEF Used, Holds, Ended, Before
    <3> QED
      BY <1>1, <2>2, <3>1 DEF FdKeeps, fds, Before
  <2> QED
    BY <1>1, <2>1, <2>2
<1> QED
  BY <1>1, <1>2, FdQuiet

(* Every action of awget, and those of a thread that open and close nothing *)
LEMMA FdQuietSteps ==
    ASSUME IInv, FInv, NEW n \in Nodes,
           \/ SendList(n) \/ RecvHeader(n) \/ SpinHeader(n) \/ RecvElement(n)
           \/ RecvReply(n) \/ RecvData(n) \/ SpinRelay(n) \/ SendBack(n) \/ Fetch(n)
           \/ /\ IsAwget(n)
              /\ Connect(n) \/ Refused(n) \/ LookupFails(n) \/ SendFails(n) \/ RecvReset(n)
    PROVE  FInv'
<1>1. pc \in [Nodes -> PC] /\ fd \in [Nodes -> Fds \cup {0}]
  BY DEF IInv, TypeOK, FInv, FdTypes
<1>2. CASE Connect(n) /\ IsAwget(n)
  <2>1. /\ pc[n] = "dial" /\ pc' = [pc EXCEPT ![n] = "send", ![Succ(n)] = "backlog"]
        /\ \E i \in 1 .. Len(list[n]) : \E t : at' = [at EXCEPT ![Succ(n)] = t]
        /\ fd' = [fd EXCEPT ![n] = 0] /\ UNCHANGED <<s, held>>
    BY <1>2 DEF Connect, HoldOne
  <2>2. fd[n] = 0
    BY <1>2 DEF FInv, Holding
  <2>3. UNCHANGED fds
    BY <1>1, <2>1, <2>2 DEF fds
  <2>4. pc[Succ(n)] = "none" /\ Succ(n) \in Nodes /\ Succ(n) # n
    BY <2>1, NextStone, NodeFacts
  <2>5. \A m \in Nodes : m # Succ(n) => at'[m] = at[m]
    BY <2>1 DEF IInv, TypeOK
  <2>6. ASSUME NEW m \in Nodes PROVE FdKeeps(m)
    <3>1. CASE m = n
      BY <1>1, <1>2, <2>1, <2>3, <2>4, <2>5, <3>1 DEF FdKeeps, fds, Holds, Used, Before
    <3>2. CASE m = Succ(n)
      BY <1>1, <2>1, <2>3, <2>4, <3>2 DEF FdKeeps, fds, Holds, Used, Before
    <3>3. CASE m \notin {n, Succ(n)}
      BY <1>1, <2>1, <2>3, <2>5, <3>3 DEF FdKeeps, fds, Holds, Used, IsAwget
    <3> QED
      BY <3>1, <3>2, <3>3
  <2> QED
    BY <2>3, <2>6, FdQuiet
<1>3. CASE ~(Connect(n) /\ IsAwget(n))
  <2>1. UNCHANGED <<fds, at>>
    BY <1>3 DEF SendList, RecvHeader, SpinHeader, RecvElement, RecvReply, RecvData, SpinRelay,
                SendBack, Fetch, Refused, LookupFails, SendFails, RecvReset, End, EndKeeping, Free, fds, reading
  <2>2. \A m \in Nodes : m # n => pc'[m] = pc[m]
    BY <1>1, <1>3 DEF SendList, RecvHeader, SpinHeader, RecvElement, RecvReply, RecvData, SpinRelay,
                SendBack, Fetch, Refused, LookupFails, SendFails, RecvReset, End, EndKeeping
  <2>3. Onwards(n)
    <3> USE <1>1 DEF Onwards, Ended, Before
    <3>1. CASE SendList(n)
      BY <3>1 DEF SendList
    <3>2. CASE RecvHeader(n) \/ SpinHeader(n) \/ RecvElement(n)
      BY <3>2 DEF RecvHeader, SpinHeader, RecvElement
    <3>3. CASE RecvReply(n) \/ RecvData(n)
      BY <3>3 DEF RecvReply, RecvData, End
    <3>4. CASE SpinRelay(n) \/ SendBack(n) \/ Fetch(n)
      BY <3>4 DEF SpinRelay, SendBack, Fetch
    <3>5. CASE Refused(n) \/ LookupFails(n) \/ SendFails(n) \/ RecvReset(n)
      BY <3>5 DEF Refused, LookupFails, SendFails, DialsJunk, SendsDown, SendsBack, RecvReset,
                  End, EndKeeping
    <3> QED
      BY <1>3, <3>1, <3>2, <3>3, <3>4, <3>5
  <2>4. ASSUME NEW m \in Nodes PROVE FdKeeps(m)
    BY <2>1, <2>2, <2>3, OnwardsKeeps DEF Onwards
  <2> QED
    BY <2>1, <2>4, FdQuiet
<1> QED
  BY <1>2, <1>3

(* A thread takes a descriptor. *)
LEMMA FdTakes ==
    ASSUME IInv, FInv, NEW n \in Nodes, ~IsAwget(n), Accept(n) \/ Connect(n) \/ Open(n)
    PROVE  FInv'
<1> DEFINE t == at[n]
           f == LowestFree(t)
           i == IF Accept(n) THEN 1 ELSE 2
<1>1. pc[n] \in {"backlog", "dial", "open"} /\ (pc[n] = "backlog" <=> Accept(n))
  BY DEF Accept, Connect, Open
<1>2. i \in {1, 2} \ Used(n)
  BY <1>1 DEF Used, Before
<1>3. t \in Stones /\ f \in Fds \ held[t]
  BY <1>1, <1>2, LowestIsFree
<1>4. held' = [held EXCEPT ![t] = (@ \cup {f}) \ {}]
  <2>1. held' = [held EXCEPT ![t] = @ \cup {f}]
    BY DEF Accept, Connect, Open, HoldOne
  <2> QED
    BY <2>1
<1>5. /\ pc \in [Nodes -> PC] /\ s \in [Nodes -> Fds \cup {0}] /\ fd \in [Nodes -> Fds \cup {0}]
  BY DEF IInv, TypeOK, FInv, FdTypes
<1>6. fd[n] = 0 /\ (pc[n] # "backlog" => Holds(n) /\ s[n] # 0 /\ s[n] \in held[t])
  <2>1. pc[n] # "backlog" => Holds(n)
    BY <1>1 DEF Holds, Ended
  <2> QED
    BY <1>1, <2>1 DEF FInv, Holding, Before, Mine
<1>7. /\ s' = IF Accept(n) THEN [s EXCEPT ![n] = f] ELSE s
      /\ fd' = IF Accept(n) THEN fd ELSE [fd EXCEPT ![n] = f]
  BY <1>1 DEF Accept, Connect, Open
<1>8. /\ pc'[n] = IF Accept(n) THEN "header" ELSE IF pc[n] = "dial" THEN "send" ELSE "serve"
      /\ at'[n] = t
      /\ \A m \in Nodes : m # n => FdKeeps(m)
  <2>1. CASE Accept(n) \/ Open(n)
    <3>1. /\ at' = at /\ \A m \in Nodes : m # n => pc'[m] = pc[m]
          /\ pc'[n] = IF Accept(n) THEN "header" ELSE "serve"
          /\ Open(n) => pc[n] = "open"
      BY <1>1, <1>5, <2>1 DEF Accept, Open, reading
    <3>2. ASSUME NEW m \in Nodes, m # n PROVE FdKeeps(m)
      BY <1>5, <1>7, <3>1, <3>2 DEF FdKeeps, Holds, Used, IsAwget
    <3> QED
      BY <1>1, <2>1, <3>1, <3>2
  <2>2. CASE Connect(n)
    <3>1. /\ pc[n] = "dial" /\ pc' = [pc EXCEPT ![n] = "send", ![Succ(n)] = "backlog"]
          /\ \E j \in 1 .. Len(list[n]) : \E x : at' = [at EXCEPT ![Succ(n)] = x]
      BY <2>2 DEF Connect
    <3>2. pc[Succ(n)] = "none" /\ Succ(n) \in Nodes /\ Succ(n) # n
      BY <3>1, NextStone, NodeFacts
    <3>3. \A m \in Nodes : m # Succ(n) => at'[m] = at[m]
      BY <3>1 DEF IInv, TypeOK
    <3>4. ASSUME NEW m \in Nodes, m # n PROVE FdKeeps(m)
      <4>1. CASE m = Succ(n)
        BY <1>5, <1>7, <3>1, <3>2, <4>1 DEF FdKeeps, Holds, Used, Before
      <4>2. CASE m # Succ(n)
        BY <1>5, <1>7, <3>1, <3>3, <3>4, <4>2 DEF FdKeeps, Holds, Used, IsAwget
      <4> QED
        BY <4>1, <4>2
    <3> QED
      BY <1>1, <1>5, <3>1, <3>2, <3>3, <3>4
  <2> QED
    BY <2>1, <2>2
<1>9. PICK e : e = f
  OBVIOUS
<1>10. /\ s' \in [Nodes -> Fds \cup {0}] /\ fd' \in [Nodes -> Fds \cup {0}]
       /\ Accept(n) => s'[n] = e /\ fd'[n] = 0
       /\ ~Accept(n) => s'[n] = s[n] /\ fd'[n] = e
  BY <1>3, <1>5, <1>6, <1>7, <1>9
<1>11. Used(n) \subseteq Used(n)' /\ i \in Used(n)'
  BY <1>1, <1>8 DEF Used, Before
<1>12. pc'[n] \in Before \cup {"none", "backlog"} => fd'[n] = 0
  BY <1>1, <1>8, <1>10 DEF Before
<1>13. Holds(n)' => /\ s'[n] # 0 /\ s'[n] # fd'[n]
                    /\ Mine(n)' \subseteq (Old(n) \cup {e}) \ {}
  <2>1. e # 0 /\ e \notin held[t]
    BY <1>3, <1>9 DEF Fds
  <2>2. CASE Accept(n)
    BY <1>10, <2>1, <2>2 DEF Mine
  <2>3. CASE ~Accept(n)
    BY <1>1, <1>6, <1>10, <2>1, <2>3 DEF Mine, Old
  <2> QED
    BY <2>2, <2>3
<1> HIDE DEF i, f
<1>14. Table(n, {e}, {})
  BY <1>2, <1>3, <1>4, <1>8, <1>9, <1>10, <1>11, <1>12, <1>13 DEF Table
<1> QED
  BY <1>1, <1>14, TableStep

(* A thread ends, or is done with the file. *)
LEMMA FdGives ==
    ASSUME IInv, FInv, NEW n \in Nodes, ~IsAwget(n),
           \/ RecvReset(n) \/ Refused(n) \/ LookupFails(n) \/ SendFails(n)
           \/ CannotServe(n) \/ Clean(n) \/ Close(n)
    PROVE  FInv'
<1> DEFINE t == at[n]
<1>1. /\ pc[n] \in {"header", "list", "send", "reply", "relay", "forward", "dial", "open",
                    "serve", "close"}
      /\ Refused(n) \/ CannotServe(n) => pc[n] \in {"dial", "open"}
  BY DEF RecvReset, Refused, LookupFails, SendFails, DialsJunk, SendsDown, SendsBack,
         CannotServe, Clean, Close
<1>2. Holds(n)
  BY <1>1 DEF Holds, Ended
<1>3. /\ pc \in [Nodes -> PC] /\ s \in [Nodes -> Fds \cup {0}] /\ fd \in [Nodes -> Fds \cup {0}]
      /\ t \in Stones
  BY <1>1 DEF IInv, TypeOK, Phase, FInv, FdTypes
<1>4. s[n] # 0 /\ s[n] # fd[n] /\ s[n] \in held[t] /\ (pc[n] \in {"dial", "open"} => fd[n] = 0)
  BY <1>1, <1>2 DEF FInv, Holding, Mine, Before
<1>5. /\ at' = at /\ s' = s /\ \A m \in Nodes : m # n => pc'[m] = pc[m] /\ fd'[m] = fd[m]
      /\ pc'[n] \in {"failed", "done", "close"}
      /\ fd' \in [Nodes -> Fds \cup {0}]
      /\ pc'[n] = "close" => fd'[n] = 0
  BY <1>1, <1>3 DEF RecvReset, Refused, LookupFails, SendFails, CannotServe, Clean, Close, End, EndKeeping, reading
<1>6. \A m \in Nodes : m # n => FdKeeps(m)
  BY <1>5 DEF FdKeeps, Holds, Used, IsAwget
<1>7. Used(n)' = {1, 2} /\ Used(n) \subseteq {1, 2} /\ pc'[n] \notin Before \cup {"none", "backlog"}
  BY <1>5 DEF Used, Before
<1>8. Holds(n)' => pc'[n] = "close"
  BY <1>5 DEF Holds, Ended
<1>9. ASSUME NEW E, NEW D, held' = [held EXCEPT ![t] = (@ \cup E) \ D], D \subseteq Mine(n),
             pc'[n] = "close" => D = {fd[n]} \ {0},
             E = {} \/ (pc[n] \in {"dial", "open"} /\ E = {LowestFree(t)})
      PROVE  FInv'
  <2>1. E = {} \/ \E f \in Fds \ held[t] : E = {f}
    <3>1. pc[n] \in {"dial", "open"} => 2 \notin Used(n)
      BY DEF Used, Before
    <3> QED
      BY <1>1, <1>9, <3>1, LowestIsFree
  <2>2. E # {} => \E i \in Used(n)' : i \in {1, 2} \ Used(n)
    <3>1. E # {} => 2 \notin Used(n)
      BY <1>9 DEF Used, Before
    <3> QED
      BY <1>7, <3>1
  <2>3. Holds(n)' => /\ s'[n] # 0 /\ s'[n] # fd'[n] /\ Mine(n)' \subseteq (Old(n) \cup E) \ D
    <3> SUFFICES ASSUME Holds(n)'
                 PROVE  /\ s'[n] # 0 /\ s'[n] # fd'[n] /\ Mine(n)' \subseteq (Old(n) \cup E) \ D
      OBVIOUS
    <3>1. Mine(n)' = {s[n]} /\ fd'[n] = 0 /\ s'[n] = s[n]
      BY <1>4, <1>5, <1>8 DEF Mine
    <3>2. s[n] \in Old(n) /\ s[n] \notin D
      BY <1>2, <1>4, <1>8, <1>9 DEF Old, Mine
    <3> QED
      BY <1>4, <3>1, <3>2
  <2>4. D \subseteq Old(n)
    BY <1>2, <1>9 DEF Old
  <2>5. Table(n, E, D)
    BY <1>3, <1>5, <1>6, <1>7, <1>9, <2>1, <2>2, <2>3, <2>4 DEF Table
  <2> QED
    BY <1>1, <2>5, TableStep
<1>10. held \in [Stones -> SUBSET Fds] /\ 0 \notin Fds
  BY DEF FInv, FdTypes, Fds
<1>11. CASE RecvReset(n) \/ Close(n) \/ (SendFails(n) /\ pc[n] # "serve")
  <2>1. held' = [held EXCEPT ![t] = @ \ {s[n], fd[n]}] /\ pc'[n] # "close"
    BY <1>3, <1>11 DEF RecvReset, Close, SendFails, End, Free
  <2>2. held' = [held EXCEPT ![t] = (@ \cup {}) \ Mine(n)]
    BY <1>3, <1>10, <2>1 DEF Mine
  <2> QED
    BY <1>9, <2>1, <2>2
<1>12. CASE Clean(n)
  <2>1. held' = [held EXCEPT ![t] = @ \ {fd[n]}]
    BY <1>12 DEF Clean, Free
  <2>2. (held[t] \cup {}) \ ({fd[n]} \ {0}) = held[t] \ {fd[n]}
    BY <1>3, <1>10
  <2>3. held' = [held EXCEPT ![t] = (@ \cup {}) \ ({fd[n]} \ {0})]
    BY <2>1, <2>2
  <2> QED
    BY <1>9, <2>3 DEF Mine
<1>13. CASE \/ Refused(n) \/ CannotServe(n)
            \/ LookupFails(n) \/ (SendFails(n) /\ pc[n] = "serve")
  <2>1. PICK E : /\ held' = [held EXCEPT ![t] = (@ \cup E) \ {s[n]}] /\ pc'[n] # "close"
                 /\ E = {} \/ ((Refused(n) \/ CannotServe(n)) /\ E = {LowestFree(t)})
    BY <1>3, <1>13 DEF Refused, LookupFails, SendFails, CannotServe, EndKeeping
  <2>2. {s[n]} \subseteq Mine(n)
    BY <1>4 DEF Mine
  <2> QED
    BY <1>1, <1>9, <1>13, <2>1, <2>2
<1> QED
  BY <1>11, <1>12, <1>13

LEMMA InitFInv == Init => FInv
<1> SUFFICES ASSUME Init PROVE FInv
  OBVIOUS
<1> USE DEF Init
<1>1. FdTypes
  BY DEF FdTypes
<1>2. \A n \in Nodes : Holding(n) /\ ~Holds(n)
  BY DEF Holding, Holds
<1>3. \A n, m \in Nodes : Apart(n, m)
  BY <1>2 DEF Apart
<1>4. ASSUME NEW t \in Stones PROVE Fits(held[t], Slots(t))
  <2>1. held[t] = {} /\ [x \in {} |-> x] \in [{} -> Slots(t)]
    OBVIOUS
  <2> QED
    BY <2>1 DEF Fits
<1> QED
  BY <1>1, <1>2, <1>3, <1>4 DEF FInv

-----------------------------------------------------------------------------
(* What awget and a stone's thread may be, and who has closed a connection *)
AwgetPC == {"dial", "send", "reply", "relay", "spin", "received", "failed", "killed"}
Role(n) ==
    /\ IsAwget(n) => pc[n] \in AwgetPC
    /\ ~IsAwget(n) => pc[n] # "received"
    /\ n \in srvShut \/ Succ(n) \in reqShut => pc[n] \in Ended
    /\ pc[n] \in {"fetch", "open", "serve"} /\ Succ(n) \in Nodes => pc[Succ(n)] = "none"
Roles == \A n \in Nodes : Role(n)

LEMMA InitRoles == Init => Roles
  BY NodeFacts DEF Init, Roles, Role, AwgetPC, IsAwget

(* Only n moves, and closes its connections when it ends. *)
Alone(n) ==
    /\ \A m \in Nodes : m # n => pc'[m] = pc[m]
    /\ srvShut' \subseteq srvShut \cup {n} /\ reqShut' \subseteq reqShut \cup {Succ(n)}
    /\ pc'[n] \in Ended \/ (UNCHANGED shut /\ pc[n] \notin Ended)
    /\ pc'[n] \in Ended \/ pc[n] = "none" => pc'[n] # "none"
    /\ pc'[n] = pc[n] \/ pc[n] # "none"
    /\ pc'[n] \in {"open", "serve"} => pc[n] \in {"fetch", "open", "serve"}
    /\ pc'[n] = "fetch" => pc[n] = "header"
    /\ IsAwget(n) => pc'[n] \in AwgetPC
    /\ ~IsAwget(n) => pc'[n] # "received"

LEMMA AloneKeeps ==
    ASSUME IInv, Roles, NEW n \in Nodes, Alone(n)
    PROVE  Roles'
<1> SUFFICES ASSUME NEW m \in Nodes PROVE Role(m)'
  BY DEF Roles
<1>1. Role(m) /\ Role(n) /\ Succ(n) # n
  BY NodeFacts DEF Roles
<1>2. m # n => Succ(m) # Succ(n)
  BY NodeFacts
<1>3. m \in srvShut' \/ Succ(m) \in reqShut' => pc'[m] \in Ended
  BY <1>1, <1>2 DEF Alone, Role, shut
<1>4. ASSUME pc'[m] \in {"fetch", "open", "serve"}, Succ(m) \in Nodes
      PROVE  pc'[Succ(m)] = "none"
  <2>1. pc[Succ(m)] = "none"
    <3>1. CASE pc[m] \in {"fetch", "open", "serve"}
      BY <1>1, <1>4, <3>1 DEF Role
    <3>2. CASE pc[m] = "header"
      <4>1. m[1] \in Requests /\ m[2] \in 0 .. MaxHops /\ m = <<m[1], m[2]>>
            /\ m[2] + 1 \in 0 .. MaxHops
        BY <1>4, NodeFacts, SettingAssumption DEF Succ, Nodes
      <4>2. m[2] \in 0 .. (m[2] + 1 - 1)
        BY <4>1, SettingAssumption
      <4>3. pc[<<m[1], m[2] + 1>>] # "none" => pc[<<m[1], m[2]>>] \notin Early
        BY <4>1, <4>2 DEF IInv, InOrder
      <4> QED
        BY <3>2, <4>1, <4>3 DEF Succ, Early, Waiting
    <3> QED
      BY <1>4, <3>1, <3>2 DEF Alone
  <2> QED
    BY <1>1, <1>4, <2>1, NodeFacts DEF Alone, Ended
<1> QED
  BY <1>1, <1>3, <1>4 DEF Alone, Role, IsAwget

LEMMA RolesKill ==
    ASSUME IInv, Roles, NEW n \in Nodes, Alive(n), Kill(n)
    PROVE  Roles'
<1>1. /\ \A m \in Nodes : pc'[m] = IF m \in Threads(n) /\ Alive(m) THEN "killed" ELSE pc[m]
      /\ srvShut' = srvShut \cup Threads(n)
      /\ reqShut' = reqShut \cup {Succ(m) : m \in Threads(n)}
  BY DEF Kill
<1>2. Threads(n) \subseteq Nodes
  BY DEF Threads
<1>3. \A m \in Threads(n) : pc[m] # "none"
  BY DEF Threads, Alive, IInv, Phase, TypeOK
<1> SUFFICES ASSUME NEW m \in Nodes PROVE Role(m)'
  BY DEF Roles
<1>4. Role(m)
  BY DEF Roles
<1>5. Succ(m) \in {Succ(o) : o \in Threads(n)} => m \in Threads(n)
  <2> SUFFICES ASSUME NEW o \in Threads(n), Succ(m) = Succ(o) PROVE m = o
    OBVIOUS
  <2> QED
    BY <1>2, NodeFacts
<1>6. m \in srvShut' \/ Succ(m) \in reqShut' => pc'[m] \in Ended
  BY <1>1, <1>3, <1>4, <1>5 DEF Role, Alive, Ended
<1>7. pc'[m] = pc[m] \/ pc'[m] = "killed"
  BY <1>1
<1>8. Succ(m) \in Nodes /\ pc[Succ(m)] = "none" => pc'[Succ(m)] = "none"
  BY <1>1 DEF Alive
<1> QED
  BY <1>4, <1>6, <1>7, <1>8 DEF Role, IsAwget, AwgetPC

LEMMA RolesStep ==
    ASSUME IInv, Roles, NEW n \in Nodes, Step(n) \/ Crash(n)
    PROVE  Roles'
<1>1. CASE ConnectJunk(n) \/ SigPipe(n) \/ Crash(n)
  <2>1. Alive(n) /\ Kill(n)
    BY <1>1 DEF ConnectJunk, SigPipe, DialsJunk, SendsDown, SendsBack, Crash, Alive, Ended
  <2> QED
    BY <2>1, RolesKill
<1>2. pc \in [Nodes -> PC] /\ (IsAwget(n) => pc[n] \in AwgetPC) /\ Succ(n) # n
  BY NodeFacts DEF IInv, TypeOK, Roles, Role
<1>3. CASE Connect(n)
  <2>1. /\ pc[n] = "dial" /\ pc' = [pc EXCEPT ![n] = "send", ![Succ(n)] = "backlog"]
        /\ UNCHANGED shut
        /\ \E i \in 1 .. Len(list[n]) : TRUE
    BY <1>3 DEF Connect
  <2>2. pc[Succ(n)] = "none" /\ Succ(n) \in Nodes
    BY <2>1, NextStone
  <2> SUFFICES ASSUME NEW m \in Nodes PROVE Role(m)'
    BY DEF Roles
  <2>3. Role(m) /\ ~IsAwget(Succ(n)) /\ (m # n => Succ(m) # Succ(n))
    BY NodeFacts DEF Roles
  <2>4. CASE m = n
    BY <1>2, <2>1, <2>2, <2>3, <2>4 DEF Role, AwgetPC, shut, Ended, IsAwget
  <2>5. CASE m = Succ(n)
    BY <1>2, <2>1, <2>2, <2>3, <2>5 DEF Role, shut, Ended, IsAwget
  <2>6. CASE m \notin {n, Succ(n)}
    <3>1. pc'[m] = pc[m]
      BY <1>2, <2>1, <2>6
    <3>2. pc[m] \in {"fetch", "open", "serve"} /\ Succ(m) \in Nodes => pc'[Succ(m)] = pc[Succ(m)]
      BY <1>2, <2>1, <2>3, <2>6 DEF Role
    <3> QED
      BY <2>1, <2>3, <3>1, <3>2 DEF Role, shut, IsAwget
  <2> QED
    BY <2>4, <2>5, <2>6
<1>4. CASE SendList(n) \/ Accept(n) \/ RecvHeader(n) \/ SpinHeader(n) \/ RecvElement(n)
  BY <1>2, <1>4, AloneKeeps
     DEF SendList, Accept, RecvHeader, SpinHeader, RecvElement, Alone, AwgetPC, Ended, shut
<1>5. CASE SpinRelay(n) \/ SendBack(n) \/ Fetch(n) \/ Open(n) \/ Clean(n)
  BY <1>2, <1>5, AloneKeeps
     DEF SpinRelay, SendBack, Fetch, Open, Clean, Alone, AwgetPC, Ended, shut
<1>6. CASE \/ Refused(n) \/ LookupFails(n) \/ SendFails(n) \/ RecvReset(n)
           \/ CannotServe(n) \/ Close(n)
  BY <1>2, <1>6, AloneKeeps
     DEF Refused, LookupFails, SendFails, DialsJunk, SendsDown, SendsBack, RecvReset, CannotServe,
         Close, End, EndKeeping, Alone, AwgetPC, Ended, shut
<1>7. CASE RecvReply(n) \/ RecvData(n)
  BY <1>2, <1>7, AloneKeeps DEF RecvReply, RecvData, End, Alone, AwgetPC, Ended, shut
<1> QED
  BY <1>1, <1>3, <1>4, <1>5, <1>6, <1>7 DEF Step
-----------------------------------------------------------------------------
LEMMA FdStep ==
    ASSUME IInv, Roles, FInv, NEW n \in Nodes, Step(n) \/ Crash(n)
    PROVE  FInv'
<1>1. CASE ConnectJunk(n) \/ SigPipe(n) \/ Crash(n)
  <2>1. Alive(n) /\ Kill(n)
    BY <1>1 DEF ConnectJunk, SigPipe, DialsJunk, SendsDown, SendsBack, Crash, Alive, Ended
  <2> QED
    BY <2>1, FdKill
<1>2. CASE \/ SendList(n) \/ RecvHeader(n) \/ SpinHeader(n) \/ RecvElement(n)
           \/ RecvReply(n) \/ RecvData(n) \/ SpinRelay(n) \/ SendBack(n) \/ Fetch(n)
  BY <1>2, FdQuietSteps
<1>3. CASE Connect(n) \/ Refused(n) \/ LookupFails(n) \/ SendFails(n) \/ RecvReset(n)
  BY <1>3, FdQuietSteps, FdTakes, FdGives
<1>4. CASE Accept(n) \/ Open(n) \/ CannotServe(n) \/ Clean(n) \/ Close(n)
  <2>1. pc[n] \in {"backlog", "open", "serve", "close"}
    BY <1>4 DEF Accept, Open, CannotServe, Clean, Close
  <2>2. ~IsAwget(n)
    BY <2>1 DEF Roles, Role, AwgetPC
  <2> QED
    BY <1>4, <2>2, FdTakes, FdGives
<1> QED
  BY <1>1, <1>2, <1>3, <1>4 DEF Step
-----------------------------------------------------------------------------
(* What a node sends back for request q: the size of the file, then its    *)
(* parts.  b is what is sent after the first r of it, up to the x-th.      *)
Answers == Nat \cup (Requests \X Nat)
Answer(q, i) == IF i = 1 THEN setting.size[q] ELSE <<q, i - 1>>
Slice(b, q, r, x) ==
    /\ r \in Nat /\ x \in Nat
    /\ b \in Seq(Answers) /\ r + Len(b) = x
    /\ \A i \in 1 .. Len(b) : b[i] = Answer(q, r + i)

(* The parts of its answer that node n has received, and has sent *)
Size(n) == setting.size[n[1]]
Got(n) == CASE pc[n] \in {"relay", "forward"} -> Size(n) + 1 - left[n]
            [] pc[n] \in {"close", "done", "received"} -> Size(n) + 1
            [] OTHER -> 0
Given(n) == CASE pc[n] = "relay" -> Size(n) + 1 - left[n]
              [] pc[n] = "forward" -> Size(n) - left[n]
              [] pc[n] = "serve" -> Size(n) + 1 - Len(todo[n])
              [] pc[n] \in {"close", "done"} -> Size(n) + 1
              [] OTHER -> 0

Failed == {"failed", "killed"}
Sound(q) == \A n \in Nodes : n[1] = q => pc[n] \notin Failed
Streaming(n) ==
    /\ pc[n] # "spin"
    /\ pc[n] = "relay" => left[n] \in 1 .. Size(n)
    /\ pc[n] = "forward" => /\ left[n] \in 0 .. Size(n)
                            /\ Slice(todo[n], n[1], Size(n) - left[n], Size(n) + 1 - left[n])
    /\ pc[n] = "serve" =>
          Slice(todo[n], n[1], Size(n) + 1 - Len(todo[n]), Size(n) + 1)
Link(m) == ~IsAwget(m) /\ pc[m] # "none" => Slice(back[m], m[1], Got(Prev(m)), Given(m))
Kept(q) == LET n == <<q, 0>>
           IN IF Got(n) = 0 THEN saved[q] = <<>> ELSE Slice(saved[q], q, 1, Got(n))
Right(q) == Sound(q) => /\ Kept(q)
                        /\ \A n \in Nodes : n[1] = q => Streaming(n) /\ Link(n)

(* wget's file is there, and is the one of the thread's request. *)
OpenRight == /\ DOMAIN tmp = {Dir[t] : t \in Stones} \X Fds
             /\ \A n \in Nodes : pc[n] = "open" => tmp[Name(n)] = File(n[1])
LInv == /\ IInv /\ Roles /\ FInv /\ OpenRight
        /\ DOMAIN saved = Requests /\ \A q \in Requests : Right(q)
DirsApart == \A t, u \in Stones : Dir[t] = Dir[u] => t = u
-----------------------------------------------------------------------------
LEMMA SizeIsNat == ASSUME TypeOK, NEW q \in Requests PROVE setting.size[q] \in Nat
  BY SettingAssumption DEF TypeOK

LEMMA AnswerIs ==
    ASSUME TypeOK, NEW q \in Requests, NEW i \in Nat \ {0}
    PROVE  Answer(q, i) \in Answers
<1>1. CASE i = 1
  BY <1>1, SizeIsNat DEF Answer, Answers
<1>2. CASE i # 1
  BY <1>2 DEF Answer, Answers
<1> QED
  BY <1>1, <1>2

(* Receiving the next part of an answer, and sending it *)
LEMMA SliceTakes ==
    ASSUME NEW b, NEW q, NEW r, NEW x, Slice(b, q, r, x), b # <<>>
    PROVE  Head(b) = Answer(q, r + 1) /\ Slice(Tail(b), q, r + 1, x) /\ Len(Tail(b)) = Len(b) - 1
<1> USE DEF Slice
<1>1. b \in Seq(Answers) /\ Len(b) \in Nat /\ Len(b) # 0 /\ r \in Nat /\ x \in Nat
  OBVIOUS
<1>2. /\ Head(b) = b[1] /\ Tail(b) \in Seq(Answers) /\ Len(Tail(b)) = Len(b) - 1
      /\ \A i \in 1 .. Len(Tail(b)) : Tail(b)[i] = b[i + 1]
  BY <1>1
<1>3. 1 \in 1 .. Len(b) /\ \A i \in 1 .. Len(Tail(b)) : i + 1 \in 1 .. Len(b)
  BY <1>1, <1>2
<1>4. \A i \in 1 .. Len(Tail(b)) : Tail(b)[i] = Answer(q, (r + 1) + i)
  <2> SUFFICES ASSUME NEW i \in 1 .. Len(Tail(b)) PROVE Tail(b)[i] = Answer(q, (r + 1) + i)
    OBVIOUS
  <2>1. b[i + 1] = Answer(q, r + (i + 1))
    BY <1>3
  <2>2. r + (i + 1) = (r + 1) + i
    BY <1>1, <1>2
  <2> QED
    BY <1>2, <2>1, <2>2
<1>5. r + 1 + Len(Tail(b)) = x
  BY <1>1, <1>2
<1> QED
  BY <1>1, <1>2, <1>3, <1>4, <1>5

LEMMA SliceGrows ==
    ASSUME NEW b, NEW q, NEW r, NEW x, Slice(b, q, r, x), NEW v \in Answers, v = Answer(q, x + 1)
    PROVE  Slice(Append(b, v), q, r, x + 1)
<1> USE DEF Slice
<1>1. b \in Seq(Answers) /\ Len(b) \in Nat /\ r \in Nat /\ x \in Nat /\ r + Len(b) = x
  OBVIOUS
<1>2. /\ Append(b, v) \in Seq(Answers) /\ Len(Append(b, v)) = Len(b) + 1
      /\ \A i \in 1 .. Len(b) : Append(b, v)[i] = b[i]
      /\ Append(b, v)[Len(b) + 1] = v
  BY <1>1
<1>3. ASSUME NEW i \in 1 .. Len(Append(b, v)) PROVE Append(b, v)[i] = Answer(q, r + i)
  <2>1. CASE i \in 1 .. Len(b)
    BY <1>2, <2>1
  <2>2. CASE i = Len(b) + 1
    <3>1. r + i = x + 1
      BY <1>1, <2>2
    <3> QED
      BY <1>2, <2>2, <3>1
  <2> QED
    BY <1>1, <1>2, <2>1, <2>2
<1> QED
  BY <1>1, <1>2, <1>3

LEMMA SliceEmpty ==
    ASSUME NEW q, NEW r \in Nat
    PROVE  Slice(<<>>, q, r, r)
  BY DEF Slice

LEMMA SliceOne ==
    ASSUME NEW q, NEW r \in Nat, NEW v \in Answers, v = Answer(q, r + 1)
    PROVE  Slice(<<v>>, q, r, r + 1)
<1>1. <<v>> \in Seq(Answers) /\ Len(<<v>>) = 1 /\ <<v>>[1] = v
  OBVIOUS
<1> QED
  BY <1>1 DEF Slice

(* What is sent of the file is its size and its parts. *)
LEMMA SliceFile ==
    ASSUME TypeOK, NEW q \in Requests, NEW b, b = <<Len(File(q))>> \o File(q)
    PROVE  Slice(b, q, 0, setting.size[q] + 1)
<1> DEFINE N == setting.size[q]
           f == File(q)
<1>1. N \in Nat
  BY SizeIsNat
<1>2. f \in [1 .. N -> Answers] /\ \A i \in 1 .. N : f[i] = <<q, i>>
  BY <1>1 DEF File, Answers
<1>3. f \in Seq(Answers) /\ Len(f) = N
  BY <1>1, <1>2, FunctionIsSeq
<1>4. N \in Answers
  BY <1>1 DEF Answers
<1> HIDE DEF f, N
<1>5. PICK h, e, A : h = N /\ e = f /\ A = Answers
  OBVIOUS
<1>6. h \in A /\ e \in Seq(A) /\ <<h>> \in Seq(A)
  BY <1>3, <1>4, <1>5
<1>7. b = <<h>> \o e
  BY <1>3, <1>5 DEF f
<1>8. /\ b \in Seq(A) /\ Len(b) = 1 + Len(e) /\ b[1] = h
      /\ \A i \in 1 .. Len(e) : b[i + 1] = e[i]
  <2>1. PICK k : k = <<h>>
    OBVIOUS
  <2>2. k \in Seq(A) /\ Len(k) = 1 /\ k[1] = h /\ b = k \o e
    BY <1>6, <1>7, <2>1
  <2>3. e \in Seq(A)
    BY <1>6
  <2>4. /\ k \o e \in Seq(A) /\ Len(k \o e) = Len(k) + Len(e)
        /\ \A i \in 1 .. Len(k) + Len(e) :
              (k \o e)[i] = IF i <= Len(k) THEN k[i] ELSE e[i - Len(k)]
    <3> k \in Seq(A) /\ e \in Seq(A)
      BY <2>2, <2>3
    <3> QED
      BY ConcatProperties, Zenon
  <2>5. /\ b \in Seq(A) /\ Len(b) = Len(k) + Len(e)
        /\ \A i \in 1 .. Len(k) + Len(e) :
              b[i] = IF i <= Len(k) THEN k[i] ELSE e[i - Len(k)]
    BY <2>2, <2>4, Zenon
  <2> QED
    BY <2>2, <2>3, <2>5
<1>9. ASSUME NEW i \in 1 .. Len(b) PROVE b[i] = Answer(q, i)
  <2>1. CASE i = 1
    BY <1>5, <1>8, <2>1 DEF Answer, N
  <2>2. CASE i # 1
    <3>1. i - 1 \in 1 .. Len(e) /\ (i - 1) + 1 = i
      BY <1>6, <1>8, <2>2
    <3>2. b[i] = e[i - 1] /\ i - 1 \in 1 .. N
      BY <1>3, <1>5, <1>8, <3>1
    <3> QED
      BY <1>2, <1>5, <2>2, <3>2 DEF Answer
  <2> QED
    BY <2>1, <2>2
<1>10. 0 + Len(b) = N + 1
  BY <1>1, <1>3, <1>5, <1>8
<1> QED
  BY <1>1, <1>5, <1>8, <1>9, <1>10 DEF Slice, N
-----------------------------------------------------------------------------
(* Two threads that use a file at the same time use different ones. *)
LEMMA NamesApart ==
    ASSUME DirsApart, IInv, Roles, FInv, NEW n \in Nodes, NEW m \in Nodes, n # m,
           pc[n] \in {"fetch", "open", "serve"}, pc[m] \in {"fetch", "open", "serve"}
    PROVE  Name(n) # Name(m)
<1>1. ASSUME NEW o \in {n, m} PROVE Holds(o) /\ at[o] \in Stones /\ s[o] # 0
  <2>1. ~IsAwget(o)
    BY DEF Roles, Role, AwgetPC
  <2>2. Holds(o)
    BY <2>1 DEF Holds, Ended
  <2> QED
    BY <2>1, <2>2 DEF FInv, Holding, IInv, TypeOK, Phase
<1>2. Apart(n, m)
  BY DEF FInv
<1>3. CASE at[n] = at[m]
  BY <1>1, <1>2, <1>3 DEF Apart, Mine, Name
<1>4. CASE at[n] # at[m]
  BY <1>1, <1>4 DEF DirsApart, Name
<1> QED
  BY <1>3, <1>4

LEMMA NameIs ==
    ASSUME IInv, Roles, FInv, OpenRight, NEW n \in Nodes,
           pc[n] \in {"fetch", "open", "serve"}
    PROVE  Name(n) \in DOMAIN tmp
<1>1. ~IsAwget(n)
  BY DEF Roles, Role, AwgetPC
<1>2. Holds(n)
  BY <1>1 DEF Holds, Ended
<1>3. s[n] \in Fds /\ at[n] \in Stones
  BY <1>1, <1>2 DEF FInv, Holding, FdTypes, IInv, TypeOK, Phase
<1> QED
  BY <1>3 DEF Name, OpenRight

(* Nobody overwrites or deletes the file between wget and open(). *)
LEMMA OpenStep ==
    ASSUME DirsApart, IInv, Roles, FInv, OpenRight, NEW n \in Nodes, Step(n) \/ Crash(n)
    PROVE  OpenRight'
<1>1. pc \in [Nodes -> PC] /\ DOMAIN s = Nodes /\ DOMAIN at = Nodes
  BY DEF IInv, TypeOK, FInv, FdTypes
<1>2. setting' = setting
  BY DEF Step, Connect, Refused, LookupFails, SendFails, ConnectJunk, SendList, SigPipe, Accept, RecvHeader, SpinHeader,
         RecvElement, RecvReset, RecvReply, RecvData, SpinRelay, SendBack, Fetch, Open,
         CannotServe, Clean, Close, Crash, Kill
<1>3. \A m \in Nodes : File(m[1])' = File(m[1])
  BY <1>2 DEF File
<1>4. CASE Fetch(n)
  <2>1. /\ pc[n] = "fetch" /\ tmp' = [tmp EXCEPT ![Name(n)] = File(n[1])]
        /\ UNCHANGED <<at, s>> /\ \A m \in Nodes : m # n => pc'[m] = pc[m]
    BY <1>1, <1>4 DEF Fetch, reading, fds
  <2>2. \A m \in Nodes : Name(m)' = Name(m)
    BY <2>1 DEF Name
  <2>3. Name(n) \in DOMAIN tmp
    BY <2>1, NameIs
  <2>4. tmp'[Name(n)] = File(n[1]) /\ DOMAIN tmp' = DOMAIN tmp
        /\ \A x \in DOMAIN tmp : x # Name(n) => tmp'[x] = tmp[x]
    BY <2>1, <2>3
  <2>5. ASSUME NEW m \in Nodes, pc'[m] = "open" PROVE tmp'[Name(m)'] = File(m[1])'
    <3>1. CASE m = n
      BY <1>3, <2>2, <2>4, <3>1
    <3>2. CASE m # n
      <4>1. pc[m] = "open"
        BY <2>1, <2>5, <3>2
      <4>2. Name(m) # Name(n) /\ Name(m) \in DOMAIN tmp
        BY <2>1, <3>2, <4>1, NamesApart, NameIs
      <4> QED
        BY <1>3, <2>2, <2>4, <4>1, <4>2 DEF OpenRight
    <3> QED
      BY <3>1, <3>2
  <2> QED
    BY <2>4, <2>5 DEF OpenRight, Fds
<1>5. CASE Clean(n)
  <2>1. /\ pc[n] = "serve" /\ tmp' = [tmp EXCEPT ![Name(n)] = NoFile] /\ pc'[n] = "close"
        /\ UNCHANGED <<at, s>> /\ \A m \in Nodes : m # n => pc'[m] = pc[m]
    BY <1>1, <1>5 DEF Clean, reading
  <2>2. \A m \in Nodes : Name(m)' = Name(m)
    BY <2>1 DEF Name
  <2>3. DOMAIN tmp' = DOMAIN tmp
        /\ \A x \in DOMAIN tmp : x # Name(n) => tmp'[x] = tmp[x]
    BY <2>1
  <2>4. ASSUME NEW m \in Nodes, pc'[m] = "open" PROVE tmp'[Name(m)'] = File(m[1])'
    <3>1. m # n /\ pc[m] = "open"
      BY <2>1, <2>4
    <3>2. Name(m) # Name(n) /\ Name(m) \in DOMAIN tmp
      BY <2>1, <3>1, NamesApart, NameIs
    <3> QED
      BY <1>3, <2>2, <2>3, <3>1, <3>2 DEF OpenRight
  <2> QED
    BY <2>3, <2>4 DEF OpenRight, Fds
<1>6. CASE ~Fetch(n) /\ ~Clean(n)
  <2>1. tmp' = tmp
    BY <1>6 DEF Step, Connect, Refused, LookupFails, SendFails, ConnectJunk, SendList, SigPipe, Accept, RecvHeader,
         SpinHeader, RecvElement, RecvReset, RecvReply, RecvData, SpinRelay, SendBack, Open,
         CannotServe, Close, Crash, Kill
  <2>2. ASSUME NEW m \in Nodes, pc'[m] = "open"
        PROVE  pc[m] = "open" /\ at'[m] = at[m] /\ s'[m] = s[m]
    <3> USE <1>1, <1>6, <2>2
    <3>1. CASE ConnectJunk(n) \/ SigPipe(n) \/ Crash(n)
      BY <3>1 DEF ConnectJunk, SigPipe, Crash, Kill, reading, fds
    <3>2. CASE Connect(n)
      <4>1. Succ(n) \in Nodes /\ pc[n] = "dial" /\ UNCHANGED s
            /\ pc' = [pc EXCEPT ![n] = "send", ![Succ(n)] = "backlog"]
            /\ \E i \in 1 .. Len(list[n]) : \E t : at' = [at EXCEPT ![Succ(n)] = t]
        BY <3>2, NextStone DEF Connect
      <4>2. m # n /\ m # Succ(n)
        BY <4>1
      <4> QED
        BY <4>1, <4>2
    <3>3. CASE Accept(n)
      BY <3>3 DEF Accept, reading
    <3>4. CASE SendList(n) \/ RecvHeader(n) \/ SpinHeader(n) \/ RecvElement(n) \/ SpinRelay(n)
      BY <3>4 DEF SendList, RecvHeader, SpinHeader, RecvElement, SpinRelay, reading, fds
    <3>5. CASE SendBack(n) \/ Open(n) \/ RecvReply(n) \/ RecvData(n)
      BY <3>5 DEF SendBack, Open, RecvReply, RecvData, End, reading, fds
    <3>6. CASE \/ Refused(n) \/ LookupFails(n) \/ SendFails(n) \/ RecvReset(n)
               \/ CannotServe(n) \/ Close(n)
      BY <3>6 DEF Refused, LookupFails, SendFails, RecvReset, CannotServe, Close, End, EndKeeping, reading
    <3> QED
      BY <3>1, <3>2, <3>3, <3>4, <3>5, <3>6 DEF Step
  <2> QED
    BY <1>3, <2>1, <2>2 DEF OpenRight, Fds, Name
<1> QED
  BY <1>4, <1>5, <1>6
-----------------------------------------------------------------------------
(* A step of node n: what it has to show is about n and its two links. *)
Calls(n, m) == m = Succ(n) /\ pc[m] = "none" /\ pc'[m] = "backlog"
Touches(n) ==
    /\ setting' = setting /\ pc[n] \notin Ended
    /\ \A m \in Nodes : m # n => /\ pc'[m] = pc[m] \/ Calls(n, m)
                                 /\ todo'[m] = todo[m] /\ left'[m] = left[m]
    /\ \A m \in Nodes : m \notin {n, Succ(n)} => back'[m] = back[m]
    /\ \A q \in Requests : q # n[1] => saved'[q] = saved[q]
RightAt(n) == /\ Streaming(n) /\ Link(n) /\ Kept(n[1])
              /\ Succ(n) \in Nodes => Link(Succ(n))

LEMMA SameCounts ==
    ASSUME NEW m, setting' = setting, pc'[m] = pc[m] \/ (pc[m] = "none" /\ pc'[m] = "backlog"),
           todo'[m] = todo[m], left'[m] = left[m]
    PROVE  /\ Got(m)' = Got(m) /\ Given(m)' = Given(m)
           /\ Streaming(m) => Streaming(m)'
<1>1. Size(m)' = Size(m)
  BY DEF Size
<1>2. \A b, q, r, x : Slice(b, q, r, x)' <=> Slice(b, q, r, x)
  BY DEF Slice, Answer
<1>3. CASE pc'[m] = pc[m]
  BY <1>1, <1>2, <1>3 DEF Got, Given, Streaming
<1>4. CASE pc[m] = "none" /\ pc'[m] = "backlog"
  BY <1>1, <1>4 DEF Got, Given, Streaming
<1> QED
  BY <1>3, <1>4

LEMMA RightKeeps ==
    ASSUME IInv, NEW n \in Nodes, Touches(n), \A q \in Requests : Right(q),
           Sound(n[1]) /\ Sound(n[1])' => RightAt(n)'
    PROVE  \A q \in Requests : Right(q)'
<1> USE DEF Touches
<1> SUFFICES ASSUME NEW q \in Requests, Sound(q)'
             PROVE  Kept(q)' /\ \A m \in Nodes : m[1] = q => Streaming(m)' /\ Link(m)'
  BY DEF Right
<1>1. Sound(q)
  BY DEF Sound, Calls, Failed, Ended
<1>2. \A b, c, r, x : Slice(b, c, r, x)' <=> Slice(b, c, r, x)
  BY DEF Slice, Answer
<1>3. Kept(q) /\ \A m \in Nodes : m[1] = q => Streaming(m) /\ Link(m)
  BY <1>1 DEF Right
<1>4. \A m \in Nodes : m # n => Got(m)' = Got(m) /\ Given(m)' = Given(m) /\ (Streaming(m) => Streaming(m)')
  BY SameCounts DEF Calls
<1>5. q = n[1] => RightAt(n)'
  BY <1>1
<1>6. ASSUME NEW m \in Nodes, m[1] = q PROVE Streaming(m)' /\ Link(m)'
  <2>1. CASE m = n
    BY <1>5, <1>6, <2>1 DEF RightAt
  <2>2. CASE m = Succ(n)
    <3>1. m # n /\ m[1] = n[1]
      BY <2>2, NodeFacts DEF Succ
    <3> QED
      BY <1>3, <1>4, <1>5, <1>6, <2>2, <3>1 DEF RightAt
  <2>3. CASE m \notin {n, Succ(n)}
    <3>1. Streaming(m) /\ Link(m)
      BY <1>3, <1>6
    <3>2. ~IsAwget(m) => Prev(m) \in Nodes /\ Prev(m) # n
      BY <2>3, NodeFacts
    <3>3. pc'[m] = pc[m] /\ back'[m] = back[m] /\ Given(m)' = Given(m)
      BY <1>4, <2>3 DEF Calls
    <3>4. ASSUME ~IsAwget(m), pc'[m] # "none"
          PROVE  Slice(back[m], m[1], Got(Prev(m)), Given(m))'
      <4>1. Slice(back[m], m[1], Got(Prev(m)), Given(m))
        BY <3>1, <3>3, <3>4 DEF Link
      <4>2. Got(Prev(m))' = Got(Prev(m))
        BY <1>4, <3>2, <3>4
      <4> QED
        BY <1>2, <3>3, <4>1, <4>2
    <3> QED
      BY <1>4, <2>3, <3>1, <3>4 DEF Link, IsAwget
  <2> QED
    BY <2>1, <2>2, <2>3
<1>7. Kept(q)'
  <2>1. CASE q = n[1]
    BY <1>5, <2>1 DEF RightAt
  <2>2. CASE q # n[1]
    <3>1. <<q, 0>> \in Nodes /\ <<q, 0>> # n
      BY <2>2, SettingAssumption DEF Nodes
    <3> QED
      BY <1>2, <1>3, <1>4, <2>2, <3>1 DEF Kept
  <2> QED
    BY <2>1, <2>2
<1> QED
  BY <1>6, <1>7

(* A process that dies leaves what its other requests rely on. *)
LEMMA RightKill ==
    ASSUME IInv, NEW n \in Nodes, Alive(n), Kill(n), \A q \in Requests : Right(q)
    PROVE  \A q \in Requests : Right(q)'
<1>1. /\ \A m \in Nodes : pc'[m] = pc[m] \/ (pc'[m] = "killed" /\ pc[m] \notin Ended)
      /\ UNCHANGED <<setting, todo, left, back, saved>>
  BY DEF Kill, links, Alive
<1> SUFFICES ASSUME NEW q \in Requests, Sound(q)'
             PROVE  Kept(q)' /\ \A m \in Nodes : m[1] = q => Streaming(m)' /\ Link(m)'
  BY DEF Right
<1>2. \A m \in Nodes : m[1] = q => pc'[m] = pc[m]
  BY <1>1 DEF Sound, Failed
<1>3. Kept(q) /\ \A m \in Nodes : m[1] = q => Streaming(m) /\ Link(m)
  BY <1>2 DEF Right, Sound
<1>4. \A b, c, r, x : Slice(b, c, r, x)' <=> Slice(b, c, r, x)
  BY <1>1 DEF Slice, Answer
<1>5. \A m \in Nodes : m[1] = q => Got(m)' = Got(m) /\ Given(m)' = Given(m) /\ (Streaming(m) => Streaming(m)')
  BY <1>1, <1>2, SameCounts
<1>6. ASSUME NEW m \in Nodes, m[1] = q PROVE Link(m)'
  <2> SUFFICES ASSUME ~IsAwget(m), pc'[m] # "none"
               PROVE  Slice(back[m], m[1], Got(Prev(m)), Given(m))'
    BY DEF Link, IsAwget
  <2>1. Prev(m) \in Nodes /\ Prev(m)[1] = q
    BY <1>6, NodeFacts DEF Prev
  <2>2. Slice(back[m], m[1], Got(Prev(m)), Given(m))
    BY <1>2, <1>3, <1>6 DEF Link
  <2>3. Got(Prev(m))' = Got(Prev(m)) /\ Given(m)' = Given(m) /\ back'[m] = back[m]
    BY <1>1, <1>5, <1>6, <2>1
  <2> QED
    BY <1>4, <2>2, <2>3
<1>7. Kept(q)'
  <2>1. <<q, 0>> \in Nodes /\ <<q, 0>>[1] = q
    BY SettingAssumption DEF Nodes
  <2> QED
    BY <1>1, <1>3, <1>4, <1>5, <2>1 DEF Kept
<1> QED
  BY <1>3, <1>5, <1>6, <1>7
-----------------------------------------------------------------------------
LEMMA AtNode ==
    ASSUME IInv, NEW n \in Nodes, Right(n[1]), Sound(n[1])
    PROVE  /\ RightAt(n)
           /\ Succ(n) \in Nodes => Streaming(Succ(n))
           /\ ~IsAwget(n) => Streaming(Prev(n))
<1>1. /\ Succ(n)[1] = n[1] /\ Prev(n)[1] = n[1]
      /\ ~IsAwget(n) => Prev(n) \in Nodes
  BY NodeFacts DEF Succ, Prev
<1> QED
  BY <1>1 DEF Right, RightAt

LEMMA LinkSame ==
    ASSUME NEW m \in Nodes, Link(m), setting' = setting, back'[m] = back[m],
           pc'[m] # "none" => pc[m] # "none",
           Got(Prev(m))' = Got(Prev(m)), Given(m)' = Given(m)
    PROVE  Link(m)'
<1>1. \A b, q, r, x : Slice(b, q, r, x)' <=> Slice(b, q, r, x)
  BY DEF Slice, Answer
<1> QED
  BY <1>1 DEF Link, IsAwget

(* Up to the answer of the stone it called, a node only has its list. *)
Idle == Waiting \cup {"none", "dial", "send", "reply", "fetch", "open"}
LEMMA IdleStep ==
    ASSUME IInv, NEW n \in Nodes, Touches(n), Right(n[1]), Sound(n[1]),
           pc[n] \in Idle \ {"none"}, pc'[n] \in Idle, UNCHANGED <<back, saved>>
    PROVE  RightAt(n)'
<1> USE DEF Touches
<1>1. RightAt(n)
  BY AtNode
<1>2. Got(n) = 0 /\ Got(n)' = 0 /\ Given(n) = 0 /\ Given(n)' = 0
  BY DEF Idle, Waiting, Got, Given
<1>3. Streaming(n)'
  BY DEF Idle, Waiting, Streaming
<1>4. Link(n)'
  <2>1. ~IsAwget(n) => Got(Prev(n))' = Got(Prev(n))
    <3> SUFFICES ASSUME ~IsAwget(n) PROVE Got(Prev(n))' = Got(Prev(n))
      OBVIOUS
    <3>1. Prev(n) \in Nodes /\ Prev(n) # n
      BY NodeFacts
    <3> QED
      BY <3>1, SameCounts DEF Calls
  <2>2. CASE IsAwget(n)
    BY <2>2 DEF Link, IsAwget
  <2>3. CASE ~IsAwget(n)
    BY <1>1, <1>2, <2>1, <2>3, LinkSame DEF RightAt
  <2> QED
    BY <2>2, <2>3
<1>5. Kept(n[1])'
  <2>1. CASE IsAwget(n)
    <3>1. n = <<n[1], 0>>
      BY <2>1, NodeFacts DEF IsAwget
    <3> QED
      BY <1>1, <1>2, <3>1 DEF RightAt, Kept
  <2>2. CASE ~IsAwget(n)
    <3>1. <<n[1], 0>> \in Nodes /\ <<n[1], 0>> # n
      BY <2>2, NodeFacts, SettingAssumption DEF Nodes, IsAwget
    <3>2. Got(<<n[1], 0>>)' = Got(<<n[1], 0>>)
      BY <3>1, SameCounts DEF Calls
    <3>3. \A b, q, r, x : Slice(b, q, r, x)' <=> Slice(b, q, r, x)
      BY DEF Slice, Answer
    <3> QED
      BY <1>1, <3>2, <3>3 DEF RightAt, Kept
  <2> QED
    BY <2>1, <2>2
<1>6. ASSUME Succ(n) \in Nodes PROVE Link(Succ(n))'
  <2> DEFINE m == Succ(n)
  <2>1. Prev(m) = n /\ m # n
    BY NodeFacts
  <2>2. Got(m)' = Got(m) /\ Given(m)' = Given(m)
    BY <1>6, <2>1, SameCounts DEF Calls
  <2>3. CASE pc'[m] = pc[m]
    BY <1>1, <1>2, <1>6, <2>1, <2>2, <2>3, LinkSame DEF RightAt
  <2>4. CASE pc[m] = "none"
    <3>1. back[m] = <<>>
      BY <1>6, <2>4 DEF IInv, Unanswered
    <3>2. Given(m) = 0
      BY <2>4 DEF Given
    <3>3. Slice(<<>>, m[1], 0, 0)'
      BY DEF Slice
    <3> QED
      BY <1>2, <2>1, <2>2, <3>1, <3>2, <3>3 DEF Link
  <2> QED
    BY <1>6, <2>1, <2>3, <2>4 DEF Calls
<1> QED
  BY <1>3, <1>4, <1>5, <1>6 DEF RightAt

(* The actions of the list phase *)
LEMMA IdleSteps ==
    ASSUME IInv, NEW n \in Nodes, \A q \in Requests : Right(q),
           \/ Connect(n) \/ SendList(n) \/ Accept(n) \/ RecvHeader(n) \/ RecvElement(n)
           \/ Fetch(n)
    PROVE  \A q \in Requests : Right(q)'
<1>1. pc \in [Nodes -> PC] /\ DOMAIN todo = Nodes
  BY DEF IInv, TypeOK
<1>2. /\ Touches(n) /\ pc[n] \in Idle \ {"none"} /\ pc'[n] \in Idle /\ UNCHANGED <<back, saved>>
  <2>1. CASE Connect(n)
    <3>1. /\ pc[n] = "dial" /\ \E i \in 1 .. Len(list[n]) : \E w : todo' = [todo EXCEPT ![n] = w]
          /\ pc' = [pc EXCEPT ![n] = "send", ![Succ(n)] = "backlog"]
          /\ UNCHANGED <<setting, left, back, saved>>
      BY <2>1 DEF Connect, links
    <3>2. Succ(n) \in Nodes /\ pc[Succ(n)] = "none" /\ Succ(n) # n
      BY <3>1, NextStone, NodeFacts
    <3> QED
      BY <1>1, <3>1, <3>2 DEF Touches, Calls, Idle, Ended
  <2>2. CASE SendList(n) \/ Accept(n) \/ RecvHeader(n) \/ RecvElement(n) \/ Fetch(n)
    BY <1>1, <2>2 DEF SendList, Accept, RecvHeader, RecvElement, Fetch, links, Touches, Idle,
                      Waiting, Ended
  <2> QED
    BY <2>1, <2>2
<1>3. n[1] \in Requests
  BY NodeFacts
<1> QED
  BY <1>2, <1>3, IdleStep, RightKeeps
-----------------------------------------------------------------------------
(* While nothing failed, a connection is closed by the stone only after    *)
(* the whole answer, ...                                                   *)
LEMMA NothingCutOff ==
    ASSUME IInv, Roles, NEW n \in Nodes, Right(n[1]), Sound(n[1]), pc[n] \in {"reply", "relay"},
           Succ(n) \in srvShut
    PROVE  back[Succ(n)] # <<>>
<1> DEFINE m == Succ(n)
           N == setting.size[n[1]]
<1>1. /\ m \in Nodes /\ pc[m] # "none" /\ m[1] = n[1] /\ ~IsAwget(m) /\ Prev(m) = n
      /\ N \in Nat
  BY NodeFacts, SizeIsNat DEF IInv, Phase, Calling, Succ
<1>2. pc[m] = "done"
  BY <1>1 DEF Roles, Role, Sound, Ended, Failed
<1>3. Given(m) = N + 1
  BY <1>1, <1>2 DEF Given, Size
<1>4. Slice(back[m], m[1], Got(n), N + 1)
  BY <1>1, <1>3, AtNode DEF RightAt, Link
<1>5. Got(n) \in Int /\ Got(n) < N + 1
  <2>1. CASE pc[n] = "reply"
    BY <1>1, <2>1 DEF Got
  <2>2. CASE pc[n] = "relay"
    <3>1. left[n] \in 1 .. N
      BY <2>2, AtNode DEF RightAt, Streaming, Size
    <3> QED
      BY <1>1, <2>2, <3>1 DEF Got, Size
  <2> QED
    BY <2>1, <2>2
<1> HIDE DEF m, N
<1>6. PICK b, g : b = back[m] /\ g = Got(n)
  OBVIOUS
<1>7. g + Len(b) = N + 1 /\ g < N + 1 /\ g \in Int /\ N \in Nat
  BY <1>1, <1>4, <1>5, <1>6 DEF Slice
<1>8. b # <<>>
  BY <1>7
<1> QED
  BY <1>6, <1>8 DEF m

(* ... and by the requester only after it has got the whole of it. *)
LEMMA Listening ==
    ASSUME IInv, Roles, NEW n \in Nodes, Right(n[1]), Sound(n[1]),
           pc[n] \in {"forward", "serve"}, todo[n] # <<>>
    PROVE  ~IsAwget(n) /\ n \notin reqShut
<1> DEFINE N == setting.size[n[1]]
<1>1. ~IsAwget(n) /\ N \in Nat
  BY NodeFacts, SizeIsNat DEF Roles, Role, AwgetPC, IInv
<1>2. Prev(n) \in Nodes /\ Prev(n)[1] = n[1] /\ Succ(Prev(n)) = n
  BY <1>1, NodeFacts DEF Prev
<1>3. ASSUME n \in reqShut PROVE FALSE
  <2>1. pc[Prev(n)] \in {"done", "received"}
    BY <1>2, <1>3 DEF Roles, Role, Sound, Ended, Failed
  <2>2. Got(Prev(n)) = N + 1
    BY <1>2, <2>1 DEF Got, Size
  <2>3. Slice(back[n], n[1], N + 1, Given(n))
    BY <1>1, <2>2, AtNode DEF RightAt, Link
  <2>4. Streaming(n)
    BY AtNode DEF RightAt
  <2>5. PICK b, t, g, l : b = back[n] /\ t = todo[n] /\ g = Given(n) /\ l = left[n]
    OBVIOUS
  <2> HIDE DEF N
  <2>6. b \in Seq(Answers) /\ N + 1 + Len(b) = g
    BY <2>3, <2>5 DEF Slice
  <2>7. CASE pc[n] = "forward"
    <3>1. g = N - l /\ l \in 0 .. N
      BY <2>4, <2>5, <2>7 DEF Given, Size, Streaming, N
    <3> QED
      BY <1>1, <2>6, <3>1
  <2>8. CASE pc[n] = "serve"
    <3>1. g = N + 1 - Len(t) /\ t \in Seq(Answers) /\ t # <<>>
      BY <2>4, <2>5, <2>8 DEF Given, Size, Streaming, N, Slice
    <3> QED
      BY <1>1, <2>6, <3>1
  <2> QED
    BY <2>7, <2>8
<1> QED
  BY <1>1, <1>3

(* The failing steps say so; nobody is left alone at the end of a stream   *)
(* while nothing has failed.                                               *)
LEMMA FailedSteps ==
    ASSUME IInv, Roles, NEW n \in Nodes, \A q \in Requests : Right(q),
           \/ ConnectJunk(n) \/ SigPipe(n) \/ Crash(n)
           \/ Refused(n) \/ LookupFails(n) \/ SendFails(n) \/ RecvReset(n) \/ CannotServe(n)
           \/ SpinHeader(n) \/ SpinRelay(n)
    PROVE  \A q \in Requests : Right(q)'
<1>1. CASE ConnectJunk(n) \/ SigPipe(n) \/ Crash(n)
  <2>1. Alive(n) /\ Kill(n)
    BY <1>1 DEF ConnectJunk, SigPipe, DialsJunk, SendsDown, SendsBack, Crash, Alive, Ended
  <2> QED
    BY <2>1, RightKill
<1>2. pc \in [Nodes -> PC] /\ n[1] \in Requests
  BY NodeFacts DEF IInv, TypeOK
<1>3. CASE \/ Refused(n) \/ LookupFails(n) \/ SendFails(n) \/ RecvReset(n) \/ CannotServe(n)
           \/ SpinHeader(n) \/ SpinRelay(n)
  <2>1. Touches(n)
    BY <1>2, <1>3 DEF Refused, LookupFails, SendFails, DialsJunk, SendsDown, SendsBack, RecvReset,
                      CannotServe, SpinHeader, SpinRelay, End, EndKeeping, Touches, links, Ended
  <2>2. Sound(n[1]) /\ Sound(n[1])' => RightAt(n)'
    <3>1. CASE \/ Refused(n) \/ LookupFails(n) \/ SendFails(n) \/ RecvReset(n)
               \/ CannotServe(n)
      <4>1. pc'[n] = "failed"
        BY <1>2, <3>1 DEF Refused, LookupFails, SendFails, RecvReset, CannotServe, End, EndKeeping
      <4> QED
        BY <4>1 DEF Sound, Failed
    <3>2. CASE SpinHeader(n)
      <4>1. pc[n] = "header" /\ n \in reqShut /\ ~IsAwget(n) /\ Prev(n) \in Nodes
            /\ pc[Prev(n)] \in {"send", "reply", "killed"}
            /\ Prev(n)[1] = n[1] /\ Succ(Prev(n)) = n
        BY <3>2, NodeFacts DEF SpinHeader, AtEnd, IInv, Unanswered, Waiting, Prev
      <4>2. pc[Prev(n)] = "killed"
        BY <4>1 DEF Roles, Role, Ended
      <4> QED
        BY <4>1, <4>2 DEF Sound, Failed
    <3>3. CASE SpinRelay(n)
      BY <1>2, <3>3, NothingCutOff DEF SpinRelay
    <3> QED
      BY <1>3, <3>1, <3>2, <3>3
  <2> QED
    BY <2>1, <2>2, RightKeeps
<1> QED
  BY <1>1, <1>3
-----------------------------------------------------------------------------
(* A step of a stone leaves what awget has and what its requester has got, *)
(* ...                                                                     *)
LEMMA StoneKeeps ==
    ASSUME IInv, NEW n \in Nodes, Touches(n), RightAt(n), ~IsAwget(n)
    PROVE  /\ Got(Prev(n))' = Got(Prev(n))
           /\ saved' = saved => Kept(n[1])'
<1> USE DEF Touches
<1>1. Prev(n) \in Nodes /\ Prev(n) # n
  BY NodeFacts
<1>2. <<n[1], 0>> \in Nodes /\ <<n[1], 0>> # n
  BY NodeFacts, SettingAssumption DEF Nodes, IsAwget
<1>3. Got(<<n[1], 0>>)' = Got(<<n[1], 0>>) /\ Got(Prev(n))' = Got(Prev(n))
  BY <1>1, <1>2, SameCounts DEF Calls
<1>4. \A b, q, r, x : Slice(b, q, r, x)' <=> Slice(b, q, r, x)
  BY DEF Slice, Answer
<1> QED
  BY <1>3, <1>4 DEF RightAt, Kept

(* ... and a step that sends nothing the connection to it. *)
LEMMA BackKept ==
    ASSUME IInv, NEW n \in Nodes, Touches(n), RightAt(n), pc[n] # "none",
           back'[n] = back[n], ~IsAwget(n) => Given(n)' = Given(n)
    PROVE  Link(n)'
<1>1. CASE IsAwget(n)
  BY <1>1 DEF Link, IsAwget
<1>2. CASE ~IsAwget(n)
  BY <1>2, StoneKeeps, LinkSame DEF RightAt, Touches
<1> QED
  BY <1>1, <1>2

(* The next part of the answer is the one that is received next. *)
TakesNext(n) ==
    LET m == Succ(n)
    IN /\ m \in Nodes /\ back[m] # <<>> /\ Head(back[m]) = Answer(n[1], Got(n) + 1)
       /\ Answer(n[1], Got(n) + 1) \in Answers /\ Got(n) \in Nat
       /\ back'[n] = back[n]
       /\ Got(n)' = Got(n) + 1 => Link(m)'
LEMMA PartTaken ==
    ASSUME IInv, Roles, NEW n \in Nodes, Touches(n), Right(n[1]), Sound(n[1]),
           pc[n] \in {"reply", "relay"}, TakeBack(n),
           back[Succ(n)] # <<>> \/ Succ(n) \in srvShut
    PROVE  TakesNext(n)
<1> DEFINE m == Succ(n)
           q == n[1]
<1>1. m \in Nodes /\ pc[m] # "none" /\ m[1] = q /\ ~IsAwget(m) /\ Prev(m) = n /\ m # n
      /\ pc[n] # "none" /\ q \in Requests
  BY NodeFacts DEF IInv, Phase, Calling, Succ
<1>2. back[m] # <<>>
  BY NothingCutOff
<1>3. Slice(back[m], q, Got(n), Given(m))
  BY <1>1, AtNode DEF RightAt, Link
<1>4. DOMAIN back = Nodes /\ TypeOK
  BY DEF IInv, TypeOK
<1>5. back'[m] = Tail(back[m]) /\ back'[n] = back[n]
  BY <1>1, <1>2, <1>4 DEF TakeBack
<1>6. Got(n) \in Nat /\ Answer(q, Got(n) + 1) \in Answers
  BY <1>1, <1>3, <1>4, AnswerIs DEF Slice
<1> HIDE DEF m, q
<1>7. Head(back[m]) = Answer(q, Got(n) + 1) /\ Slice(Tail(back[m]), q, Got(n) + 1, Given(m))
  BY <1>2, <1>3, SliceTakes
<1>8. Given(m)' = Given(m)
  BY <1>1, SameCounts DEF Touches, Calls
<1>9. \A b, c, r, x : Slice(b, c, r, x)' <=> Slice(b, c, r, x)
  BY DEF Slice, Answer, Touches
<1>10. ASSUME Got(n)' = Got(n) + 1 PROVE Link(m)'
  <2>1. PICK b, g, v : b = Tail(back[m]) /\ g = Got(n) + 1 /\ v = Given(m)
    OBVIOUS
  <2>2. Slice(b, q, g, v)'
    BY <1>7, <1>9, <2>1
  <2>3. back'[m] = b /\ Got(n)' = g /\ Given(m)' = v
    BY <1>5, <1>8, <1>10, <2>1
  <2> QED
    BY <1>1, <2>2, <2>3 DEF Link
<1> QED
  BY <1>1, <1>2, <1>5, <1>6, <1>7, <1>10 DEF TakesNext, m, q
-----------------------------------------------------------------------------
(* A node receives the size, and then the parts. *)
LEMMA ReplyTaken ==
    ASSUME IInv, Roles, NEW n \in Nodes, \A q \in Requests : Right(q), RecvReply(n)
    PROVE  \A q \in Requests : Right(q)'
<1> DEFINE m == Succ(n)
           q == n[1]
           N == setting.size[q]
<1>1. /\ pc \in [Nodes -> PC] /\ DOMAIN todo = Nodes /\ DOMAIN left = Nodes /\ DOMAIN back = Nodes
      /\ n[1] \in Requests /\ TypeOK /\ N \in Nat /\ m # n
  BY NodeFacts, SizeIsNat DEF IInv, TypeOK
<1>2. /\ pc[n] = "reply" /\ TakeBack(n) /\ UNCHANGED <<setting, saved>>
      /\ \E f \in Replies(n) : left' = [left EXCEPT ![n] = f]
      /\ \A o \in Nodes : o # n => pc'[o] = pc[o] /\ todo'[o] = todo[o]
  BY <1>1 DEF RecvReply, End
<1>3. Touches(n)
  BY <1>1, <1>2 DEF Touches, TakeBack, Ended
<1>4. ASSUME Sound(q), Sound(q)' PROVE RightAt(n)'
  <2>1. back[m] # <<>> \/ m \in srvShut
    BY <1>2 DEF Replies
  <2>2. TakesNext(n) /\ Right(q) /\ RightAt(n)
    BY <1>1, <1>2, <1>3, <1>4, <2>1, PartTaken, AtNode
  <2>3. Got(n) = 0 /\ Given(n) = 0
    BY <1>2 DEF Got, Given
  <2>4. Replies(n) = {N}
    <3>1. Head(back[m]) = Answer(q, Got(n) + 1) /\ back[m] # <<>>
      BY <2>2 DEF TakesNext
    <3>2. Answer(q, Got(n) + 1) = N
      BY <2>3 DEF Answer
    <3>3. Replies(n) = {Head(back[m])}
      BY <3>1 DEF Replies
    <3> QED
      BY <3>1, <3>2, <3>3, Zenon
  <2>5. /\ left'[n] = N
        /\ IsAwget(n) => pc'[n] = IF N = 0 THEN "received" ELSE "relay"
        /\ ~IsAwget(n) => pc'[n] = "forward" /\ todo'[n] = <<N>>
    BY <1>1, <2>4 DEF RecvReply, End
  <2>6. Size(n)' = N /\ Size(n) = N
    BY <1>2 DEF Size
  <2>7. Got(n)' = 1 /\ (~IsAwget(n) => Given(n)' = 0)
    BY <1>1, <2>5, <2>6 DEF Got, Given
  <2>8. Streaming(n)'
    <3>1. CASE IsAwget(n)
      BY <1>1, <2>5, <2>6, <3>1 DEF Streaming
    <3>2. CASE ~IsAwget(n)
      <4>1. Answer(q, 0 + 1) = N /\ N \in Answers
        BY <1>1 DEF Answer, Answers
      <4>2. Slice(<<N>>, q, 0, 0 + 1)
        BY <4>1, SliceOne
      <4> HIDE DEF N
      <4>3. PICK v : v = <<N>>
        OBVIOUS
      <4>4. Slice(v, q, 0, 1)'
        BY <1>2, <4>2, <4>3 DEF Slice, Answer
      <4>5. Size(n)' - left'[n] = 0 /\ Size(n)' + 1 - left'[n] = 1 /\ left'[n] \in 0 .. Size(n)'
        BY <1>1, <2>5, <2>6
      <4>6. todo'[n] = v /\ pc'[n] = "forward"
        BY <2>5, <3>2, <4>3
      <4> QED
        BY <4>4, <4>5, <4>6 DEF Streaming
    <3> QED
      BY <3>1, <3>2
  <2>9. Link(n)'
    BY <1>2, <1>3, <2>2, <2>3, <2>7, BackKept DEF TakesNext
  <2>10. Link(m)'
    BY <2>2, <2>3, <2>7 DEF TakesNext
  <2>11. Kept(q)'
    <3>1. CASE IsAwget(n)
      <4>1. n = <<q, 0>>
        BY <3>1, NodeFacts DEF IsAwget
      <4>2. saved[q] = <<>>
        BY <2>2, <2>3, <4>1 DEF RightAt, Kept
      <4>3. Slice(<<>>, q, 1, 1)'
        BY DEF Slice
      <4> QED
        BY <1>2, <2>7, <4>1, <4>2, <4>3 DEF Kept
    <3>2. CASE ~IsAwget(n)
      BY <1>2, <1>3, <2>2, <3>2, StoneKeeps
    <3> QED
      BY <3>1, <3>2
  <2> QED
    BY <2>8, <2>9, <2>10, <2>11 DEF RightAt
<1> QED
  BY <1>3, <1>4, RightKeeps

LEMMA DataTaken ==
    ASSUME IInv, Roles, DOMAIN saved = Requests, NEW n \in Nodes, \A q \in Requests : Right(q),
           RecvData(n)
    PROVE  \A q \in Requests : Right(q)'
<1> DEFINE m == Succ(n)
           q == n[1]
           N == setting.size[q]
           l == left[n]
           v == Head(back[m])
<1>1. /\ pc \in [Nodes -> PC] /\ DOMAIN todo = Nodes /\ DOMAIN left = Nodes /\ DOMAIN back = Nodes
      /\ n[1] \in Requests /\ TypeOK /\ N \in Nat /\ m # n
  BY NodeFacts, SizeIsNat DEF IInv, TypeOK
<1>2. /\ pc[n] = "relay" /\ back[m] # <<>> /\ TakeBack(n) /\ setting' = setting
      /\ left' = [left EXCEPT ![n] = l - 1]
      /\ IsAwget(n) => /\ saved' = [saved EXCEPT ![q] = Append(saved[q], v)]
                       /\ pc'[n] = IF l = 1 THEN "received" ELSE "relay"
      /\ ~IsAwget(n) => /\ saved' = saved /\ todo'[n] = <<v>> /\ pc'[n] = "forward"
      /\ \A o \in Nodes : o # n => pc'[o] = pc[o] /\ todo'[o] = todo[o]
  BY <1>1 DEF RecvData, End
<1>3. Touches(n)
  BY <1>1, <1>2 DEF Touches, TakeBack, Ended
<1>4. ASSUME Sound(q), Sound(q)' PROVE RightAt(n)'
  <2>1. TakesNext(n) /\ Right(q) /\ RightAt(n)
    BY <1>1, <1>2, <1>3, <1>4, PartTaken, AtNode
  <2>2. Size(n)' = N /\ Size(n) = N
    BY <1>2 DEF Size
  <2>3. l \in 1 .. N /\ left'[n] = l - 1
    BY <1>1, <1>2, <2>1, <2>2 DEF RightAt, Streaming
  <2>4. Got(n) = N + 1 - l /\ Given(n) = N + 1 - l
    BY <1>2, <2>2 DEF Got, Given
  <2>5. v = Answer(q, (N + 1 - l) + 1) /\ v \in Answers
    BY <2>1, <2>4 DEF TakesNext
  <2> HIDE DEF m, N, l, v
  <2>6. pc'[n] \in {"relay", "forward"} => Got(n)' = N + 1 - (l - 1)
    BY <2>2, <2>3 DEF Got
  <2>7. pc'[n] = "received" => l = 1 /\ Got(n)' = N + 1
    BY <1>2, <2>2 DEF Got
  <2>8. Got(n)' = (N + 1 - l) + 1
    BY <1>1, <1>2, <2>3, <2>6, <2>7
  <2>9. ~IsAwget(n) => Given(n)' = N + 1 - l
    <3>1. ~IsAwget(n) => Given(n)' = N - (l - 1)
      BY <1>2, <2>2, <2>3 DEF Given
    <3> QED
      BY <1>1, <2>3, <3>1
  <2>10. \A b, c, r, x : Slice(b, c, r, x)' <=> Slice(b, c, r, x)
    BY <1>2 DEF Slice, Answer
  <2>11. Streaming(n)'
    <3>1. CASE IsAwget(n)
      BY <1>1, <1>2, <2>2, <2>3, <3>1 DEF Streaming
    <3>2. CASE ~IsAwget(n)
      <4>1. PICK e, r : e = v /\ r = N + 1 - l
        OBVIOUS
      <4>2. r \in Nat /\ e \in Answers /\ e = Answer(q, r + 1)
        BY <1>1, <2>3, <2>5, <4>1
      <4>3. Slice(<<e>>, q, r, r + 1)
        BY <4>2, SliceOne
      <4>4. PICK w, z : w = <<e>> /\ z = r + 1
        OBVIOUS
      <4>5. Slice(w, q, r, z)'
        BY <2>10, <4>3, <4>4
      <4>6. Size(n)' - left'[n] = r /\ Size(n)' + 1 - left'[n] = z /\ left'[n] \in 0 .. Size(n)'
        BY <1>1, <2>2, <2>3, <4>1, <4>4
      <4>7. todo'[n] = w /\ pc'[n] = "forward"
        BY <1>2, <3>2, <4>1, <4>4
      <4> QED
        BY <4>5, <4>6, <4>7 DEF Streaming
    <3> QED
      BY <3>1, <3>2
  <2>12. Link(n)'
    BY <1>2, <1>3, <2>1, <2>4, <2>9, BackKept DEF TakesNext
  <2>13. Link(m)'
    BY <2>1, <2>4, <2>8 DEF TakesNext, m
  <2>14. Kept(q)'
    <3>1. CASE IsAwget(n)
      <4>1. n = <<q, 0>>
        BY <3>1, NodeFacts DEF IsAwget
      <4>2. PICK w, r, e : w = saved[q] /\ r = N + 1 - l /\ e = v
        OBVIOUS
      <4>3. r \in Nat \ {0} /\ e \in Answers /\ e = Answer(q, r + 1)
        BY <1>1, <2>3, <2>5, <4>2
      <4>4. Slice(w, q, 1, r)
        BY <2>1, <2>4, <4>1, <4>2, <4>3 DEF RightAt, Kept
      <4>5. Slice(Append(w, e), q, 1, r + 1)
        BY <4>3, <4>4, SliceGrows
      <4>6. PICK y, z : y = Append(w, e) /\ z = r + 1
        OBVIOUS
      <4>7. Slice(y, q, 1, z)' /\ z # 0
        BY <2>10, <4>3, <4>5, <4>6
      <4>8. saved'[q] = y /\ Got(n)' = z
        BY <1>1, <1>2, <2>8, <3>1, <4>2, <4>6
      <4> QED
        BY <4>1, <4>7, <4>8 DEF Kept
    <3>2. CASE ~IsAwget(n)
      BY <1>2, <1>3, <2>1, <3>2, StoneKeeps
    <3> QED
      BY <3>1, <3>2
  <2> QED
    BY <2>11, <2>12, <2>13, <2>14 DEF RightAt, m
<1> QED
  BY <1>3, <1>4, RightKeeps
-----------------------------------------------------------------------------
(* A stone sends the next part of its answer. *)
LEMMA AnswerSent ==
    ASSUME IInv, Roles, NEW n \in Nodes, \A q \in Requests : Right(q), SendBack(n)
    PROVE  \A q \in Requests : Right(q)'
<1> DEFINE m == Succ(n)
           q == n[1]
           N == setting.size[q]
           l == left[n]
           t == todo[n]
           b == back[n]
<1>1. /\ pc \in [Nodes -> PC] /\ DOMAIN todo = Nodes /\ DOMAIN left = Nodes /\ DOMAIN back = Nodes
      /\ n[1] \in Requests /\ TypeOK /\ N \in Nat /\ m # n
  BY NodeFacts, SizeIsNat DEF IInv, TypeOK
<1>2. /\ pc[n] \in {"forward", "serve"} /\ t # <<>> /\ UNCHANGED <<setting, left, saved>>
      /\ n \notin reqShut => back' = [back EXCEPT ![n] = Append(b, Head(t))]
      /\ todo' = [todo EXCEPT ![n] = Tail(t)]
      /\ pc' = [pc EXCEPT ![n] = IF pc[n] = "serve" THEN "serve"
                                 ELSE IF l = 0 THEN "close" ELSE "relay"]
      /\ \A o \in Nodes : o # n => back'[o] = back[o]
  BY <1>1 DEF SendBack
<1>3. Touches(n)
  BY <1>1, <1>2 DEF Touches, Ended
<1>4. ASSUME Sound(q), Sound(q)' PROVE RightAt(n)'
  <2>1. ~IsAwget(n) /\ n \notin reqShut /\ RightAt(n)
    BY <1>1, <1>2, <1>4, Listening, AtNode
  <2>2. /\ back'[n] = Append(b, Head(t)) /\ todo'[n] = Tail(t) /\ left'[n] = l
        /\ pc'[n] = IF pc[n] = "serve" THEN "serve" ELSE IF l = 0 THEN "close" ELSE "relay"
    BY <1>1, <1>2, <2>1
  <2>3. Size(n)' = N /\ Size(n) = N
    BY <1>2 DEF Size
  <2>4. \A c, o, r, x : Slice(c, o, r, x)' <=> Slice(c, o, r, x)
    BY <1>2 DEF Slice, Answer
  <2> HIDE DEF m, N, l, t, b
  <2>5. /\ pc[n] = "forward" => /\ l \in 0 .. N /\ Given(n) = N - l
                                /\ Slice(t, q, N - l, N + 1 - l)
        /\ pc[n] = "serve" => /\ Given(n) = N + 1 - Len(t)
                              /\ Slice(t, q, N + 1 - Len(t), N + 1)
    BY <2>1, <2>3 DEF RightAt, Streaming, Given, l, t
  <2>6. PICK g, x : g = Given(n) /\ x = IF pc[n] = "serve" THEN N + 1 ELSE N + 1 - l
    OBVIOUS
  <2>7. Slice(t, q, g, x)
    BY <1>2, <2>5, <2>6
  <2>8. /\ Head(t) = Answer(q, g + 1) /\ Slice(Tail(t), q, g + 1, x) /\ Len(Tail(t)) = Len(t) - 1
        /\ g \in Nat /\ Len(t) \in Nat
    <3>1. Head(t) = Answer(q, g + 1) /\ Slice(Tail(t), q, g + 1, x) /\ Len(Tail(t)) = Len(t) - 1
      BY <1>2, <2>7, SliceTakes
    <3>2. g \in Nat /\ t \in Seq(Answers)
      BY <2>7 DEF Slice
    <3> QED
      BY <3>1, <3>2
  <2>9. PICK h, w : h = Head(t) /\ w = Tail(t)
    OBVIOUS
  <2>10. h \in Answers
    BY <1>1, <2>8, <2>9, AnswerIs
  <2>17. pc[n] = "serve" => Slice(w, q, g + 1, N + 1) /\ g + 1 = N + 1 - Len(w)
    <3> SUFFICES ASSUME pc[n] = "serve"
                 PROVE  Slice(w, q, g + 1, N + 1) /\ g + 1 = N + 1 - Len(w)
      OBVIOUS
    <3>1. PICK k, j : k = Len(t) /\ j = Len(w)
      OBVIOUS
    <3>2. g = N + 1 - k /\ x = N + 1 /\ j = k - 1 /\ k \in Nat
      BY <2>5, <2>6, <2>8, <2>9, <3>1
    <3>3. g + 1 = N + 1 - j
      BY <1>1, <3>2
    <3>4. Slice(w, q, g + 1, x)
      BY <2>8, <2>9
    <3> QED
      BY <3>1, <3>2, <3>3, <3>4
  <2>11. Given(n)' = g + 1
    <3>1. CASE pc[n] = "serve"
      <4>1. g + 1 = N + 1 - Len(w)
        BY <2>17, <3>1
      <4>2. Given(n)' = N + 1 - Len(w)
        BY <2>2, <2>3, <2>9, <3>1 DEF Given
      <4> QED
        BY <4>1, <4>2
    <3>2. CASE pc[n] = "forward"
      <4>1. g = N - l /\ l \in 0 .. N
        BY <2>5, <2>6, <3>2
      <4>2. Given(n)' = IF l = 0 THEN N + 1 ELSE N + 1 - l
        BY <2>2, <2>3, <3>2 DEF Given
      <4> QED
        BY <1>1, <4>1, <4>2
    <3> QED
      BY <1>2, <3>1, <3>2
  <2>12. Streaming(n)'
    <3>1. CASE pc[n] = "serve"
      <4>1. Slice(w, q, g + 1, N + 1) /\ g + 1 = N + 1 - Len(w)
        BY <2>17, <3>1
      <4>2. PICK r, z : r = N + 1 - Len(w) /\ z = N + 1
        OBVIOUS
      <4>3. Slice(w, q, r, z)'
        BY <2>4, <4>1, <4>2
      <4>4. todo'[n] = w /\ pc'[n] = "serve" /\ Size(n)' + 1 - Len(todo'[n]) = r
            /\ Size(n)' + 1 = z
        BY <2>2, <2>3, <2>9, <3>1, <4>2
      <4> QED
        BY <4>3, <4>4 DEF Streaming
    <3>2. CASE pc[n] = "forward"
      BY <1>1, <2>2, <2>3, <2>5, <3>2 DEF Streaming
    <3> QED
      BY <1>2, <3>1, <3>2
  <2>13. Got(n)' = Got(n)
    <3>1. CASE pc[n] = "serve"
      BY <2>2, <3>1 DEF Got
    <3>2. CASE pc[n] = "forward"
      <4>1. Got(n) = N + 1 - l /\ l \in 0 .. N
        BY <2>3, <2>5, <3>2 DEF Got, l
      <4>2. Got(n)' = IF l = 0 THEN N + 1 ELSE N + 1 - l
        BY <2>2, <2>3, <3>2 DEF Got
      <4> QED
        BY <1>1, <4>1, <4>2
    <3> QED
      BY <1>2, <3>1, <3>2
  <2>14. Link(n)'
    <3>1. PICK c, r : c = b /\ r = Got(Prev(n))
      OBVIOUS
    <3>2. Slice(c, q, r, g)
      BY <1>2, <2>1, <2>6, <3>1 DEF RightAt, Link, b
    <3>3. Slice(Append(c, h), q, r, g + 1)
      BY <2>8, <2>9, <2>10, <3>2, SliceGrows
    <3>4. PICK y, z : y = Append(c, h) /\ z = g + 1
      OBVIOUS
    <3>5. Slice(y, q, r, z)'
      BY <2>4, <3>3, <3>4
    <3>6. back'[n] = y /\ Got(Prev(n))' = r /\ Given(n)' = z
      BY <1>3, <2>1, <2>2, <2>9, <2>11, <3>1, <3>4, StoneKeeps
    <3> QED
      BY <3>5, <3>6 DEF Link
  <2>15. ASSUME m \in Nodes PROVE Link(m)'
    <3>1. Link(m) /\ Prev(m) = n /\ m # n
      BY <2>1, <2>15, NodeFacts DEF RightAt, m
    <3>2. Given(m)' = Given(m) /\ pc'[m] = pc[m] /\ back'[m] = back[m]
      BY <1>2, <1>3, <2>15, <3>1, SameCounts DEF Touches, Calls
    <3> QED
      BY <1>2, <2>13, <2>15, <3>1, <3>2, LinkSame
  <2>16. Kept(q)'
    BY <1>2, <1>3, <2>1, StoneKeeps
  <2> QED
    BY <2>12, <2>14, <2>15, <2>16 DEF RightAt, m
<1> QED
  BY <1>3, <1>4, RightKeeps

(* wget's file, and the end *)
LEMMA ServeSteps ==
    ASSUME IInv, Roles, OpenRight, NEW n \in Nodes, \A q \in Requests : Right(q),
           Open(n) \/ Clean(n) \/ Close(n)
    PROVE  \A q \in Requests : Right(q)'
<1> DEFINE m == Succ(n)
           q == n[1]
           N == setting.size[q]
<1>1. /\ pc \in [Nodes -> PC] /\ DOMAIN todo = Nodes /\ n[1] \in Requests /\ TypeOK /\ N \in Nat
      /\ m # n
  BY NodeFacts, SizeIsNat DEF IInv, TypeOK
<1>2. /\ pc[n] \in {"open", "serve", "close"} /\ UNCHANGED <<setting, left, back, saved>>
      /\ \A o \in Nodes : o # n => pc'[o] = pc[o] /\ todo'[o] = todo[o]
  BY <1>1 DEF Open, Clean, Close, End, links
<1>3. Touches(n) /\ ~IsAwget(n)
  BY <1>1, <1>2 DEF Touches, Ended, Roles, Role, AwgetPC
<1>4. ASSUME Sound(q), Sound(q)' PROVE RightAt(n)'
  <2>1. RightAt(n)
    BY <1>1, <1>4, AtNode
  <2>2. Size(n)' = N /\ Size(n) = N
    BY <1>2 DEF Size
  <2>3. Given(n)' = Given(n) /\ Streaming(n)' /\ (pc[n] = "close" => Got(n)' = Got(n))
    <3>1. CASE Open(n)
      <4>1. pc[n] = "open" /\ pc'[n] = "serve" /\ todo'[n] = <<Len(File(q))>> \o File(q)
        BY <1>1, <3>1 DEF Open, OpenRight
      <4>2. PICK w, z : w = todo'[n] /\ z = N + 1
        OBVIOUS
      <4>3. Slice(w, q, 0, z)
        BY <1>1, <4>1, <4>2, SliceFile
      <4>4. Slice(w, q, 0, z)' /\ z - Len(w) = 0
        <5>1. Slice(w, q, 0, z)'
          BY <1>2, <4>3 DEF Slice, Answer
        <5>2. w \in Seq(Answers) /\ 0 + Len(w) = z
          BY <4>3 DEF Slice
        <5> QED
          BY <5>1, <5>2
      <4>5. Given(n) = 0 /\ Given(n)' = 0
        BY <1>1, <2>2, <4>1, <4>2, <4>4 DEF Given
      <4>6. Size(n)' + 1 - Len(todo'[n]) = 0 /\ Size(n)' + 1 = z
        <5>1. PICK k, y : k = Len(w) /\ y = Size(n)'
          OBVIOUS
        <5>2. y + 1 = z /\ z - k = 0 /\ k = N + 1 /\ y = N
          <6>1. w \in Seq(Answers) /\ 0 + Len(w) = z
            BY <4>3 DEF Slice
          <6> QED
            BY <1>1, <2>2, <4>2, <4>4, <5>1, <6>1
        <5>3. y + 1 - k = 0
          BY <1>1, <5>2
        <5> QED
          BY <4>2, <5>1, <5>2, <5>3, Zenon
      <4>7. Streaming(n)'
        BY <4>1, <4>2, <4>4, <4>6 DEF Streaming
      <4> QED
        BY <4>1, <4>5, <4>7
    <3>2. CASE Clean(n)
      <4>1. pc[n] = "serve" /\ pc'[n] = "close" /\ todo[n] = <<>>
        BY <1>1, <3>2 DEF Clean
      <4>2. N + 1 - Len(<<>>) = N + 1
        BY <1>1
      <4> QED
        BY <1>1, <2>2, <4>1, <4>2 DEF Given, Streaming
    <3>3. CASE Close(n)
      BY <1>1, <2>2, <3>3 DEF Close, End, Given, Got, Streaming
    <3> QED
      BY <3>1, <3>2, <3>3
  <2>4. Link(n)'
    BY <1>2, <1>3, <2>1, <2>3, BackKept
  <2>5. ASSUME m \in Nodes PROVE Link(m)'
    <3>1. Link(m) /\ Prev(m) = n /\ pc'[m] = pc[m]
      BY <1>1, <1>2, <2>1, <2>5, NodeFacts DEF RightAt
    <3>2. CASE pc[n] = "close"
      <4>1. Given(m)' = Given(m)
        BY <1>1, <1>3, <2>5, <3>1, SameCounts DEF Touches, Calls
      <4> QED
        BY <1>2, <2>3, <2>5, <3>1, <3>2, <4>1, LinkSame
    <3>3. CASE pc[n] # "close"
      BY <1>2, <2>5, <3>1, <3>3 DEF Roles, Role, Link
    <3> QED
      BY <3>2, <3>3
  <2>6. Kept(q)'
    BY <1>2, <1>3, <2>1, StoneKeeps
  <2> QED
    BY <2>3, <2>4, <2>5, <2>6 DEF RightAt
<1> QED
  BY <1>3, <1>4, RightKeeps
-----------------------------------------------------------------------------
LEMMA DInvStays ==
    ASSUME Roles, FInv, UNCHANGED vars
    PROVE  Roles' /\ FInv'
<1> USE DEF vars, links, shut, fds, reading
<1>1. Roles'
  BY DEF Roles, Role
<1>2. \A m \in Nodes : FdKeeps(m)
  BY DEF FdKeeps, Holds, Used
<1> QED
  BY <1>1, <1>2, FdQuiet

(* Two threads of a stone that run hold different descriptors, whichever   *)
(* fail, leave a socket open (next_ss(), last_ss()) or have ended: what    *)
(* one closes or writes to is never another's, and file_<s>.tmp names      *)
(* nobody else's file in the process.                                      *)
DescriptorsApart == \A n, m \in Nodes : Apart(n, m)
THEOREM DescriptorsCorrect == Spec => []DescriptorsApart
<1>1. Init => IInv /\ Roles /\ FInv
  BY InitIInv, InitRoles, InitFInv
<1>2. ASSUME IInv, Roles, FInv, [Next]_vars PROVE IInv' /\ Roles' /\ FInv'
  <2>1. IInv'
    BY <1>2, NextIInv
  <2>2. ASSUME NEW n \in Nodes, Step(n) \/ Crash(n) PROVE Roles' /\ FInv'
    BY <1>2, <2>2, RolesStep, FdStep
  <2> QED
    BY <1>2, <2>1, <2>2, DInvStays DEF Next
<1>3. FInv => DescriptorsApart
  BY DEF FInv, DescriptorsApart
<1> QED
  BY <1>1, <1>2, <1>3, PTL DEF Spec
-----------------------------------------------------------------------------
LEMMA InitLInv == Init => LInv
<1> SUFFICES ASSUME Init PROVE LInv
  OBVIOUS
<1>1. OpenRight /\ DOMAIN saved = Requests
  BY DEF Init, OpenRight, Fds
<1>2. ASSUME NEW q \in Requests PROVE Right(q)
  <2>1. \A n \in Nodes : pc[n] \in {"dial", "none"} /\ back[n] = <<>>
    BY DEF Init
  <2>2. \A n \in Nodes : Got(n) = 0 /\ Given(n) = 0 /\ Streaming(n)
    BY <2>1 DEF Got, Given, Streaming
  <2>3. ASSUME NEW n \in Nodes PROVE Link(n)
    <3>1. ~IsAwget(n) => pc[n] = "none"
      BY DEF Init
    <3> QED
      BY <3>1 DEF Link
  <2>4. <<q, 0>> \in Nodes
    BY SettingAssumption DEF Nodes
  <2>5. Kept(q)
    BY <2>2, <2>4 DEF Kept, Init
  <2> QED
    BY <2>2, <2>3, <2>5 DEF Right
<1> QED
  BY <1>1, <1>2, InitIInv, InitRoles, InitFInv DEF LInv

LEMMA NextLInv == DirsApart => (LInv /\ [Next]_vars => LInv')
<1> SUFFICES ASSUME DirsApart, LInv, [Next]_vars PROVE LInv'
  OBVIOUS
<1> USE DEF LInv
<1>1. IInv'
  BY NextIInv
<1>2. CASE UNCHANGED vars
  <2> USE <1>2 DEF vars, links, shut, fds, reading
  <2>1. Roles' /\ FInv'
    BY DInvStays
  <2>3. OpenRight'
    BY DEF OpenRight, Name, File
  <2>4. \A b, q, r, x : Slice(b, q, r, x)' <=> Slice(b, q, r, x)
    BY DEF Slice, Answer
  <2>5. \A m : Got(m)' = Got(m) /\ Given(m)' = Given(m) /\ (Streaming(m) => Streaming(m)')
    BY SameCounts
  <2>6. ASSUME NEW q \in Requests PROVE Right(q)'
    <3>1. Sound(q)' => Sound(q)
      BY DEF Sound
    <3>2. Kept(q) => Kept(q)'
      BY <2>4, <2>5 DEF Kept
    <3>3. ASSUME NEW m \in Nodes, Link(m) PROVE Link(m)'
      BY <2>5, <3>3, LinkSame
    <3> QED
      BY <2>5, <3>1, <3>2, <3>3 DEF Right
  <2> QED
    BY <1>1, <2>1, <2>3, <2>6
<1>3. ASSUME NEW n \in Nodes, Step(n) \/ Crash(n) PROVE LInv'
  <2>1. Roles' /\ FInv' /\ OpenRight'
    BY <1>3, RolesStep, FdStep, OpenStep
  <2>2. \A q \in Requests : Right(q)'
    <3>1. CASE \/ Connect(n) \/ SendList(n) \/ Accept(n) \/ RecvHeader(n) \/ RecvElement(n)
               \/ Fetch(n)
      BY <3>1, IdleSteps
    <3>2. CASE \/ ConnectJunk(n) \/ SigPipe(n) \/ Crash(n)
               \/ Refused(n) \/ LookupFails(n) \/ SendFails(n) \/ RecvReset(n)
               \/ CannotServe(n) \/ SpinHeader(n) \/ SpinRelay(n)
      BY <3>2, FailedSteps
    <3>3. CASE RecvReply(n) \/ RecvData(n) \/ SendBack(n)
      BY <3>3, ReplyTaken, DataTaken, AnswerSent
    <3>4. CASE Open(n) \/ Clean(n) \/ Close(n)
      BY <3>4, ServeSteps
    <3> QED
      BY <1>3, <3>1, <3>2, <3>3, <3>4 DEF Step
  <2>3. DOMAIN saved' = DOMAIN saved
    BY <1>3 DEF Step, Connect, Refused, LookupFails, SendFails, ConnectJunk, SendList, SigPipe, Accept, RecvHeader,
         SpinHeader, RecvElement, RecvReset, RecvReply, RecvData, SpinRelay, SendBack, Fetch,
         Open, CannotServe, Clean, Close, Crash, Kill
  <2> QED
    BY <1>1, <2>1, <2>2, <2>3
<1> QED
  BY <1>2, <1>3 DEF Next

LEMMA LInvGivesFile == LInv => FileIsTheOneAskedFor
<1> SUFFICES ASSUME LInv, NEW q \in Requests, pc[<<q, 0>>] = "received",
                    \A n \in RouteOf(q) : pc[n] \notin {"failed", "killed"}
             PROVE  saved[q] = File(q)
  BY DEF FileIsTheOneAskedFor
<1> USE DEF LInv
<1>1. \A n \in Nodes : n[1] = q => n = <<q, 0>> \/ n \in RouteOf(q)
  BY SettingAssumption DEF Nodes, RouteOf
<1>2. Sound(q)
  BY <1>1 DEF Sound, Failed
<1>3. setting.size[q] \in Nat
  BY SizeIsNat DEF IInv
<1>4. Got(<<q, 0>>) = setting.size[q] + 1
  BY DEF Got, Size
<1>5. Slice(saved[q], q, 1, setting.size[q] + 1)
  BY <1>2, <1>3, <1>4 DEF Right, Kept
<1>6. PICK N, w : N = setting.size[q] /\ w = saved[q]
  OBVIOUS
<1>7. /\ N \in Nat /\ w \in Seq(Answers) /\ 1 + Len(w) = N + 1
      /\ \A i \in 1 .. Len(w) : w[i] = Answer(q, 1 + i)
  BY <1>3, <1>5, <1>6 DEF Slice
<1>8. Len(w) = N /\ w = [i \in 1 .. N |-> w[i]]
  BY <1>7
<1>9. \A i \in 1 .. N : w[i] = <<q, i>>
  <2> SUFFICES ASSUME NEW i \in 1 .. N PROVE w[i] = <<q, i>>
    OBVIOUS
  <2>1. w[i] = Answer(q, 1 + i) /\ 1 + i # 1 /\ (1 + i) - 1 = i
    BY <1>7, <1>8
  <2> QED
    BY <2>1 DEF Answer
<1>10. w = [i \in 1 .. N |-> <<q, i>>]
  BY <1>8, <1>9
<1> QED
  BY <1>6, <1>10 DEF File

(* While no process of its route fails, an awget that says it received the *)
(* file has every part of the file it asked for, in order, if every stone  *)
(* has a working directory of its own, in which file_<descriptor>.tmp is   *)
(* its own.                                                                *)
THEOREM FileCorrect == DirsApart => (Spec => []FileIsTheOneAskedFor)
<1> SUFFICES ASSUME DirsApart PROVE Spec => []FileIsTheOneAskedFor
  OBVIOUS
<1>1. LInv /\ [Next]_vars => LInv'
  BY NextLInv
<1> QED
  BY <1>1, InitLInv, LInvGivesFile, PTL DEF Spec
=============================================================================
