--------------------------- MODULE ResolverProofs ---------------------------
(***************************************************************************)
(* What attempt() keeps true for any servers, any root list and any        *)
(* replies: its stack is the path of the recursion, and the path follows   *)
(* delegations.                                                            *)
(***************************************************************************)
EXTENDS Resolver, SequenceTheorems, TLAPS

Frame == [servers : Seq(Servers), srvNum : Nat, packets : 0 .. 2]

Shape ==
    /\ reply \in [Servers -> Replies]
    /\ frames \in Seq(Frame) /\ Len(frames) > 0
    /\ stack \in Seq(Servers)
    /\ waiting \in BOOLEAN /\ misread \in BOOLEAN /\ outcome \in Outcomes

(* Every server on the stack was picked from the list of its activation. *)
Picked == \A i \in 1 .. Len(stack) : frames[i].srvNum \in 1 .. Len(frames[i].servers)

(* The lists of the activations are root servers and what referrals gave.  *)
Delegated ==
    ~misread =>
        /\ \A x \in Servers : In(x, frames[1].servers) => In(x, hostServers)
        /\ \A i \in 1 .. (Len(frames) - 1) :
              /\ reply[stack[i]].kind = "referral"
              /\ \A x \in Servers : In(x, frames[i + 1].servers) => In(x, reply[stack[i]].list)

Answered ==
    ~misread /\ outcome = "found" => waiting /\ reply[stack[Len(stack)]].kind = "answer"

IInv == Shape /\ StackIsThePath /\ Picked /\ Delegated /\ Answered
-----------------------------------------------------------------------------
LEMMA WithoutFacts ==
    ASSUME NEW S, NEW l \in Seq(S), NEW k \in 1 .. Len(l)
    PROVE  /\ Without(l, k) \in Seq(S)
           /\ \A i \in 1 .. Len(Without(l, k)) : In(Without(l, k)[i], l)
<1> DEFINE a == SubSeq(l, 1, k - 1)
           b == SubSeq(l, k + 1, Len(l))
<1>1. /\ a \in Seq(S) /\ Len(a) = k - 1
      /\ \A i \in 1 .. (k - 1) : a[i] = l[i]
  <2>1. \A i \in 1 .. (k - 1) : l[i] \in S
    OBVIOUS
  <2>2. QED
    BY <2>1, SubSeqProperties
<1>2. /\ b \in Seq(S) /\ Len(b) = Len(l) - k
      /\ \A i \in 1 .. (Len(l) - k) : b[i] = l[k + i]
  <2>1. \A i \in (k + 1) .. Len(l) : l[i] \in S
    OBVIOUS
  <2>2. /\ b \in Seq(S)
        /\ Len(b) = IF k + 1 <= Len(l) THEN Len(l) - (k + 1) + 1 ELSE 0
        /\ \A i \in 1 .. (Len(l) - (k + 1) + 1) : b[i] = l[(k + 1) + i - 1]
    BY <2>1, SubSeqProperties
  <2>3. QED
    BY <2>2
<1> HIDE DEF a, b
<1>3. /\ a \o b \in Seq(S)
      /\ Len(a \o b) = Len(a) + Len(b)
      /\ \A i \in 1 .. Len(a) + Len(b) :
            (a \o b)[i] = IF i <= Len(a) THEN a[i] ELSE b[i - Len(a)]
  BY <1>1, <1>2, ConcatProperties
<1>4. ASSUME NEW i \in 1 .. Len(a \o b) PROVE \E j \in 1 .. Len(l) : l[j] = (a \o b)[i]
  <2>1. CASE i <= k - 1
    BY <1>1, <1>2, <1>3, <2>1
  <2>2. CASE i > k - 1
    <3>1. (a \o b)[i] = l[k + (i - (k - 1))]
      BY <1>1, <1>2, <1>3, <2>2
    <3>2. k + (i - (k - 1)) \in 1 .. Len(l)
      BY <1>1, <1>2, <1>3, <2>2
    <3>3. QED
      BY <3>1, <3>2
  <2>3. QED
    BY <2>1, <2>2, <1>3
<1>5. Without(l, k) = a \o b
  BY DEF Without, a, b
<1>6. QED
  BY <1>3, <1>4, <1>5 DEF In

LEMMA WaitingFacts ==
    ASSUME IInv, waiting
    PROVE  /\ Len(stack) = Len(frames)
           /\ Top.srvNum \in 1 .. Len(Top.servers)
           /\ Asked = stack[Len(stack)]
           /\ Asked \in Servers /\ reply[Asked] \in Replies
<1>1. Len(stack) = Len(frames) /\ Len(frames) \in Nat \ {0}
  BY DEF IInv, Shape, StackIsThePath, Depth
<1>2. Top.srvNum \in 1 .. Len(Top.servers) /\ stack[Len(frames)] = Asked
  BY <1>1 DEF IInv, StackIsThePath, Picked, Top, Depth, Asked
<1>3. stack[Len(stack)] \in Servers
  BY <1>1 DEF IInv, Shape
<1>4. QED
  BY <1>1, <1>2, <1>3 DEF IInv, Shape

LEMMA TopLosesOne ==
    ASSUME IInv, NEW k \in 1 .. Len(Top.servers),
           frames' = [frames EXCEPT ![Depth].servers = Without(@, k)]
    PROVE  /\ frames' \in Seq(Frame) /\ Len(frames') = Len(frames)
           /\ \A i \in 1 .. (Len(frames) - 1) : frames'[i] = frames[i]
           /\ \A x \in Servers : In(x, frames'[Len(frames)].servers)
                                    => In(x, frames[Len(frames)].servers)
<1> DEFINE d == Len(frames)
           l == Without(frames[d].servers, k)
           g == [frames[d] EXCEPT !.servers = l]
<1>1. d \in 1 .. Len(frames) /\ frames[d] \in Frame /\ frames \in Seq(Frame)
  BY DEF IInv, Shape
<1>2. frames[d].servers \in Seq(Servers) /\ k \in 1 .. Len(frames[d].servers)
  BY <1>1 DEF Frame, Top, Depth
<1>3. /\ l \in Seq(Servers)
      /\ \A i \in 1 .. Len(l) : In(l[i], frames[d].servers)
  BY <1>2, WithoutFacts
<1>4. frames' = [frames EXCEPT ![d] = g]
  BY DEF Depth
<1>5. g \in Frame /\ g.servers = l
  <2> HIDE DEF l
  <2>1. QED
    BY <1>1, <1>3 DEF Frame
<1> HIDE DEF d, l, g
<1>6. /\ frames' \in Seq(Frame) /\ Len(frames') = Len(frames)
      /\ \A j \in 1 .. Len(frames) : frames'[j] = IF j = d THEN g ELSE frames[j]
  <2>1. /\ [frames EXCEPT ![d] = g] \in Seq(Frame)
        /\ Len([frames EXCEPT ![d] = g]) = Len(frames)
        /\ \A j \in 1 .. Len(frames) :
              [frames EXCEPT ![d] = g][j] = IF j = d THEN g ELSE frames[j]
    BY <1>1, <1>5, ExceptSeq
  <2>2. QED
    BY <1>4, <2>1
<1>7. frames'[d].servers = l
  BY <1>1, <1>5, <1>6
<1>8. \A x \in Servers : In(x, l) => In(x, frames[d].servers)
  BY <1>3 DEF In
<1>9. \A i \in 1 .. (Len(frames) - 1) : frames'[i] = frames[i]
  BY <1>1, <1>6 DEF d
<1>10. QED
  BY <1>6, <1>7, <1>8, <1>9 DEF d

(* Common to Drop and NextServer: the list of the innermost activation     *)
(* loses a server, and the stack is what the activations above asked.      *)
LEMMA ServerDropped ==
    ASSUME IInv, outcome = "running",
           NEW k \in 1 .. Len(Top.servers),
           frames' = [frames EXCEPT ![Depth].servers = Without(@, k)],
           stack' \in Seq(Servers), Len(stack') = Len(frames) - 1,
           Len(stack) >= Len(frames) - 1,
           \A i \in 1 .. (Len(frames) - 1) : stack'[i] = stack[i],
           waiting' = FALSE, misread' \in BOOLEAN, misread => misread',
           reply' = reply, outcome' = outcome
    PROVE  IInv'
<1>1. /\ frames' \in Seq(Frame) /\ Len(frames') = Len(frames)
      /\ \A i \in 1 .. (Len(frames) - 1) : frames'[i] = frames[i]
      /\ \A x \in Servers : In(x, frames'[Len(frames)].servers)
                                => In(x, frames[Len(frames)].servers)
  BY TopLosesOne
<1>2. Len(frames) \in Nat \ {0} /\ Len(stack) \in Nat
  BY DEF IInv, Shape
<1>3. Shape'
  BY <1>1 DEF IInv, Shape
<1>0. ASSUME NEW i \in 1 .. Len(stack')
      PROVE  i \in 1 .. Len(stack) /\ stack'[i] = stack[i] /\ frames'[i] = frames[i]
  <2>1. i \in 1 .. (Len(frames) - 1)
    OBVIOUS
  <2>2. i \in 1 .. Len(stack)
    BY <1>2, <2>1
  <2>3. QED
    BY <1>1, <2>1, <2>2
<1>4. StackIsThePath'
  <2>1. \A i \in 1 .. Len(stack') : stack'[i] = frames'[i].servers[frames'[i].srvNum]
    BY <1>0 DEF IInv, StackIsThePath
  <2>2. \A i, j \in 1 .. Len(stack') : stack'[i] = stack'[j] => i = j
    BY <1>0 DEF IInv, StackIsThePath
  <2>3. QED
    BY <1>1, <2>1, <2>2 DEF StackIsThePath, Depth
<1>5. Picked'
  BY <1>0 DEF IInv, Picked
<1>6. Delegated'
  <2> SUFFICES ASSUME ~misread
               PROVE  /\ \A x \in Servers : In(x, frames'[1].servers) => In(x, hostServers)
                      /\ \A i \in 1 .. (Len(frames) - 1) :
                            /\ reply[stack[i]].kind = "referral"
                            /\ \A x \in Servers : In(x, frames'[i + 1].servers)
                                                    => In(x, reply[stack[i]].list)
    BY <1>1 DEF Delegated
  <2>1. \A i \in 1 .. Len(frames) : \A x \in Servers :
            In(x, frames'[i].servers) => In(x, frames[i].servers)
    <3>1. ASSUME NEW i \in 1 .. Len(frames)
          PROVE  i \in 1 .. (Len(frames) - 1) \/ i = Len(frames)
      BY <1>2
    <3>2. QED
      BY <1>1, <3>1, Zenon
  <2>2. /\ \A x \in Servers : In(x, frames[1].servers) => In(x, hostServers)
        /\ \A i \in 1 .. (Len(frames) - 1) :
              /\ reply[stack[i]].kind = "referral"
              /\ \A x \in Servers : In(x, frames[i + 1].servers)
                                        => In(x, reply[stack[i]].list)
    BY DEF IInv, Delegated
  <2>3. \A i \in 1 .. (Len(frames) - 1) : i + 1 \in 1 .. Len(frames)
    BY <1>2
  <2>4. 1 \in 1 .. Len(frames)
    BY <1>2
  <2>5. QED
    BY <2>1, <2>2, <2>3, <2>4, Zenon
<1>7. Answered'
  BY DEF Answered
<1>8. QED
  BY <1>3, <1>4, <1>5, <1>6, <1>7 DEF IInv

LEMMA NextServerStep ==
    ASSUME IInv, outcome = "running", waiting, NextServer,
           misread' \in BOOLEAN, misread => misread'
    PROVE  IInv'
<1>1. /\ Len(stack) = Len(frames) /\ Top.srvNum \in 1 .. Len(Top.servers)
  BY WaitingFacts
<1>2. stack \in Seq(Servers) /\ Len(frames) \in Nat \ {0}
  BY DEF IInv, Shape
<1>3. /\ stack' \in Seq(Servers) /\ Len(stack') = Len(frames) - 1
      /\ \A i \in 1 .. (Len(frames) - 1) : stack'[i] = stack[i]
  <2>1. \A i \in 1 .. (Len(stack) - 1) : stack[i] \in Servers
    BY <1>2
  <2>2. stack' = SubSeq(stack, 1, Len(stack) - 1)
    BY DEF NextServer
  <2>3. /\ stack' \in Seq(Servers)
        /\ Len(stack') = IF 1 <= Len(stack) - 1 THEN (Len(stack) - 1) - 1 + 1 ELSE 0
        /\ \A i \in 1 .. ((Len(stack) - 1) - 1 + 1) : stack'[i] = stack[1 + i - 1]
    BY <1>1, <1>2, <2>1, <2>2, SubSeqProperties
  <2>4. QED
    BY <1>1, <1>2, <2>3
<1>4. /\ Top.srvNum \in 1 .. Len(Top.servers)
      /\ frames' = [frames EXCEPT ![Depth].servers = Without(@, Top.srvNum)]
      /\ Len(stack) >= Len(frames) - 1
      /\ waiting' = FALSE /\ reply' = reply /\ outcome' = outcome
  BY <1>1, <1>2 DEF NextServer
<1>5. QED
  BY <1>3, <1>4, ServerDropped, Zenon

(* The program ends; what it found, if it found it, is what it just asked. *)
LEMMA FinishStep ==
    ASSUME IInv, NEW how \in Outcomes, Finish(how),
           misread' \in BOOLEAN, misread => misread',
           how = "found" => waiting /\ (~misread' => reply[Asked].kind = "answer")
    PROVE  IInv'
<1>1. /\ frames' = frames /\ stack' = stack /\ waiting' = waiting /\ reply' = reply
      /\ outcome' = how
  BY DEF Finish
<1>2. Shape'
  BY <1>1 DEF IInv, Shape
<1>3. StackIsThePath'
  BY <1>1 DEF IInv, StackIsThePath, Depth
<1>4. Picked'
  BY <1>1 DEF IInv, Picked
<1>5. Delegated'
  BY <1>1 DEF IInv, Delegated
<1>6. Answered'
  <2>1. CASE how = "found"
    <3>1. Asked = stack[Len(stack)]
      BY <2>1, WaitingFacts
    <3>2. QED
      BY <1>1, <2>1, <3>1 DEF Answered
  <2>2. CASE how # "found"
    BY <1>1, <2>2 DEF Answered
  <2>3. QED
    BY <2>1, <2>2
<1>7. QED
  BY <1>2, <1>3, <1>4, <1>5, <1>6 DEF IInv

(* A new activation, with a list that the server just asked has given.     *)
LEMMA RecurseStep ==
    ASSUME IInv, waiting, outcome = "running",
           NEW l \in Seq(Servers), Recurse(l),
           misread' \in BOOLEAN, misread => misread',
           ~misread' => /\ reply[Asked].kind = "referral"
                        /\ \A x \in Servers : In(x, l) => In(x, reply[Asked].list)
    PROVE  IInv'
<1> DEFINE n == Len(frames)
           g == Activation(l)
<1>1. /\ frames' = Append(frames, g) /\ stack' = stack /\ waiting' = FALSE
      /\ reply' = reply /\ outcome' = outcome
  BY DEF Recurse
<1>2. /\ n \in Nat \ {0} /\ Len(stack) = n /\ frames \in Seq(Frame)
      /\ Asked = stack[n]
  BY WaitingFacts DEF IInv, Shape
<1>3. g \in Frame /\ g.servers = l
  BY DEF Activation, Frame
<1> HIDE DEF g
<1>4. /\ frames' \in Seq(Frame) /\ Len(frames') = n + 1
      /\ \A i \in 1 .. n : frames'[i] = frames[i]
      /\ frames'[n + 1] = g
  BY <1>1, <1>2, <1>3, AppendProperties
<1>5. Shape'
  <2>1. frames' \in Seq(Frame) /\ Len(frames') > 0
    BY <1>2, <1>4
  <2>2. QED
    BY <1>1, <2>1 DEF IInv, Shape
<1>6. StackIsThePath'
  <2>1. \A i \in 1 .. Len(stack) : stack[i] = frames'[i].servers[frames'[i].srvNum]
    BY <1>2, <1>4 DEF IInv, StackIsThePath
  <2>2. QED
    BY <1>1, <1>2, <1>4, <2>1 DEF IInv, StackIsThePath, Depth
<1>7. Picked'
  <2>1. \A i \in 1 .. Len(stack) : frames'[i] = frames[i]
    BY <1>2, <1>4
  <2>2. QED
    BY <1>1, <2>1 DEF IInv, Picked
<1>8. Delegated'
  <2> SUFFICES ASSUME ~misread'
               PROVE  /\ \A x \in Servers : In(x, frames'[1].servers) => In(x, hostServers)
                      /\ \A i \in 1 .. n :
                            /\ reply[stack[i]].kind = "referral"
                            /\ \A x \in Servers : In(x, frames'[i + 1].servers)
                                                    => In(x, reply[stack[i]].list)
    BY <1>1, <1>2, <1>4 DEF Delegated
  <2>1. /\ \A x \in Servers : In(x, frames[1].servers) => In(x, hostServers)
        /\ \A i \in 1 .. (n - 1) :
              /\ reply[stack[i]].kind = "referral"
              /\ \A x \in Servers : In(x, frames[i + 1].servers)
                                        => In(x, reply[stack[i]].list)
    BY DEF IInv, Delegated
  <2>2. frames'[1] = frames[1]
    BY <1>2, <1>4
  <2>3. ASSUME NEW i \in 1 .. n
        PROVE  /\ reply[stack[i]].kind = "referral"
               /\ \A x \in Servers : In(x, frames'[i + 1].servers)
                                        => In(x, reply[stack[i]].list)
    <3>1. CASE i = n
      BY <1>2, <1>3, <1>4, <3>1
    <3>2. CASE i \in 1 .. (n - 1)
      <4>1. i + 1 \in 1 .. n
        BY <1>2, <3>2
      <4>2. frames'[i + 1] = frames[i + 1]
        BY <1>4, <4>1
      <4>3. QED
        BY <2>1, <3>2, <4>2
    <3>3. QED
      BY <1>2, <3>1, <3>2
  <2>4. QED
    BY <2>1, <2>2, <2>3
<1>9. Answered'
  BY <1>1 DEF Answered
<1>10. QED
  BY <1>5, <1>6, <1>7, <1>8, <1>9 DEF IInv

LEMMA AskStep == ASSUME IInv, Ask PROVE IInv'
<1> DEFINE n == Len(frames)
<1>1. /\ outcome = "running" /\ ~waiting /\ waiting' = TRUE
      /\ reply' = reply /\ misread' = misread /\ outcome' = outcome
  BY DEF Ask, Picking
<1>2. PICK k \in 1 .. Len(Top.servers) :
        /\ ~OnStack(Top.servers[k])
        /\ frames' = [frames EXCEPT ![Depth].srvNum = k,
                                    ![Depth].packets = IF @ = 0 THEN 1 ELSE 2]
        /\ stack' = Append(stack, Top.servers[k])
  BY DEF Ask
<1> DEFINE x == Top.servers[k]
           g == [frames[n] EXCEPT !.srvNum = k,
                                  !.packets = IF @ = 0 THEN 1 ELSE 2]
<1>3. /\ n \in Nat \ {0} /\ frames \in Seq(Frame) /\ frames[n] \in Frame
      /\ Len(stack) = n - 1 /\ stack \in Seq(Servers)
  BY <1>1 DEF IInv, Shape, StackIsThePath, Depth
<1>4. /\ frames[n].servers \in Seq(Servers) /\ k \in 1 .. Len(frames[n].servers)
      /\ x = frames[n].servers[k] /\ x \in Servers
  BY <1>3 DEF Frame, Top, Depth
<1>5. g \in Frame /\ g.servers = frames[n].servers /\ g.srvNum = k
  <2>1. ASSUME NEW f \in Frame, NEW m \in Nat, NEW p \in 0 .. 2
        PROVE  /\ [f EXCEPT !.srvNum = m, !.packets = p] \in Frame
               /\ [f EXCEPT !.srvNum = m, !.packets = p].servers = f.servers
               /\ [f EXCEPT !.srvNum = m, !.packets = p].srvNum = m
    BY DEF Frame
  <2>2. k \in Nat
    BY <1>4
  <2> DEFINE p == IF frames[n].packets = 0 THEN 1 ELSE 2
  <2>3. p \in 0 .. 2 /\ g = [frames[n] EXCEPT !.srvNum = k, !.packets = p]
    OBVIOUS
  <2> HIDE DEF p, g
  <2>4. /\ [frames[n] EXCEPT !.srvNum = k, !.packets = p] \in Frame
        /\ [frames[n] EXCEPT !.srvNum = k, !.packets = p].servers = frames[n].servers
        /\ [frames[n] EXCEPT !.srvNum = k, !.packets = p].srvNum = k
    BY <1>3, <2>1, <2>2, <2>3, Zenon
  <2>5. QED
    BY <2>3, <2>4, Zenon
<1>6. frames' = [frames EXCEPT ![n] = g]
  BY <1>2, <1>3 DEF Depth, Frame
<1> HIDE DEF g, x
<1>7. /\ frames' \in Seq(Frame) /\ Len(frames') = n
      /\ \A i \in 1 .. n : frames'[i] = IF i = n THEN g ELSE frames[i]
  <2>1. n \in 1 .. Len(frames)
    BY <1>3
  <2>2. /\ [frames EXCEPT ![n] = g] \in Seq(Frame)
        /\ Len([frames EXCEPT ![n] = g]) = Len(frames)
        /\ \A j \in 1 .. Len(frames) :
              [frames EXCEPT ![n] = g][j] = IF j = n THEN g ELSE frames[j]
    BY <1>3, <1>5, <2>1, ExceptSeq
  <2>3. QED
    BY <1>6, <2>2
<1>8. /\ stack' \in Seq(Servers) /\ Len(stack') = n
      /\ \A i \in 1 .. (n - 1) : stack'[i] = stack[i]
      /\ stack'[n] = x
  <2>1. stack' = Append(stack, x)
    BY <1>2 DEF x
  <2>2. QED
    BY <1>3, <1>4, <2>1, AppendProperties
<1>9. ASSUME NEW i \in 1 .. n
      PROVE  \/ i = n /\ frames'[i] = g /\ stack'[i] = x
             \/ i \in 1 .. (n - 1) /\ frames'[i] = frames[i] /\ stack'[i] = stack[i]
  BY <1>3, <1>7, <1>8
<1>10. \A i \in 1 .. (n - 1) : stack[i] # x
  BY <1>2, <1>3 DEF OnStack, x
<1>11. Shape'
  <2>1. Len(frames') > 0
    BY <1>3, <1>7
  <2>2. QED
    BY <1>1, <1>7, <1>8, <2>1 DEF IInv, Shape
<1>12. StackIsThePath'
  <2>1. ASSUME NEW i \in 1 .. n
        PROVE  stack'[i] = frames'[i].servers[frames'[i].srvNum]
    <3>1. CASE i = n
      BY <1>4, <1>5, <1>9, <3>1, <1>3
    <3>2. CASE i \in 1 .. (n - 1)
      BY <1>3, <1>9, <3>2 DEF IInv, StackIsThePath
    <3>3. QED
      BY <1>9, <3>1, <3>2
  <2>2. ASSUME NEW i \in 1 .. n, NEW j \in 1 .. n, stack'[i] = stack'[j]
        PROVE  i = j
    <3>1. CASE i \in 1 .. (n - 1) /\ j \in 1 .. (n - 1)
      BY <1>3, <1>8, <2>2, <3>1 DEF IInv, StackIsThePath
    <3>2. CASE i = n \/ j = n
      BY <1>3, <1>8, <1>10, <2>2, <3>2
    <3>3. QED
      BY <1>3, <3>1, <3>2
  <2>3. QED
    BY <1>1, <1>7, <1>8, <2>1, <2>2 DEF StackIsThePath, Depth
<1>13. Picked'
  <2>1. ASSUME NEW i \in 1 .. n
        PROVE  frames'[i].srvNum \in 1 .. Len(frames'[i].servers)
    <3>1. CASE i = n
      BY <1>3, <1>4, <1>5, <1>9, <3>1
    <3>2. CASE i \in 1 .. (n - 1)
      BY <1>3, <1>9, <3>2 DEF IInv, Picked
    <3>3. QED
      BY <1>9, <3>1, <3>2
  <2>2. QED
    BY <1>8, <2>1 DEF Picked
<1>14. Delegated'
  <2> SUFFICES ASSUME ~misread
               PROVE  /\ \A y \in Servers : In(y, frames'[1].servers) => In(y, hostServers)
                      /\ \A i \in 1 .. (n - 1) :
                            /\ reply[stack'[i]].kind = "referral"
                            /\ \A y \in Servers : In(y, frames'[i + 1].servers)
                                                    => In(y, reply[stack'[i]].list)
    BY <1>1, <1>7 DEF Delegated
  <2>1. /\ \A y \in Servers : In(y, frames[1].servers) => In(y, hostServers)
        /\ \A i \in 1 .. (n - 1) :
              /\ reply[stack[i]].kind = "referral"
              /\ \A y \in Servers : In(y, frames[i + 1].servers)
                                        => In(y, reply[stack[i]].list)
    BY DEF IInv, Delegated
  <2>2. \A i \in 1 .. n : frames'[i].servers = frames[i].servers
    BY <1>5, <1>7
  <2>3. 1 \in 1 .. n /\ \A i \in 1 .. (n - 1) : i + 1 \in 1 .. n
    BY <1>3
  <2>4. \A i \in 1 .. (n - 1) : stack'[i] = stack[i]
    BY <1>8
  <2>5. frames'[1].servers = frames[1].servers
    BY <2>2, <2>3
  <2>6. \A i \in 1 .. (n - 1) : frames'[i + 1].servers = frames[i + 1].servers
    BY <2>2, <2>3
  <2> HIDE DEF n
  <2>7. QED
    BY <2>1, <2>4, <2>5, <2>6, Zenon
<1>15. Answered'
  BY <1>1 DEF Answered
<1>16. QED
  BY <1>11, <1>12, <1>13, <1>14, <1>15 DEF IInv

LEMMA DropStep == ASSUME IInv, Drop PROVE IInv'
<1>1. PICK k \in 1 .. Len(Top.servers) :
        frames' = [frames EXCEPT ![Depth].servers = Without(@, k)]
  BY DEF Drop
<1>2. /\ outcome = "running" /\ ~waiting
      /\ reply' = reply /\ stack' = stack /\ waiting' = waiting
      /\ misread' = misread /\ outcome' = outcome
  BY DEF Drop, Picking
<1>3. /\ stack' \in Seq(Servers) /\ Len(stack') = Len(frames) - 1
      /\ Len(stack) >= Len(frames) - 1
      /\ waiting' = FALSE /\ misread' \in BOOLEAN /\ (misread => misread')
  BY <1>2 DEF IInv, Shape, StackIsThePath, Depth
<1>4. \A i \in 1 .. (Len(frames) - 1) : stack'[i] = stack[i]
  BY <1>2
<1>5. QED
  BY <1>1, <1>2, <1>3, <1>4, ServerDropped, Zenon

LEMMA ReferralStep == ASSUME IInv, Referral PROVE IInv'
<1>1. /\ outcome = "running" /\ waiting /\ misread' = (misread \/ Misplaced)
      /\ "referral" \in Received
  BY DEF Referral, Arrives
<1>2. misread' \in BOOLEAN /\ (misread => misread')
  BY <1>1 DEF IInv, Shape, Misplaced
<1>3. reply[Asked].kind = "referral"
  BY <1>1 DEF Received
<1>4. Asked \in Servers /\ reply[Asked] \in Replies
  BY <1>1, WaitingFacts
<1>5. \A l \in Lists : l \in Seq(Servers)
  <2>1. reply[Asked].list \in Seq(Servers)
    BY <1>4, RepliesAssumption
  <2>2. <<>> \in Seq(Servers) /\ \A x \in Servers : <<x>> \in Seq(Servers)
    OBVIOUS
  <2>3. QED
    BY <2>1, <2>2, Zenon DEF Lists
<1>6. ASSUME NEW l \in Lists, Recurse(l) PROVE IInv'
  <2>1. l \in Seq(Servers)
    BY <1>5
  <2>2. ~misread' => l = reply[Asked].list
    BY <1>1 DEF Lists
  <2>3. ~misread' => /\ reply[Asked].kind = "referral"
                     /\ \A x \in Servers : In(x, l) => In(x, reply[Asked].list)
    BY <1>3, <2>2
  <2>4. QED
    BY <1>1, <1>2, <1>6, <2>1, <2>3, RecurseStep
<1>7. ASSUME NextServer PROVE IInv'
  BY <1>1, <1>2, <1>7, NextServerStep
<1>8. ASSUME Finish("crashed") PROVE IInv'
  <2>1. "crashed" \in Outcomes /\ "crashed" # "found"
    BY DEF Outcomes
  <2>2. QED
    BY <1>2, <1>8, <2>1, FinishStep
<1>9. QED
  BY <1>6, <1>7, <1>8 DEF Referral

LEMMA AnswerStep == ASSUME IInv, Answer PROVE IInv'
<1>1. /\ outcome = "running" /\ waiting /\ misread' = (misread \/ Misplaced)
      /\ "answer" \in Received
  BY DEF Answer, Arrives
<1>2. misread' \in BOOLEAN /\ (misread => misread')
  BY <1>1 DEF IInv, Shape, Misplaced
<1>3. reply[Asked].kind = "answer"
  BY <1>1 DEF Received
<1>4. PICK how \in {"found", "garbled", "crashed"} : Finish(how)
  BY DEF Answer
<1>5. how \in Outcomes
  BY DEF Outcomes
<1>6. QED
  BY <1>1, <1>2, <1>3, <1>4, <1>5, FinishStep

LEMMA Inductive == IInv /\ [Next]_vars => IInv'
<1> SUFFICES ASSUME IInv, [Next]_vars PROVE IInv'
  OBVIOUS
<1>1. CASE Drop
  BY <1>1, DropStep
<1>2. CASE Ask
  BY <1>2, AskStep
<1>3. CASE Answer
  BY <1>3, AnswerStep
<1>4. CASE NoSuchName \/ FormatError \/ GiveUp \/ SendOutFails
  <2>1. PICK how \in {"no such name", "fatal", "no record"} : Finish(how)
    BY <1>4 DEF NoSuchName, FormatError, GiveUp, SendOutFails
  <2>2. how \in Outcomes /\ how # "found"
    BY DEF Outcomes
  <2>3. misread' = misread /\ misread \in BOOLEAN
    BY <1>4 DEF NoSuchName, FormatError, GiveUp, SendOutFails, IInv, Shape
  <2>4. QED
    BY <2>1, <2>2, <2>3, FinishStep
<1>5. CASE Other
  <2>1. /\ outcome = "running" /\ waiting /\ NextServer
        /\ misread' = misread /\ misread \in BOOLEAN
    BY <1>5 DEF Other, Arrives, IInv, Shape
  <2>2. QED
    BY <2>1, NextServerStep
<1>6. CASE Referral
  BY <1>6, ReferralStep
<1>7. CASE UNCHANGED vars
  BY <1>7 DEF vars, IInv, Shape, StackIsThePath, Picked, Delegated, Answered, Depth
<1>8. QED
  BY <1>1, <1>2, <1>3, <1>4, <1>5, <1>6, <1>7 DEF Next, Walk

LEMMA Initial == Init => IInv
<1> SUFFICES ASSUME Init PROVE IInv
  OBVIOUS
<1>1. /\ reply \in [Servers -> Replies] /\ frames = <<Activation(hostServers)>>
      /\ stack = <<>> /\ waiting = FALSE /\ misread = FALSE /\ outcome = "running"
  BY DEF Init
<1>2. Activation(hostServers) \in Frame
  BY ServersAssumption DEF Activation, Frame
<1>3. frames \in Seq(Frame) /\ Len(frames) = 1 /\ Len(stack) = 0 /\ stack \in Seq(Servers)
  BY <1>1, <1>2
<1>4. frames[1].servers = hostServers
  BY <1>1 DEF Activation
<1>5. Shape
  <2>1. "running" \in Outcomes
    BY DEF Outcomes
  <2>2. outcome \in Outcomes
    BY <1>1, <2>1, Zenon
  <2>3. waiting \in BOOLEAN /\ misread \in BOOLEAN
    BY <1>1
  <2>4. frames \in Seq(Frame) /\ Len(frames) > 0
    BY <1>3
  <2>5. QED
    BY <1>1, <1>3, <2>2, <2>3, <2>4, Zenon DEF Shape
<1>6. StackIsThePath /\ Picked
  BY <1>1, <1>3 DEF StackIsThePath, Picked, Depth
<1>7. Delegated
  BY <1>3, <1>4 DEF Delegated
<1>8. Answered
  BY <1>1 DEF Answered
<1>9. QED
  BY <1>5, <1>6, <1>7, <1>8 DEF IInv

LEMMA Invariance == Spec => []IInv
  BY Initial, Inductive, PTL DEF Spec
-----------------------------------------------------------------------------
(* TypeOK always holds: each activation has a list of servers, the stack   *)
(* is one, and the index of the server that is being waited for is inside  *)
(* its list when it is erased (myresolver.cpp:688).                        *)
THEOREM TypeCorrect == Spec => []TypeOK
<1>1. ASSUME IInv PROVE TypeOK
  <2>1. ASSUME NEW i \in 1 .. Depth
        PROVE  frames[i].servers \in Seq(Servers) /\ frames[i].packets \in 0 .. 2
    <3>1. frames[i] \in Frame
      BY <1>1 DEF IInv, Shape, Depth
    <3>2. QED
      BY <3>1 DEF Frame
  <2>2. waiting => Top.srvNum \in 1 .. Len(Top.servers)
    BY <1>1, WaitingFacts
  <2>3. QED
    BY <1>1, <2>1, <2>2 DEF IInv, Shape, TypeOK
<1>2. QED
  BY <1>1, Invariance, PTL

(* The stack is the path of the recursion and names no server twice, which *)
(* is what keeps attempt() out of circles of delegations                   *)
(* (myresolver.cpp:645-646).                                               *)
THEOREM StackCorrect == Spec => []StackIsThePath
<1>1. IInv => StackIsThePath
  BY DEF IInv
<1>2. QED
  BY <1>1, Invariance, PTL

(* While no reply was misread, each server on the path was named by the    *)
(* referral of the one before, the first by the list of roots, and the     *)
(* answer that is printed is that of the last.                             *)
THEOREM DelegationCorrect == Spec => []PathIsDelegation
<1>1. ASSUME IInv, ~misread
      PROVE  /\ stack # <<>> => In(stack[1], hostServers)
             /\ \A i \in 1 .. (Len(stack) - 1) : /\ reply[stack[i]].kind = "referral"
                                                 /\ In(stack[i + 1], reply[stack[i]].list)
             /\ outcome = "found" => stack # <<>> /\ reply[stack[Len(stack)]].kind = "answer"
  <2>1. /\ Len(stack) \in Nat /\ stack \in Seq(Servers) /\ Len(frames) \in Nat \ {0}
        /\ Len(stack) <= Len(frames)
    BY <1>1 DEF IInv, Shape, StackIsThePath, Depth
  <2>2. ASSUME NEW i \in 1 .. Len(stack)
        PROVE  stack[i] \in Servers /\ In(stack[i], frames[i].servers)
    BY <1>1, <2>1, <2>2 DEF IInv, StackIsThePath, Picked, In
  <2>3. stack # <<>> => In(stack[1], hostServers)
    <3> SUFFICES ASSUME stack # <<>> PROVE In(stack[1], hostServers)
      OBVIOUS
    <3>1. 1 \in 1 .. Len(stack)
      BY <2>1
    <3>2. QED
      BY <1>1, <2>2, <3>1 DEF IInv, Delegated
  <2>4. ASSUME NEW i \in 1 .. (Len(stack) - 1)
        PROVE  /\ reply[stack[i]].kind = "referral"
               /\ In(stack[i + 1], reply[stack[i]].list)
    <3>1. i \in 1 .. (Len(frames) - 1) /\ i + 1 \in 1 .. Len(stack)
      BY <2>1
    <3>2. QED
      BY <1>1, <2>2, <3>1 DEF IInv, Delegated
  <2>5. ASSUME outcome = "found"
        PROVE  stack # <<>> /\ reply[stack[Len(stack)]].kind = "answer"
    <3>1. waiting /\ reply[stack[Len(stack)]].kind = "answer"
      BY <1>1, <2>5 DEF IInv, Answered
    <3>2. Len(stack) = Len(frames)
      BY <1>1, <3>1, WaitingFacts
    <3>3. QED
      BY <2>1, <3>1, <3>2
  <2>6. QED
    BY <2>3, <2>4, <2>5
<1>2. IInv => PathIsDelegation
  BY <1>1 DEF PathIsDelegation
<1>3. QED
  BY <1>2, Invariance, PTL
=============================================================================
