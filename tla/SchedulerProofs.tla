--------------------------- MODULE SchedulerProofs ---------------------------
(***************************************************************************)
(* Proofs about Scheduler, for any number of children and any options.     *)
(***************************************************************************)
EXTENDS Scheduler, TLAPS, SequenceTheorems, FiniteSetTheorems

Pushing == {"kill", "shutdown", "reset", "header", "terminate"}
MainPC == {"help", "daemon", "enter", "fetch", "pop", "leave", "exited"} \cup Pushing
Event == {Header, Terminate} \cup {Line(x) : x \in MainPC \cup Children \cup {NoChild}}
         \cup {Death(c) : c \in Children}

TypeOK ==
    /\ opts \in SUBSET Switches
    /\ pid \in {"parent", "daemon"}
    /\ main \in MainPC
    /\ lock \in {"none", "main"}
    /\ queue \in Seq(Event)
    /\ inLoop \in BOOLEAN
    /\ ran \in Seq(Event)
    /\ handler \in {"off", "wait", "log", "push"}
    /\ child \in Children \cup {NoChild}
    /\ sigchld \in BOOLEAN
    /\ alive \in SUBSET Children /\ zombie \in SUBSET Children /\ agents \in SUBSET Children

(* The handler has a child in hand between waitpid() and its push. *)
InHand == child # NoChild <=> handler \in {"log", "push"}

(* A child is alive, a zombie, in the handler's hand or an agent's; and    *)
(* none is forgotten, but by the daemon, who is not their parent.          *)
OneOf ==
    /\ alive \cap zombie = {}
    /\ agents \cap (alive \cup zombie) = {}
    /\ child \notin alive \cup zombie \cup agents
    /\ pid = "parent" => Children \subseteq alive \cup zombie \cup agents \cup {child}

(* The events pushed so far *)
All == ran \o queue

DeathsRight(s, who) ==
    \A c \in Children : IF c \in who THEN \E i : Deaths(s, c) = {i} ELSE Deaths(s, c) = {}

(* The terminating event waits for as long as the loop runs. *)
LastQueued == main \in {"enter", "fetch", "pop"} => \E i \in 1 .. Len(queue) : queue[i] = Terminate

IInv == TypeOK /\ InHand /\ OneOf /\ DeathsRight(All, agents) /\ LastQueued /\ NoZombieForgotten
-----------------------------------------------------------------------------
(* The order of the constructor's steps *)
LEMMA AfterIs ==
    /\ After("help") = "daemon" /\ After("daemon") = "kill"
    /\ After("kill") = "shutdown" /\ After("shutdown") = "reset"
    /\ After("reset") = "header" /\ After("header") = "terminate"
    /\ After("terminate") = "enter"
<1>1. Len(Steps) = 8
  BY DEF Steps
<1>2. \A k \in 1 .. 7 : \A i \in 1 .. 8 : Steps[i] = Steps[k] => i = k
  BY DEF Steps
<1>3. ASSUME NEW k \in 1 .. 7 PROVE After(Steps[k]) = Steps[k + 1]
  BY <1>1, <1>2 DEF After
<1> QED
  BY <1>3 DEF Steps

(* Only the push of a death changes the deaths among the events. *)
LEMMA AppendDeaths ==
    ASSUME NEW s \in Seq(Event), NEW e \in Event, NEW c \in Children
    PROVE  /\ e # Death(c) => Deaths(Append(s, e), c) = Deaths(s, c)
           /\ e = Death(c) => Deaths(Append(s, e), c) = Deaths(s, c) \cup {Len(s) + 1}
<1>1. /\ Len(Append(s, e)) = Len(s) + 1 /\ Len(s) \in Nat
      /\ \A i \in 1 .. Len(s) : Append(s, e)[i] = s[i]
      /\ Append(s, e)[Len(s) + 1] = e
  BY AppendProperties
<1>2. \A i : i \in 1 .. Len(s) + 1 <=> i \in 1 .. Len(s) \/ i = Len(s) + 1
  BY <1>1
<1>3. \A i : i \in Deaths(Append(s, e), c) <=>
               i \in Deaths(s, c) \/ (i = Len(s) + 1 /\ e = Death(c))
  BY <1>1, <1>2 DEF Deaths
<1> QED
  BY <1>3

LEMMA QueueAppend ==
    ASSUME NEW s \in Seq(Event), NEW q \in Seq(Event), NEW e \in Event
    PROVE  s \o Append(q, e) = Append(s \o q, e) /\ s \o q \in Seq(Event)
<1>1. s \o q \in Seq(Event) /\ <<e>> \in Seq(Event)
  BY ConcatProperties
<1>2. Append(q, e) = q \o <<e>> /\ Append(s \o q, e) = (s \o q) \o <<e>>
  BY <1>1, AppendIsConcat
<1> QED
  BY <1>1, <1>2, ConcatAssociative

(* The event executed next moves from the queue to the history. *)
LEMMA QueuePop ==
    ASSUME NEW s \in Seq(Event), NEW q \in Seq(Event), q # <<>>
    PROVE  Append(s, Head(q)) \o Tail(q) = s \o q
<1>1. Head(q) \in Event /\ Tail(q) \in Seq(Event) /\ <<Head(q)>> \in Seq(Event)
  BY HeadTailProperties
<1>2. Append(s, Head(q)) = s \o <<Head(q)>>
  BY <1>1, AppendIsConcat
<1>3. <<Head(q)>> \o Tail(q) = q
  BY <1>1
<1> QED
  BY <1>1, <1>2, <1>3, ConcatAssociative

(* A push of an event that is not a death *)
LEMMA OtherPush ==
    ASSUME IInv, NEW e \in Event, \A c \in Children : e # Death(c),
           queue' = Append(queue, e), UNCHANGED <<ran, agents>>
    PROVE  /\ queue' \in Seq(Event)
           /\ DeathsRight(All, agents)'
           /\ (\E i \in 1 .. Len(queue) : queue[i] = Terminate)
                  => \E i \in 1 .. Len(queue') : queue'[i] = Terminate
           /\ e = Terminate => \E i \in 1 .. Len(queue') : queue'[i] = Terminate
<1>1. queue \in Seq(Event) /\ ran \in Seq(Event)
  BY DEF IInv, TypeOK
<1>2. All' = Append(All, e) /\ All \in Seq(Event)
  BY <1>1, QueueAppend DEF All
<1>3. DeathsRight(All, agents)'
  <2>1. \A c \in Children : Deaths(All', c) = Deaths(All, c)
    BY <1>2, AppendDeaths
  <2> QED
    BY <2>1 DEF IInv, DeathsRight
<1>4. /\ queue' \in Seq(Event) /\ Len(queue') = Len(queue) + 1 /\ Len(queue) \in Nat
      /\ \A i \in 1 .. Len(queue) : queue'[i] = queue[i]
      /\ queue'[Len(queue) + 1] = e
  BY <1>1, AppendProperties
<1> QED
  BY <1>3, <1>4

(* The events of the constructor *)
LEMMA EventOfPush ==
    ASSUME NEW s \in Pushing
    PROVE  /\ EventOf(s) \in Event
           /\ \A c \in Children : EventOf(s) # Death(c)
           /\ s = "terminate" => EventOf(s) = Terminate
<1>1. \A c \in Children : Death(c).kind = "death"
  BY DEF Death
<1>2. \/ s = "header" /\ EventOf(s) = Header
      \/ s = "terminate" /\ EventOf(s) = Terminate
      \/ s \notin {"header", "terminate"} /\ EventOf(s) = Line(s)
  BY DEF EventOf
<1>3. Header.kind = "logHeader" /\ Terminate.kind = "terminate" /\ Line(s).kind = "line"
  BY DEF Header, Terminate, Line
<1>4. Header \in Event /\ Terminate \in Event /\ Line(s) \in Event
  BY DEF Event, MainPC
<1> QED
  BY <1>1, <1>2, <1>3, <1>4

(* What the constructor leaves alone when it is not pushing or fetching    *)
LEMMA ConstructorKeeps ==
    ASSUME IInv, UNCHANGED <<queue, ran, handler, child, agents>>
    PROVE  InHand' /\ DeathsRight(All, agents)'
  BY DEF IInv, InHand, All, DeathsRight

LEMMA HelpStep ==
    ASSUME IInv, Help \/ Skip \/ PushLock \/ EnterLock \/ EnterUnlock \/ FetchLock
                 \/ LeaveLock \/ LeaveUnlock
    PROVE  IInv'
<1>1. UNCHANGED <<procVars, queue, ran, signalVars>>
  BY DEF Help, Skip, PushLock, EnterLock, EnterUnlock, FetchLock, LeaveLock, LeaveUnlock
<1>2. /\ main' \in MainPC
      /\ main' \in {"enter", "fetch", "pop"} => main \in {"enter", "fetch", "pop"}
  <2>1. CASE Help
    BY <2>1, AfterIs DEF Help, MainPC
  <2>2. CASE Skip
    BY <2>2, AfterIs DEF Skip, Skipped, MainPC, Pushing
  <2>3. CASE PushLock \/ EnterLock \/ EnterUnlock \/ FetchLock \/ LeaveLock \/ LeaveUnlock
    BY <2>3 DEF PushLock, EnterLock, EnterUnlock, FetchLock, LeaveLock, LeaveUnlock, MainPC, Pushing, IInv, TypeOK
  <2> QED
    BY <2>1, <2>2, <2>3
<1>3. lock' \in {"none", "main"} /\ inLoop' \in BOOLEAN
  BY DEF Help, Skip, PushLock, EnterLock, EnterUnlock, FetchLock, LeaveLock, LeaveUnlock, IInv, TypeOK
<1>4. TypeOK'
  BY <1>1, <1>2, <1>3 DEF IInv, TypeOK, procVars, signalVars
<1>5. InHand' /\ DeathsRight(All, agents)'
  BY <1>1, ConstructorKeeps DEF signalVars
<1>6. OneOf' /\ NoZombieForgotten'
  BY <1>1 DEF IInv, OneOf, NoZombieForgotten, procVars, signalVars
<1>7. LastQueued'
  BY <1>1, <1>2 DEF IInv, LastQueued
<1> QED
  BY <1>4, <1>5, <1>6, <1>7 DEF IInv

(* After the fork there is no child to wait for. *)
LEMMA DaemonStep ==
    ASSUME IInv, Daemon
    PROVE  IInv'
<1>1. /\ main' = "kill" /\ handler = "off"
      /\ UNCHANGED <<opts, lock, queue, inLoop, ran, handler, child, agents>>
  BY AfterIs DEF Daemon, MainRuns
<1>2. \/ pid' = "daemon" /\ alive' = {} /\ zombie' = {} /\ sigchld' = FALSE
      \/ UNCHANGED <<pid, alive, zombie, sigchld>>
  BY DEF Daemon
<1>3. TypeOK'
  BY <1>1, <1>2 DEF IInv, TypeOK, MainPC, Pushing
<1>4. InHand' /\ DeathsRight(All, agents)'
  BY <1>1, ConstructorKeeps
<1>5. OneOf' /\ NoZombieForgotten' /\ LastQueued'
  BY <1>1, <1>2 DEF IInv, OneOf, NoZombieForgotten, LastQueued
<1> QED
  BY <1>3, <1>4, <1>5 DEF IInv

LEMMA PushStep ==
    ASSUME IInv, PushUnlock
    PROVE  IInv'
<1>1. /\ main \in Pushing /\ queue' = Append(queue, EventOf(main))
      /\ lock' = "none" /\ main' = After(main)
      /\ UNCHANGED <<procVars, inLoop, ran, signalVars>>
  BY DEF PushUnlock, Pushing
<1>2. /\ EventOf(main) \in Event /\ \A c \in Children : EventOf(main) # Death(c)
      /\ main = "terminate" => EventOf(main) = Terminate
  BY <1>1, EventOfPush
<1>3. /\ queue' \in Seq(Event) /\ DeathsRight(All, agents)'
      /\ EventOf(main) = Terminate => \E i \in 1 .. Len(queue') : queue'[i] = Terminate
  BY <1>1, <1>2, OtherPush DEF signalVars
<1>4. main' \in MainPC /\ (main' \in {"enter", "fetch", "pop"} => main = "terminate")
  BY <1>1, AfterIs DEF Pushing, MainPC
<1>5. TypeOK'
  BY <1>1, <1>3, <1>4 DEF IInv, TypeOK, procVars, signalVars
<1>6. InHand' /\ OneOf' /\ NoZombieForgotten'
  BY <1>1 DEF IInv, InHand, OneOf, NoZombieForgotten, procVars, signalVars
<1>7. LastQueued'
  BY <1>2, <1>3, <1>4 DEF LastQueued
<1> QED
  BY <1>3, <1>5, <1>6, <1>7 DEF IInv

LEMMA FetchStep ==
    ASSUME IInv, FetchUnlock
    PROVE  IInv'
<1>1. /\ main = "pop" /\ queue # <<>>
      /\ queue' = Tail(queue) /\ ran' = Append(ran, Head(queue)) /\ lock' = "none"
      /\ main' = IF Head(queue) = Terminate THEN "leave" ELSE "fetch"
      /\ UNCHANGED <<procVars, inLoop, signalVars>>
  BY DEF FetchUnlock
<1>2. queue \in Seq(Event) /\ ran \in Seq(Event)
  BY DEF IInv, TypeOK
<1>3. /\ Head(queue) \in Event /\ Head(queue) = queue[1]
      /\ Tail(queue) \in Seq(Event) /\ Len(Tail(queue)) = Len(queue) - 1
      /\ \A i \in 1 .. Len(Tail(queue)) : Tail(queue)[i] = queue[i + 1]
  BY <1>1, <1>2, HeadTailProperties
<1>4. ran' \in Seq(Event)
  BY <1>1, <1>2, <1>3, AppendProperties
<1>5. TypeOK'
  BY <1>1, <1>3, <1>4 DEF IInv, TypeOK, MainPC, procVars, signalVars
<1>6. DeathsRight(All, agents)'
  <2>1. All' = All
    BY <1>1, <1>2, QueuePop DEF All
  <2> QED
    BY <1>1, <2>1 DEF IInv, DeathsRight, signalVars
<1>7. InHand' /\ OneOf' /\ NoZombieForgotten'
  BY <1>1 DEF IInv, InHand, OneOf, NoZombieForgotten, procVars, signalVars
<1>8. LastQueued'
  <2> SUFFICES ASSUME Head(queue) # Terminate
               PROVE  \E i \in 1 .. Len(queue') : queue'[i] = Terminate
    BY <1>1 DEF LastQueued
  <2>1. PICK i \in 1 .. Len(queue) : queue[i] = Terminate
    BY <1>1 DEF IInv, LastQueued
  <2>2. Len(queue) \in Nat /\ i # 1
    BY <1>2, <1>3, <2>1
  <2>3. i - 1 \in 1 .. Len(Tail(queue)) /\ Tail(queue)[i - 1] = queue[i]
    BY <1>3, <2>2
  <2> QED
    BY <1>1, <2>1, <2>3
<1> QED
  BY <1>5, <1>6, <1>7, <1>8 DEF IInv
-----------------------------------------------------------------------------
(* Children die, and are waited for, without an event. *)
LEMMA ChildStep ==
    ASSUME IInv, Deliver \/ Waitpid \/ \E c \in Children : Die(c)
    PROVE  IInv'
<1>1. UNCHANGED <<mainVars, queue, agents>>
  BY DEF Deliver, Waitpid, Die
<1>2. /\ sigchld' \in BOOLEAN /\ alive' \in SUBSET Children /\ zombie' \in SUBSET Children
      /\ handler' \in {"off", "wait", "log", "push"}
      /\ child' \in Children \cup {NoChild}
  BY DEF Deliver, Waitpid, Die, IInv, TypeOK
<1>3. TypeOK'
  BY <1>1, <1>2 DEF IInv, TypeOK, mainVars, procVars
<1>4. InHand' /\ OneOf' /\ NoZombieForgotten'
  <2>1. CASE Deliver
    BY <1>1, <2>1 DEF Deliver, IInv, InHand, OneOf, NoZombieForgotten, mainVars, procVars
  <2>2. CASE Waitpid
    <3>1. handler = "wait" /\ child = NoChild
      BY <2>2 DEF Waitpid, IInv, InHand, TypeOK
    <3>2. CASE zombie = {}
      BY <1>1, <2>2, <3>1, <3>2
         DEF Waitpid, IInv, InHand, OneOf, NoZombieForgotten, mainVars, procVars
    <3>3. CASE zombie # {}
      <4>1. PICK c \in zombie : /\ child' = c /\ zombie' = zombie \ {c}
                                /\ handler' \in {"log", "push"} /\ alive' = alive
        BY <2>2, <3>3 DEF Waitpid
      <4>2. c \in Children /\ c # NoChild
        BY NoChildAssumption DEF IInv, TypeOK
      <4>3. InHand' /\ NoZombieForgotten'
        BY <4>1, <4>2 DEF InHand, NoZombieForgotten
      <4>4. OneOf'
        <5>1. c \notin alive /\ c \notin agents
          BY <4>1 DEF IInv, OneOf
        <5>2. pid = "parent" => Children \subseteq alive \cup zombie' \cup agents \cup {c}
          BY <3>1, <4>1, NoChildAssumption DEF IInv, OneOf
        <5>3. alive \cap zombie' = {} /\ agents \cap (alive \cup zombie') = {}
          BY <4>1 DEF IInv, OneOf
        <5> QED
          BY <1>1, <4>1, <5>1, <5>2, <5>3 DEF OneOf, mainVars, procVars
      <4> QED
        BY <4>3, <4>4
    <3> QED
      BY <3>2, <3>3
  <2>3. ASSUME NEW c \in Children, Die(c)
        PROVE  InHand' /\ OneOf' /\ NoZombieForgotten'
    BY <1>1, <2>3 DEF Die, IInv, InHand, OneOf, NoZombieForgotten, mainVars, procVars
  <2> QED
    BY <2>1, <2>2, <2>3
<1>5. DeathsRight(All, agents)' /\ LastQueued'
  BY <1>1 DEF IInv, DeathsRight, All, LastQueued, mainVars
<1> QED
  BY <1>3, <1>4, <1>5 DEF IInv

LEMMA LogStep ==
    ASSUME IInv, HandlerLog
    PROVE  IInv'
<1>1. /\ handler = "log" /\ handler' = "push"
      /\ queue' = queue \/ queue' = Append(queue, Line(child))
      /\ UNCHANGED <<mainVars, child, sigchld, alive, zombie, agents>>
  BY DEF HandlerLog
<1>2. Line(child) \in Event /\ \A c \in Children : Line(child) # Death(c)
  <2>1. Line(child).kind = "line" /\ \A c \in Children : Death(c).kind = "death"
    BY DEF Line, Death
  <2> QED
    BY <2>1 DEF IInv, TypeOK, Event
<1>3. queue' \in Seq(Event) /\ DeathsRight(All, agents)' /\ LastQueued'
  <2>1. CASE queue' = queue
    BY <1>1, <2>1 DEF IInv, TypeOK, DeathsRight, All, LastQueued, mainVars
  <2>2. CASE queue' = Append(queue, Line(child))
    BY <1>1, <1>2, <2>2, OtherPush DEF IInv, LastQueued, mainVars
  <2> QED
    BY <1>1, <2>1, <2>2
<1>4. TypeOK'
  BY <1>1, <1>3 DEF IInv, TypeOK, mainVars, procVars
<1>5. InHand' /\ OneOf' /\ NoZombieForgotten'
  BY <1>1 DEF IInv, InHand, OneOf, NoZombieForgotten, mainVars, procVars
<1> QED
  BY <1>3, <1>4, <1>5 DEF IInv

(* The death of the child in hand, of which there was no event, is pushed. *)
LEMMA DeathStep ==
    ASSUME IInv, HandlerPush
    PROVE  IInv'
<1>1. /\ handler = "push" /\ handler' = "wait"
      /\ queue' = Append(queue, Death(child))
      /\ agents' = agents \cup {child} /\ child' = NoChild
      /\ UNCHANGED <<mainVars, sigchld, alive, zombie>>
  BY DEF HandlerPush, AfterPush
<1>2. /\ child \in Children /\ child \notin agents /\ Death(child) \in Event
      /\ queue \in Seq(Event) /\ ran \in Seq(Event)
  BY <1>1 DEF IInv, TypeOK, InHand, OneOf, Event
<1>3. All' = Append(All, Death(child)) /\ All \in Seq(Event)
  BY <1>1, <1>2, QueueAppend DEF All, mainVars
<1>4. DeathsRight(All, agents)'
  <2>1. ASSUME NEW c \in Children, c # child PROVE Deaths(All', c) = Deaths(All, c)
    <3>1. Death(child) # Death(c)
      <4>1. Death(child).of = child /\ Death(c).of = c
        BY DEF Death
      <4> QED
        BY <2>1, <4>1
    <3> QED
      BY <1>2, <1>3, <3>1, AppendDeaths
  <2>2. Deaths(All, child) = {} /\ Deaths(All', child) = {Len(All) + 1}
    <3>1. Deaths(All, child) = {}
      BY <1>2 DEF IInv, DeathsRight
    <3>2. Deaths(All', child) = Deaths(All, child) \cup {Len(All) + 1}
      BY <1>2, <1>3, AppendDeaths
    <3> QED
      BY <3>1, <3>2
  <2>3. ASSUME NEW c \in Children
        PROVE  IF c \in agents' THEN \E i : Deaths(All', c) = {i} ELSE Deaths(All', c) = {}
    <3>1. CASE c = child
      BY <1>1, <2>2, <3>1
    <3>2. CASE c # child
      BY <1>1, <2>1, <3>2 DEF IInv, DeathsRight
    <3> QED
      BY <3>1, <3>2
  <2> QED
    BY <2>3 DEF DeathsRight
<1>5. /\ queue' \in Seq(Event) /\ Len(queue') = Len(queue) + 1 /\ Len(queue) \in Nat
      /\ \A i \in 1 .. Len(queue) : queue'[i] = queue[i]
  BY <1>1, <1>2, AppendProperties
<1>6. TypeOK'
  BY <1>1, <1>2, <1>5 DEF IInv, TypeOK, mainVars, procVars
<1>7. InHand' /\ OneOf' /\ NoZombieForgotten'
  BY <1>1, <1>2, NoChildAssumption
     DEF IInv, TypeOK, InHand, OneOf, NoZombieForgotten, mainVars, procVars
<1>8. LastQueued'
  <2>1. main' = main /\ 1 .. Len(queue) \subseteq 1 .. Len(queue')
    BY <1>1, <1>5 DEF mainVars
  <2> QED
    BY <1>5, <2>1 DEF IInv, LastQueued
<1> QED
  BY <1>4, <1>6, <1>7, <1>8 DEF IInv
-----------------------------------------------------------------------------
LEMMA InitIInv == Init => IInv
<1> SUFFICES ASSUME Init PROVE IInv
  OBVIOUS
<1>1. All = <<>> /\ <<>> \in Seq(Event)
  BY DEF Init, All
<1>2. TypeOK
  BY <1>1 DEF Init, TypeOK, MainPC
<1>3. DeathsRight(All, agents)
  BY <1>1 DEF Init, DeathsRight, Deaths
<1>4. InHand /\ OneOf /\ LastQueued /\ NoZombieForgotten
  BY NoChildAssumption DEF Init, InHand, OneOf, LastQueued, NoZombieForgotten
<1> QED
  BY <1>2, <1>3, <1>4 DEF IInv

LEMMA NextIInv == IInv /\ [Next]_vars => IInv'
<1> SUFFICES ASSUME IInv, [Next]_vars PROVE IInv'
  OBVIOUS
<1>1. CASE Constructor
  BY <1>1, HelpStep, DaemonStep, PushStep, FetchStep DEF Constructor
<1>2. CASE Deliver \/ Handler \/ \E c \in Children : Die(c)
  BY <1>2, ChildStep, LogStep, DeathStep DEF Handler
<1>3. CASE UNCHANGED vars
  BY <1>3 DEF vars, IInv, TypeOK, InHand, OneOf, DeathsRight, All, LastQueued, NoZombieForgotten
<1> QED
  BY <1>1, <1>2, <1>3 DEF Next

LEMMA SpecIInv == Spec => []IInv
  BY InitIInv, NextIInv, PTL DEF Spec

(* No dead child is forgotten: while one waits to be waited for, a signal  *)
(* is pending or the handler's loop around waitpid() runs, for any number  *)
(* of children that share signals (handle_chld, Scheduler.cpp).            *)
THEOREM ZombiesCorrect == Spec => []NoZombieForgotten
<1>1. IInv => NoZombieForgotten
  BY DEF IInv
<1> QED
  BY SpecIInv, <1>1, PTL

(* Every child waited for has one death event, however its signal falls    *)
(* between the steps of the constructor (handle_chld, Scheduler.cpp).      *)
THEOREM DeathsCorrect == Spec => []EachDeathOnce
<1>1. ASSUME IInv, NEW c \in Reaped
      PROVE  Cardinality(Deaths(All, c)) = IF child = c THEN 0 ELSE 1
  <2>1. c \in Children /\ (c \in agents \/ c = child) /\ (c \in agents => c # child)
    BY <1>1 DEF IInv, TypeOK, OneOf, Reaped
  <2>2. CASE c \in agents
    <3>1. PICK i : Deaths(All, c) = {i}
      BY <1>1, <2>1, <2>2 DEF IInv, DeathsRight
    <3> QED
      BY <2>1, <2>2, <3>1, FS_Singleton
  <2>3. CASE c \notin agents
    <3>1. Deaths(All, c) = {} /\ c = child
      BY <1>1, <2>1, <2>3 DEF IInv, DeathsRight
    <3> QED
      BY <3>1, FS_EmptySet
  <2> QED
    BY <2>2, <2>3
<1>2. IInv => EachDeathOnce
  BY <1>1 DEF EachDeathOnce, All
<1> QED
  BY SpecIInv, <1>2, PTL

(* The event that ends the loop waits in the queue for as long as the      *)
(* constructor is in the loop, so that Enter() never waits for an event    *)
(* there, whatever the handler pushes (the constructor, Scheduler.cpp).    *)
THEOREM LoopNeverWaits == Spec => [](main \in {"fetch", "pop"} => queue # <<>>)
<1>1. IInv => (main \in {"fetch", "pop"} => queue # <<>>)
  BY DEF IInv, LastQueued
<1> QED
  BY SpecIInv, <1>1, PTL

(* Nothing happens to the constructor, the queue or the agents. *)
Stuck == SelfDeadlocked => SelfDeadlocked' /\ UNCHANGED <<mainVars, queue, agents>>

(* A handler that meets a locked queue keeps the lock's owner from ever    *)
(* running: no event is pushed or executed again, and no agent learns of   *)
(* a death (EventQueue::push and handle_chld).                             *)
THEOREM SelfDeadlockIsForEver == Spec => [][Stuck]_vars
<1>1. ASSUME [Next]_vars PROVE Stuck
  <2> USE DEF Stuck
  <2>1. CASE Constructor
    BY <1>1, <2>1 DEF Constructor, Help, Daemon, Skip, PushLock, PushUnlock, EnterLock,
                      EnterUnlock, FetchLock, FetchUnlock, LeaveLock, LeaveUnlock, MainRuns, SelfDeadlocked
  <2>2. CASE Deliver \/ Handler
    BY <1>1, <2>2 DEF Deliver, Handler, Waitpid, HandlerLog, HandlerPush, SelfDeadlocked, mainVars
  <2>3. ASSUME NEW c \in Children, Die(c) PROVE Stuck
    BY <1>1, <2>3 DEF Die, SelfDeadlocked, mainVars
  <2>4. CASE UNCHANGED vars
    BY <1>1, <2>4 DEF vars, mainVars, procVars, SelfDeadlocked
  <2> QED
    BY <1>1, <2>1, <2>2, <2>3, <2>4 DEF Next
<1> QED
  BY <1>1, PTL DEF Spec
=============================================================================
