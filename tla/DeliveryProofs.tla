---------------------------- MODULE DeliveryProofs ----------------------------
(***************************************************************************)
(* What is handed on arrives, in its order and whole.  Proofs about        *)
(* EventQueue, for any number of threads inside Enter(), with or without   *)
(* spurious wake-ups; about the log on top of it, SchedLog, for one thread *)
(* that logs and one inside Enter(); about MessageStream, for any messages *)
(* and any cuts; and about DnsWire, for any records and names of a reply   *)
(* and any pointers in them.  They share the lemmas on sequences.          *)
(***************************************************************************)
EXTENDS SchedLog, MessageStream, DnsWire,
        TLAPS, SequenceTheorems, FiniteSetTheorems, WellFoundedInduction

IInv == TypeOK /\ NoSleepWithWork /\ TakenInOrder

(* The actions that touch neither the queue nor its histories keep the     *)
(* order; so does one that only moves a looper.                            *)
LEMMA SameOrder ==
    ASSUME TakenInOrder, queue' = queue, pushed' = pushed, ran' = ran
    PROVE  TakenInOrder'
  BY DEF TakenInOrder

(* push() appends to the queue what it appends to the history. *)
LEMMA PushOrder ==
    ASSUME TypeOK, TakenInOrder, NEW e \in Events, Push(e)
    PROVE  TakenInOrder'
<1>1. /\ queue' = Append(queue, e) /\ queue \in Seq(Events)
      /\ pushed' = Append(pushed, e) /\ pushed \in Seq(Events)
      /\ ran' = ran /\ ran \in Seq(Events)
      /\ Len(queue) \in Nat /\ Len(pushed) \in Nat /\ Len(ran) \in Nat
  BY DEF Push, TypeOK
<1>2. /\ Len(queue') = Len(queue) + 1
      /\ \A i \in 1 .. Len(queue) : queue'[i] = queue[i]
      /\ queue'[Len(queue) + 1] = e
  BY <1>1, AppendProperties
<1>3. /\ Len(pushed') = Len(pushed) + 1
      /\ \A i \in 1 .. Len(pushed) : pushed'[i] = pushed[i]
      /\ pushed'[Len(pushed) + 1] = e
  BY <1>1, AppendProperties
<1>4. Len(pushed) = Len(ran) + Len(queue)
  BY DEF TakenInOrder
<1>5. Len(pushed') = Len(ran') + Len(queue')
  BY <1>1, <1>2, <1>3, <1>4
<1>6. ASSUME NEW i \in 1 .. Len(ran')
      PROVE  ran'[i] = pushed'[i]
  <2>1. i \in 1 .. Len(ran) /\ i \in 1 .. Len(pushed)
    BY <1>1, <1>4
  <2> QED
    BY <1>1, <1>3, <2>1 DEF TakenInOrder
<1>7. ASSUME NEW i \in 1 .. Len(queue')
      PROVE  queue'[i] = pushed'[Len(ran') + i]
  <2>1. CASE i = Len(queue) + 1
    BY <1>1, <1>2, <1>3, <1>4, <2>1
  <2>2. CASE i \in 1 .. Len(queue)
    <3>1. Len(ran) + i \in 1 .. Len(pushed)
      BY <1>1, <1>4, <2>2
    <3> QED
      BY <1>1, <1>2, <1>3, <2>2, <3>1 DEF TakenInOrder
  <2>3. i = Len(queue) + 1 \/ i \in 1 .. Len(queue)
    BY <1>1, <1>2
  <2> QED
    BY <2>1, <2>2, <2>3
<1> QED
  BY <1>5, <1>6, <1>7 DEF TakenInOrder

(* A looper takes what was pushed first among what is left. *)
LEMMA PopOrder ==
    ASSUME TypeOK, TakenInOrder, NEW l \in Loopers, FetchPop(l)
    PROVE  /\ TakenInOrder'
           /\ Oldest \in Events
           /\ queue' \in Seq(Events) /\ ran' \in Seq(Events)
<1>1. /\ queue \in Seq(Events) /\ queue # <<>>
      /\ queue' = Tail(queue) /\ pushed' = pushed /\ pushed \in Seq(Events)
      /\ ran' = Append(ran, Head(queue)) /\ ran \in Seq(Events)
      /\ Len(queue) \in Nat /\ Len(pushed) \in Nat /\ Len(ran) \in Nat
  BY DEF FetchPop, TypeOK, Oldest, Remaining
<1>2. /\ Head(queue) \in Events /\ Head(queue) = queue[1]
      /\ queue' \in Seq(Events) /\ Len(queue') = Len(queue) - 1
      /\ \A i \in 1 .. Len(queue') : queue'[i] = queue[i + 1]
      /\ Len(queue) > 0
  BY <1>1, HeadTailProperties
<1>3. /\ ran' \in Seq(Events) /\ Len(ran') = Len(ran) + 1
      /\ \A i \in 1 .. Len(ran) : ran'[i] = ran[i]
      /\ ran'[Len(ran) + 1] = Head(queue)
  BY <1>1, <1>2, AppendProperties
<1>4. Len(pushed) = Len(ran) + Len(queue)
  BY DEF TakenInOrder
<1>5. Len(pushed') = Len(ran') + Len(queue')
  BY <1>1, <1>2, <1>3, <1>4
<1>6. ASSUME NEW i \in 1 .. Len(ran')
      PROVE  ran'[i] = pushed'[i]
  <2>1. CASE i = Len(ran) + 1
    <3>1. queue[1] = pushed[Len(ran) + 1]
      BY <1>1, <1>2 DEF TakenInOrder
    <3> QED
      BY <1>1, <1>2, <1>3, <2>1, <3>1
  <2>2. CASE i \in 1 .. Len(ran)
    BY <1>1, <1>3, <2>2 DEF TakenInOrder
  <2>3. i = Len(ran) + 1 \/ i \in 1 .. Len(ran)
    BY <1>1, <1>3
  <2> QED
    BY <2>1, <2>2, <2>3
<1>7. ASSUME NEW i \in 1 .. Len(queue')
      PROVE  queue'[i] = pushed'[Len(ran') + i]
  <2>1. i + 1 \in 1 .. Len(queue) /\ Len(ran) + (i + 1) = Len(ran') + i
    BY <1>1, <1>2, <1>3
  <2>2. queue[i + 1] = pushed[Len(ran) + (i + 1)]
    BY <2>1 DEF TakenInOrder
  <2> QED
    BY <1>1, <1>2, <2>1, <2>2
<1>8. TakenInOrder'
  BY <1>5, <1>6, <1>7 DEF TakenInOrder
<1> QED
  BY <1>2, <1>3, <1>8 DEF Oldest

(* Closing a category leaves a stack of events. *)
LEMMA CloseType ==
    ASSUME NEW c \in Seq(Events)
    PROVE  CloseCategory(c) \in Seq(Events)
<1>1. CASE c = <<>>
  BY <1>1 DEF CloseCategory
<1>2. CASE c # <<>>
  <2>1. Len(c) \in Nat /\ Len(c) > 0
    BY <1>2, EmptySeq, LenProperties
  <2>2. SubSeq(c, 1, Len(c) - 1) \in Seq(Events)
    BY <2>1, SubSeqProperties
  <2> QED
    BY <1>2, <2>2 DEF CloseCategory
<1> QED
  BY <1>1, <1>2

(* The stack and the flag after an event, whichever way it ended. *)
LEMMA ClosedType ==
    ASSUME TypeOK, NEW l \in Loopers, pc[l] = "run", Closed(l)
    PROVE  cats' \in Seq(Events) /\ logging' \in [Loopers -> BOOLEAN]
<1>1. cur[l] \in Events /\ cats \in Seq(Events)
  BY DEF TypeOK
<1>2. Acted(cur[l]) \in Seq(Events)
  <2>1. Append(cats, cur[l]) \in Seq(Events)
    BY <1>1
  <2>2. CloseCategory(cats) \in Seq(Events)
    BY <1>1, CloseType
  <2> QED
    BY <1>1, <2>1, <2>2 DEF Acted
<1>3. CloseCategory(Acted(cur[l])) \in Seq(Events)
  BY <1>2, CloseType
<1> QED
  BY <1>2, <1>3 DEF Closed, TypeOK

LEMMA InitIInv == Init => IInv
<1> SUFFICES ASSUME Init PROVE IInv
  OBVIOUS
<1>1. TypeOK
  BY DEF Init, TypeOK, LooperPC
<1>2. NoSleepWithWork /\ TakenInOrder
  BY DEF Init, NoSleepWithWork, TakenInOrder
<1> QED
  BY <1>1, <1>2 DEF IInv

LEMMA NextIInv == IInv /\ [Next]_vars => IInv'
<1> SUFFICES ASSUME IInv, [Next]_vars PROVE IInv'
  OBVIOUS
<1>0. TypeOK /\ NoSleepWithWork /\ TakenInOrder
  BY DEF IInv
<1>1. ASSUME NEW e \in Events, Push(e) PROVE IInv'
  <2>1. queue' \in Seq(Events) /\ pushed' \in Seq(Events)
    BY <1>0, <1>1 DEF Push, TypeOK
  <2>2. \A l \in Loopers : /\ pc'[l] # "wait"
                            /\ (pc'[l] = pc[l] \/ (pc'[l] = "woken" /\ pc[l] = "wait"))
    <3>1. pc' = [l \in Loopers |-> IF pc[l] = "wait" THEN "woken" ELSE pc[l]]
      BY <1>1 DEF Push, NotifyAll
    <3> QED
      BY <3>1
  <2>3. pc' \in [Loopers -> LooperPC]
    BY <1>0, <1>1 DEF Push, NotifyAll, TypeOK, LooperPC
  <2>4. \A l \in Loopers : cur'[l] = NoEvent <=> pc'[l] \notin {"start", "run"}
    BY <1>0, <1>1, <2>2 DEF Push, TypeOK
  <2>5. TypeOK'
    BY <1>0, <1>1, <2>1, <2>3, <2>4 DEF Push, TypeOK
  <2>6. NoSleepWithWork'
    BY <2>2 DEF NoSleepWithWork
  <2> QED
    BY <1>0, <1>1, <2>5, <2>6, PushOrder DEF IInv
<1>2. ASSUME NEW l \in Loopers, Enter(l) PROVE IInv'
  <2>1. TypeOK'
    BY <1>0, <1>2 DEF Enter, TypeOK, LooperPC
  <2>2. NoSleepWithWork'
    BY <1>0, <1>2 DEF Enter, TypeOK, NoSleepWithWork
  <2> QED
    BY <1>0, <1>2, <2>1, <2>2, SameOrder DEF IInv, Enter
<1>3. ASSUME NEW l \in Loopers, SpuriousWakeup(l) PROVE IInv'
  <2>1. TypeOK'
    BY <1>0, <1>3 DEF SpuriousWakeup, TypeOK, LooperPC
  <2>2. NoSleepWithWork'
    BY <1>0, <1>3 DEF SpuriousWakeup, TypeOK, NoSleepWithWork
  <2> QED
    BY <1>0, <1>3, <2>1, <2>2, SameOrder DEF IInv, SpuriousWakeup
<1>4. ASSUME NEW l \in Loopers, Loop(l) PROVE IInv'
  <2>1. CASE FetchWait(l)
    <3>1. TypeOK'
      BY <1>0, <2>1 DEF FetchWait, TypeOK, LooperPC
    <3>2. NoSleepWithWork'
      BY <1>0, <2>1 DEF FetchWait, TypeOK, NoSleepWithWork
    <3> QED
      BY <1>0, <2>1, <3>1, <3>2, SameOrder DEF IInv, FetchWait
  <2>2. CASE FetchPop(l)
    <3>1. /\ TakenInOrder' /\ Oldest \in Events
          /\ queue' \in Seq(Events) /\ ran' \in Seq(Events)
      BY <1>0, <2>2, PopOrder
    <3>2. Oldest # NoEvent
      BY <3>1, EventsAssumption
    <3>3. TypeOK'
      BY <1>0, <2>2, <3>1, <3>2 DEF FetchPop, TypeOK, LooperPC
    <3>4. \A x \in Loopers : pc[x] # "wait"
      BY <1>0, <2>2 DEF FetchPop, NoSleepWithWork
    <3>5. NoSleepWithWork'
      BY <1>0, <2>2, <3>4 DEF FetchPop, TypeOK, NoSleepWithWork
    <3> QED
      BY <3>1, <3>3, <3>5 DEF IInv
  <2>3. CASE FetchNothing(l)
    <3>1. TypeOK'
      BY <1>0, <2>3 DEF FetchNothing, TypeOK, LooperPC
    <3>2. NoSleepWithWork'
      BY <1>0, <2>3 DEF FetchNothing, TypeOK, NoSleepWithWork
    <3> QED
      BY <1>0, <2>3, <3>1, <3>2, SameOrder DEF IInv, FetchNothing
  <2>4. CASE Start(l)
    <3>1. cats' \in Seq(Events) /\ logging' \in [Loopers -> BOOLEAN]
      <4>1. /\ cur[l] \in Events /\ cats \in Seq(Events)
            /\ logging \in [Loopers -> BOOLEAN]
        BY <1>0, <2>4 DEF Start, TypeOK
      <4>2. Append(cats, cur[l]) \in Seq(Events)
        BY <4>1
      <4>3. \/ cats' = Append(cats, cur[l]) /\ logging' = [logging EXCEPT ![l] = TRUE]
            \/ cats' = cats /\ logging' = logging
        BY <2>4 DEF Start
      <4> QED
        BY <4>1, <4>2, <4>3
    <3>2. TypeOK'
      BY <1>0, <2>4, <3>1 DEF Start, TypeOK, LooperPC
    <3>3. NoSleepWithWork'
      BY <1>0, <2>4 DEF Start, TypeOK, NoSleepWithWork
    <3> QED
      BY <1>0, <2>4, <3>2, <3>3, SameOrder DEF IInv, Start
  <2>5. CASE Return(l)
    <3>1. cats' \in Seq(Events) /\ logging' \in [Loopers -> BOOLEAN]
      BY <1>0, <2>5, ClosedType DEF Return
    <3>2. TypeOK'
      BY <1>0, <2>5, <3>1 DEF Return, TypeOK, LooperPC
    <3>3. NoSleepWithWork'
      BY <1>0, <2>5 DEF Return, TypeOK, NoSleepWithWork
    <3> QED
      BY <1>0, <2>5, <3>2, <3>3, SameOrder DEF IInv, Return
  <2>6. CASE Throw(l)
    <3>1. cats' \in Seq(Events) /\ logging' \in [Loopers -> BOOLEAN]
      BY <1>0, <2>6, ClosedType DEF Throw
    <3>2. TypeOK'
      BY <1>0, <2>6, <3>1 DEF Throw, TypeOK, LooperPC
    <3>3. NoSleepWithWork'
      BY <1>0, <2>6 DEF Throw, TypeOK, NoSleepWithWork
    <3> QED
      BY <1>0, <2>6, <3>2, <3>3, SameOrder DEF IInv, Throw
  <2>7. CASE Leave(l)
    <3>1. TypeOK'
      BY <1>0, <2>7 DEF Leave, TypeOK, LooperPC
    <3>2. NoSleepWithWork'
      BY <1>0, <2>7 DEF Leave, TypeOK, NoSleepWithWork
    <3> QED
      BY <1>0, <2>7, <3>1, <3>2, SameOrder DEF IInv, Leave
  <2> QED
    BY <1>4, <2>1, <2>2, <2>3, <2>4, <2>5, <2>6, <2>7 DEF Loop
<1>5. CASE UNCHANGED vars
  BY <1>0, <1>5 DEF vars, IInv, TypeOK, NoSleepWithWork, TakenInOrder
<1> QED
  BY <1>1, <1>2, <1>3, <1>4, <1>5 DEF Next

LEMMA SpecIInv == Spec => []IInv
<1>1. Init => IInv
  BY InitIInv
<1>2. IInv /\ [Next]_vars => IInv'
  BY NextIInv
<1> QED
  BY <1>1, <1>2, PTL DEF Spec
-----------------------------------------------------------------------------
(* No thread inside Enter() ever sleeps on an event that was pushed. *)
THEOREM WakeupsCorrect == Spec => []NoSleepWithWork
<1>1. IInv => NoSleepWithWork
  BY DEF IInv
<1> QED
  BY <1>1, SpecIInv, PTL

(* Events are taken in the order they were pushed, each exactly once. *)
THEOREM OrderCorrect == Spec => []TakenInOrder
<1>1. IInv => TakenInOrder
  BY DEF IInv
<1> QED
  BY <1>1, SpecIInv, PTL
-----------------------------------------------------------------------------
(* Only start-up calls Enter() (scheduler/src/Scheduler.cpp:121); with two   *)
(* threads inside, each would close the braces of the other.               *)
OneLooper == \A l, m \in Loopers : l = m

(* `logging' is TRUE only while a named event runs, and its brace is then  *)
(* the last one opened.                                                    *)
Braces ==
    clean => \A l \in Loopers :
        logging[l] => /\ pc[l] = "run"
                      /\ cats # <<>> /\ cats[Len(cats)] = cur[l] /\ Named(cur[l])

LEMMA BracesStep ==
    ASSUME OneLooper, TypeOK, Braces, [Next]_vars
    PROVE  Braces'
<1> USE DEF Braces
<1>1. CASE UNCHANGED vars
  BY <1>1 DEF vars
<1>2. ASSUME NEW e \in Events, Push(e) PROVE Braces'
  <2>1. \A l \in Loopers : pc[l] = "run" => pc'[l] = "run"
    <3>1. pc' = [l \in Loopers |-> IF pc[l] = "wait" THEN "woken" ELSE pc[l]]
      BY <1>2 DEF Push, NotifyAll
    <3> QED
      BY <3>1
  <2> QED
    BY <1>2, <2>1 DEF Push
<1>3. ASSUME NEW l \in Loopers, Enter(l) PROVE Braces'
  <2>1. /\ clean' => clean /\ logging'[l] = FALSE
        /\ cats' = cats /\ cur' = cur
        /\ \A m \in Loopers : m = l
    BY <1>3 DEF Enter, OneLooper, TypeOK
  <2> QED
    BY <2>1
<1>4. ASSUME NEW l \in Loopers,
             \/ SpuriousWakeup(l) \/ FetchWait(l) \/ FetchPop(l)
             \/ FetchNothing(l) \/ Leave(l)
      PROVE  Braces'
  <2>1. /\ pc[l] # "run" /\ clean' = clean /\ logging' = logging
        /\ \A m \in Loopers : m = l
    BY <1>4 DEF SpuriousWakeup, FetchWait, FetchPop, FetchNothing, Leave, OneLooper
  <2> QED
    BY <2>1
<1>5. ASSUME NEW l \in Loopers, Start(l) PROVE Braces'
  <2>1. /\ pc[l] = "start" /\ pc'[l] = "run" /\ cur' = cur /\ clean' = clean
        /\ cur[l] \in Events /\ cats \in Seq(Events) /\ logging \in [Loopers -> BOOLEAN]
        /\ \A m \in Loopers : m = l
    BY <1>5 DEF Start, TypeOK, OneLooper
  <2>2. CASE Named(cur[l]) /\ VerbEvent
    <3>1. cats' = Append(cats, cur[l])
      BY <1>5, <2>2 DEF Start
    <3>2. cats' # <<>> /\ cats'[Len(cats')] = cur[l]
      BY <2>1, <3>1, AppendProperties
    <3> QED
      BY <2>1, <2>2, <3>2
  <2>3. CASE ~(Named(cur[l]) /\ VerbEvent)
    BY <1>5, <2>1, <2>3 DEF Start
  <2> QED
    BY <2>2, <2>3
<1>6. ASSUME NEW l \in Loopers, Return(l) \/ Throw(l) PROVE Braces'
  <2>1. logging' = [logging EXCEPT ![l] = FALSE] /\ \A m \in Loopers : m = l
    BY <1>6 DEF Return, Throw, Closed, OneLooper
  <2> QED
    BY <2>1 DEF TypeOK
<1> QED
  BY <1>1, <1>2, <1>3, <1>4, <1>5, <1>6 DEF Next, Loop

(* The brace enter() closes is the one it opened for the event, whether a  *)
(* named event returns or throws (a FlowController of Terminate(), caught  *)
(* at Event.cpp:86), in this Enter() and in the ones after it, as long as  *)
(* `logging' was FALSE when Enter() read it.                               *)
THEOREM BracesCorrect == OneLooper => (Spec => []OwnBraceClosed)
<1> SUFFICES ASSUME OneLooper PROVE Spec => []OwnBraceClosed
  OBVIOUS
<1>1. Init => Braces
  BY DEF Init, Braces
<1>2. IInv /\ Braces /\ [Next]_vars => Braces'
  BY BracesStep DEF IInv
<1>3. Braces => OwnBraceClosed
  BY DEF Braces, OwnBraceClosed
<1> QED
  BY <1>1, <1>2, <1>3, SpecIInv, PTL DEF Spec
-----------------------------------------------------------------------------
(* The log.  Its buffer, events and file are compared as one text, so that *)
(* the proof needs what FlattenSeq and OwnPieces do with a longer text;    *)
(* both recurse on its length.  Induction on a length is by the smallest   *)
(* counterexample: a set of numbers that is not empty has a least member.  *)
LEMMA Least ==
    ASSUME NEW P \in SUBSET Nat, P # {}
    PROVE  \E m \in P : \A n \in P : m <= n
<1>1. PICK m \in P : \A n \in P : ~ (<<n, m>> \in OpToRel(<, Nat))
  BY NatLessThanWellFounded, WFMin, Zenon
<1>2. \A n \in P : ~ (n < m)
  BY <1>1 DEF OpToRel
<1> QED
  BY <1>2

(* Two functions with the same start and the same steps are equal. *)
LEMMA SameSteps ==
    ASSUME NEW N \in Nat, NEW f, NEW g, f[0] = g[0],
           \A i \in 1 .. N : f[i - 1] = g[i - 1] => f[i] = g[i]
    PROVE  \A i \in 0 .. N : f[i] = g[i]
<1> DEFINE bad == {i \in 0 .. N : f[i] # g[i]}
<1> SUFFICES ASSUME bad # {} PROVE FALSE
  OBVIOUS
<1>1. bad \in SUBSET Nat
  OBVIOUS
<1> HIDE DEF bad
<1>2. PICK m \in bad : \A n \in bad : m <= n
  BY <1>1, Least
<1>3. m \in 0 .. N /\ f[m] # g[m]
  BY <1>2 DEF bad
<1>4. m # 0 /\ m \in 1 .. N /\ m - 1 \in 0 .. N
  BY <1>3
<1>5. m - 1 \notin bad
  BY <1>2, <1>4
<1>6. f[m - 1] = g[m - 1]
  BY <1>4, <1>5 DEF bad
<1> QED
  BY <1>3, <1>4, <1>6

(* f is the recursive function on 0 .. N with these values. *)
Recursive(f, N, S, base, step) ==
    /\ f \in [0 .. N -> S]
    /\ f[0] = base
    /\ \A i \in 1 .. N : f[i] = step[<<i, f[i - 1]>>]

(* It exists. *)
LEMMA Recursion ==
    ASSUME NEW N \in Nat, NEW S, NEW base \in S, NEW step \in [(1 .. N) \X S -> S]
    PROVE  \E f : Recursive(f, N, S, base, step)
<1> USE DEF Recursive
<1> DEFINE R(n, f) == f[0] = base /\ \A i \in 1 .. n : f[i] = step[<<i, f[i - 1]>>]
           bad == {n \in 0 .. N : ~ \E f \in [0 .. n -> S] : R(n, f)}
<1> SUFFICES ASSUME bad # {} PROVE FALSE
  OBVIOUS
<1>1. bad \in SUBSET Nat
  OBVIOUS
<1> HIDE DEF bad
<1>2. PICK m \in bad : \A n \in bad : m <= n
  BY <1>1, Least
<1>3. m \in 0 .. N /\ ~ \E f \in [0 .. m -> S] : R(m, f)
  BY <1>2 DEF bad
<1>4. CASE m = 0
  <2>1. [i \in 0 .. 0 |-> base] \in [0 .. 0 -> S] /\ R(0, [i \in 0 .. 0 |-> base])
    OBVIOUS
  <2> QED
    BY <1>3, <1>4, <2>1
<1>5. CASE m # 0
  <2>1. m \in 1 .. N /\ m - 1 \in 0 .. N /\ m - 1 \notin bad
    BY <1>2, <1>3, <1>5
  <2>2. PICK f \in [0 .. (m - 1) -> S] : R(m - 1, f)
    BY <2>1 DEF bad
  <2>3. f[m - 1] \in S
    BY <2>1
  <2> DEFINE x == step[<<m, f[m - 1]>>]
             g == [i \in 0 .. m |-> IF i = m THEN x ELSE f[i]]
  <2>4. x \in S
    BY <2>1, <2>3
  <2>5. g \in [0 .. m -> S]
    BY <2>1, <2>4
  <2>6. \A i \in 0 .. (m - 1) : g[i] = f[i]
    BY <2>1
  <2>7. g[m] = x
    BY <2>1
  <2> HIDE DEF g
  <2>8. R(m, g)
    <3>1. g[0] = base
      BY <2>1, <2>2, <2>6
    <3>2. ASSUME NEW i \in 1 .. m PROVE g[i] = step[<<i, g[i - 1]>>]
      <4>1. CASE i = m
        BY <2>1, <2>6, <2>7, <4>1
      <4>2. CASE i # m
        <5>1. i \in 1 .. (m - 1) /\ i \in 0 .. (m - 1) /\ i - 1 \in 0 .. (m - 1)
          BY <2>1, <4>2
        <5> QED
          BY <2>2, <2>6, <5>1
      <4> QED
        BY <4>1, <4>2
    <3> QED
      BY <3>1, <3>2
  <2> QED
    BY <1>3, <2>5, <2>8
<1> QED
  BY <1>4, <1>5

(* Associativity, of what is joined to one sequence, ...                   *)
LEMMA JoinedBefore ==
    ASSUME NEW S, NEW h \in Seq(S)
    PROVE  \A u, v \in Seq(S) : (h \o u) \o v = h \o (u \o v)
<1> TAKE u, v \in Seq(S)
<1> QED
  BY ConcatAssociative

(* ... and of sequences that have names                                    *)
LEMMA Regroup ==
    ASSUME NEW S, NEW a, NEW b, NEW c, a \in Seq(S), b \in Seq(S), c \in Seq(S),
           NEW x, NEW y, x = b \o c, y = a \o b
    PROVE  y \o c = a \o x
<1>1. (a \o b) \o c = a \o (b \o c)
  BY ConcatAssociative
<1> QED
  BY <1>1, Zenon

(* f lists the prefixes of q, flattened. *)
Flattens(f, q, S) ==
    /\ f \in [0 .. Len(q) -> Seq(S)]
    /\ f[0] = <<>>
    /\ \A i \in 1 .. Len(q) : f[i] = f[i - 1] \o q[i]

(* There is such a list, ...                                               *)
LEMMA Flattening ==
    ASSUME NEW S, NEW q \in Seq(Seq(S))
    PROVE  \E f : Flattens(f, q, S)
<1>0. PICK N : N = Len(q) /\ N \in Nat
  OBVIOUS
<1> DEFINE step == [p \in (1 .. N) \X Seq(S) |-> p[2] \o q[p[1]]]
<1>1. <<>> \in Seq(S)
  BY EmptySeq
<1>2. \A p \in (1 .. N) \X Seq(S) : p[2] \o q[p[1]] \in Seq(S)
  <2> TAKE p \in (1 .. N) \X Seq(S)
  <2>1. PICK a, b : a = p[2] /\ b = q[p[1]] /\ a \in Seq(S) /\ b \in Seq(S)
    BY <1>0, ElementOfSeq
  <2>2. a \o b \in Seq(S)
    BY <2>1, ConcatProperties
  <2> QED
    BY <2>1, <2>2
<1>3. step \in [(1 .. N) \X Seq(S) -> Seq(S)]
  BY <1>2
<1>4. \A i \in 1 .. N : \A x \in Seq(S) : step[<<i, x>>] = x \o q[i]
  OBVIOUS
<1> HIDE DEF step
<1>5. PICK f \in [0 .. N -> Seq(S)] :
         f[0] = <<>> /\ \A i \in 1 .. N : f[i] = step[<<i, f[i - 1]>>]
  <2>1. PICK T, e : T = Seq(S) /\ e = <<>> /\ e \in T
    BY <1>1
  <2>2. step \in [(1 .. N) \X T -> T]
    BY <1>3, <2>1
  <2>3. \E f : Recursive(f, N, T, e, step)
    BY <1>0, <2>1, <2>2, Recursion
  <2> QED
    BY <2>1, <2>3 DEF Recursive
<1>6. \A i \in 1 .. N : f[i] = f[i - 1] \o q[i]
  <2> TAKE i \in 1 .. N
  <2>1. i - 1 \in 0 .. N
    BY <1>0
  <2> QED
    BY <1>4, <1>5, <2>1
<1> QED
  BY <1>0, <1>5, <1>6 DEF Flattens

(* ... and FlattenSeq is its last element.                                 *)
LEMMA FlattenIs ==
    ASSUME NEW S, NEW q \in Seq(Seq(S)), NEW f, Flattens(f, q, S)
    PROVE  FlattenSeq(q) = f[Len(q)]
<1>0. Len(q) \in Nat
  OBVIOUS
<1>1. CASE Len(q) = 0
  <2>1. q = <<>>
    BY <1>1, EmptySeq
  <2> QED
    BY <1>1, <2>1 DEF FlattenSeq, Flattens
<1>2. CASE Len(q) # 0
  <2> DEFINE Is(g) == g = [i \in 1 .. Len(q) |-> IF i = 1 THEN q[i] ELSE g[i - 1] \o q[i]]
             h == [i \in 1 .. Len(q) |-> f[i]]
  <2>1. Is(h)
    <3>1. ASSUME NEW i \in 1 .. Len(q)
          PROVE  h[i] = IF i = 1 THEN q[i] ELSE h[i - 1] \o q[i]
      <4>1. CASE i = 1
        <5>1. f[1] = <<>> \o q[1]
          <6>1. f[i] = f[i - 1] \o q[i] /\ f[0] = <<>>
            BY DEF Flattens
          <6>2. i - 1 = 0
            BY <4>1
          <6> QED
            BY <4>1, <6>1, <6>2, Zenon
        <5>2. q[1] \in Seq(S)
          BY <4>1, ElementOfSeq
        <5>3. <<>> \o q[1] = q[1]
          BY <5>2, ConcatEmptySeq
        <5> QED
          BY <4>1, <5>1, <5>3
      <4>2. CASE i # 1
        <5>1. i - 1 \in 1 .. Len(q)
          BY <1>0, <4>2
        <5> QED
          BY <4>2, <5>1 DEF Flattens
      <4> QED
        BY <4>1, <4>2
    <3> QED
      BY <3>1
  <2> HIDE DEF h
  <2>2. PICK g : g = (CHOOSE x : Is(x)) /\ FlattenSeq(q) = g[Len(q)]
    BY <1>2 DEF FlattenSeq
  <2>3. Is(g)
    BY <2>1, <2>2
  <2> DEFINE k == [i \in 0 .. Len(q) |-> IF i = 0 THEN <<>> ELSE g[i]]
  <2>4. \A i \in 1 .. Len(q) : g[i] = IF i = 1 THEN q[i] ELSE g[i - 1] \o q[i]
    BY <2>3
  <2>5. ASSUME NEW i \in 1 .. Len(q), f[i - 1] = k[i - 1]
        PROVE  f[i] = k[i]
    <3>0. k[i] = g[i]
      OBVIOUS
    <3>1. k[i] = g[i] /\ f[i] = f[i - 1] \o q[i]
      BY <3>0, Zenon DEF Flattens
    <3>2. CASE i = 1
      <4>1. q[1] \in Seq(S)
        BY <3>2, ElementOfSeq
      <4>2. <<>> \o q[1] = q[1]
        BY <4>1, ConcatEmptySeq
      <4>3. f[i - 1] = <<>>
        BY <3>2 DEF Flattens
      <4> QED
        BY <2>4, <3>1, <3>2, <4>2, <4>3
    <3>3. CASE i # 1
      <4>1. i - 1 \in 0 .. Len(q) /\ i - 1 # 0
        BY <1>0, <3>3
      <4>2. k[i - 1] = g[i - 1]
        BY <4>1
      <4> QED
        BY <2>4, <2>5, <3>1, <3>3, <4>2
    <3> QED
      BY <3>2, <3>3
  <2>6. f[0] = k[0]
    BY <1>0 DEF Flattens
  <2>7. k[Len(q)] = g[Len(q)]
    BY <1>0, <1>2
  <2> HIDE DEF k
  <2>8. f[Len(q)] = k[Len(q)]
    <3>1. \A i \in 1 .. Len(q) : f[i - 1] = k[i - 1] => f[i] = k[i]
      BY <2>5
    <3>2. \A i \in 0 .. Len(q) : f[i] = k[i]
      BY <1>0, <2>6, <3>1, SameSteps, Zenon
    <3> QED
      BY <1>0, <3>2
  <2> QED
    BY <2>2, <2>7, <2>8
<1> QED
  BY <1>1, <1>2

LEMMA FlattenType ==
    ASSUME NEW S, NEW q \in Seq(Seq(S))
    PROVE  FlattenSeq(q) \in Seq(S)
<1>1. PICK f : Flattens(f, q, S)
  BY Flattening
<1>2. f[Len(q)] \in Seq(S)
  BY <1>1 DEF Flattens
<1> QED
  BY <1>1, <1>2, FlattenIs

LEMMA FlattenEmpty == FlattenSeq(<<>>) = <<>>
  BY DEF FlattenSeq

(* A sequence is flattened from its end, ...                               *)
LEMMA FlattenAppend ==
    ASSUME NEW S, NEW q \in Seq(Seq(S)), NEW x \in Seq(S)
    PROVE  FlattenSeq(Append(q, x)) = FlattenSeq(q) \o x
<1>1. PICK f : Flattens(f, q, S)
  BY Flattening
<1>2. PICK r : r = Append(q, x)
  OBVIOUS
<1>3. /\ r \in Seq(Seq(S)) /\ Len(r) = Len(q) + 1 /\ r[Len(q) + 1] = x
      /\ \A i \in 1 .. Len(q) : r[i] = q[i]
      /\ Len(q) \in Nat
  BY <1>2, AppendProperties
<1>4. f[Len(q)] \in Seq(S) /\ f[Len(q)] \o x \in Seq(S)
  <2>1. PICK a : a = f[Len(q)] /\ a \in Seq(S)
    BY <1>1, <1>3 DEF Flattens
  <2>2. a \o x \in Seq(S)
    BY <2>1, ConcatProperties
  <2> QED
    BY <2>1, <2>2
<1> DEFINE g == [i \in 0 .. Len(r) |-> IF i = Len(r) THEN f[Len(q)] \o x ELSE f[i]]
<1>5. Flattens(g, r, S)
  <2>1. g \in [0 .. Len(r) -> Seq(S)]
    BY <1>1, <1>3, <1>4 DEF Flattens
  <2>2. g[0] = <<>>
    BY <1>1, <1>3 DEF Flattens
  <2>3. ASSUME NEW i \in 1 .. Len(r) PROVE g[i] = g[i - 1] \o r[i]
    <3>1. CASE i = Len(r)
      <4>1. g[i] = f[Len(q)] \o x
        BY <3>1
      <4>2. g[i - 1] = f[Len(q)] /\ r[i] = x
        BY <1>3, <3>1
      <4> QED
        BY <4>1, <4>2, Zenon
    <3>2. CASE i # Len(r)
      <4>1. i \in 1 .. Len(q) /\ g[i] = f[i] /\ g[i - 1] = f[i - 1]
        BY <1>3, <3>2
      <4> QED
        BY <1>1, <1>3, <4>1 DEF Flattens
    <3> QED
      BY <3>1, <3>2
  <2> HIDE DEF g
  <2> QED
    BY <2>1, <2>2, <2>3 DEF Flattens
<1>6. FlattenSeq(r) = g[Len(r)]
  BY <1>3, <1>5, FlattenIs
<1>7. g[Len(r)] = f[Len(q)] \o x
  BY <1>3
<1>8. FlattenSeq(q) = f[Len(q)]
  BY <1>1, FlattenIs
<1> QED
  BY <1>2, <1>6, <1>7, <1>8

(* ... and from its start.                                                 *)
LEMMA FlattenHead ==
    ASSUME NEW S, NEW q \in Seq(Seq(S)), q # <<>>
    PROVE  FlattenSeq(q) = Head(q) \o FlattenSeq(Tail(q))
<1>1. PICK h, t : h = Head(q) /\ t = Tail(q)
  OBVIOUS
<1>2. /\ h \in Seq(S) /\ t \in Seq(Seq(S)) /\ Len(t) = Len(q) - 1 /\ h = q[1]
      /\ \A i \in 1 .. Len(t) : t[i] = q[i + 1]
      /\ Len(q) \in Nat /\ Len(q) # 0
  BY <1>1, HeadTailProperties, EmptySeq
<1>3. PICK f : Flattens(f, t, S)
  BY <1>2, Flattening
<1>4. f \in [0 .. Len(t) -> Seq(S)]
  BY <1>3 DEF Flattens
<1> DEFINE g == [i \in 0 .. Len(q) |-> IF i = 0 THEN <<>> ELSE h \o f[i - 1]]
<1>5. \A i \in 1 .. Len(q) : f[i - 1] \in Seq(S) /\ h \o f[i - 1] \in Seq(S)
  <2> TAKE i \in 1 .. Len(q)
  <2>0. i - 1 \in 0 .. Len(t)
    BY <1>2
  <2>1. PICK a : a = f[i - 1] /\ a \in Seq(S)
    BY <1>4, <2>0
  <2>2. h \o a \in Seq(S)
    BY <1>2, <2>1, ConcatProperties
  <2> QED
    BY <2>1, <2>2
<1>6. \A u, v \in Seq(S) : (h \o u) \o v = h \o (u \o v)
  <2>1. h \in Seq(S)
    BY <1>2
  <2> QED
    BY <2>1, JoinedBefore
<1>7. Flattens(g, q, S)
  <2>1. g \in [0 .. Len(q) -> Seq(S)]
    BY <1>5, EmptySeq
  <2>2. g[0] = <<>>
    BY <1>2
  <2>3. ASSUME NEW i \in 1 .. Len(q) PROVE g[i] = g[i - 1] \o q[i]
    <3>0. g[i] = h \o f[i - 1]
      OBVIOUS
    <3>1. CASE i = 1
      <4>1. g[i - 1] = <<>> /\ f[i - 1] = <<>>
        BY <1>2, <1>3, <3>1 DEF Flattens
      <4>2. <<>> \o h = h /\ h \o <<>> = h
        BY <1>2, ConcatEmptySeq
      <4> QED
        BY <1>2, <3>0, <3>1, <4>1, <4>2
    <3>2. CASE i # 1
      <4>0. i - 1 \in 1 .. Len(t) /\ i - 1 \in 0 .. Len(q) /\ i - 1 # 0
            /\ (i - 1) - 1 \in 0 .. Len(t)
        BY <1>2, <3>2
      <4>9. t[i - 1] = q[i]
        BY <1>2, <4>0
      <4>1. i - 1 \in 1 .. Len(t) /\ g[i - 1] = h \o f[(i - 1) - 1] /\ t[i - 1] = q[i]
        BY <4>0, <4>9
      <4>2. f[i - 1] = f[(i - 1) - 1] \o t[i - 1]
        BY <1>3, <4>1 DEF Flattens
      <4>3. PICK a, b : a = f[(i - 1) - 1] /\ b = t[i - 1] /\ a \in Seq(S) /\ b \in Seq(S)
        <5>1. t[i - 1] \in Seq(S)
          BY <1>2, <4>0, ElementOfSeq
        <5> QED
          BY <1>4, <4>0, <5>1
      <4>4. PICK x, y : x = a \o b /\ y = h \o a
        OBVIOUS
      <4>5. y \o b = h \o x
        <5>1. h \in Seq(S) /\ a \in Seq(S) /\ b \in Seq(S)
          BY <1>2, <4>3
        <5> QED
          BY <4>4, <5>1, <1>6, Zenon
      <4>6. g[i] = h \o x /\ g[i - 1] = y /\ q[i] = b
        BY <3>0, <4>1, <4>2, <4>3, <4>4, Zenon
      <4> QED
        BY <4>5, <4>6, Zenon
    <3> QED
      BY <3>1, <3>2
  <2> HIDE DEF g
  <2> QED
    BY <2>1, <2>2, <2>3 DEF Flattens
<1>10. g[Len(q)] = h \o f[Len(t)]
  <2>1. Len(q) \in 0 .. Len(q) /\ Len(q) # 0 /\ Len(q) - 1 = Len(t)
    BY <1>2
  <2>2. g[Len(q)] = h \o f[Len(q) - 1]
    BY <2>1
  <2> QED
    BY <2>1, <2>2, Zenon
<1>8. FlattenSeq(q) = g[Len(q)]
  BY <1>7, FlattenIs
<1>9. FlattenSeq(t) = f[Len(t)]
  BY <1>2, <1>3, FlattenIs
<1> QED
  BY <1>1, <1>10, <1>8, <1>9

LEMMA ConcatAppend ==
    ASSUME NEW S, NEW a, NEW x, NEW e, a \in Seq(S), x \in Seq(S), e \in S
    PROVE  a \o Append(x, e) = Append(a \o x, e)
<1>1. PICK c, d, y : c = <<e>> /\ d = a \o x /\ y = x \o c
  OBVIOUS
<1>2. c \in Seq(S) /\ d \in Seq(S)
  <2>1. a \o x \in Seq(S)
    BY ConcatProperties
  <2> QED
    BY <1>1, <2>1
<1>3. y = Append(x, e) /\ d \o c = Append(d, e)
  BY <1>1, <1>2, AppendIsConcat
<1>4. d \o c = a \o y
  BY <1>1, <1>2, Regroup
<1> QED
  BY <1>1, <1>3, <1>4, Zenon

(* One more piece of b at the end of a \o b *)
LEMMA ConcatGrows ==
    ASSUME NEW S, NEW a \in Seq(S), NEW b \in Seq(S), NEW k \in 1 .. Len(b),
           NEW x, NEW y, x = SubSeq(b, 1, k - 1), y = SubSeq(b, 1, k)
    PROVE  /\ x \in Seq(S) /\ y \in Seq(S) /\ b[k] \in S
           /\ a \o y = Append(a \o x, b[k])
<1>1. Len(b) \in Nat /\ b[k] \in S
  BY ElementOfSeq
<1>2. x \in Seq(S)
  <2>1. 1 \in Int /\ k - 1 \in Int /\ \A i \in 1 .. (k - 1) : b[i] \in S
    BY <1>1, ElementOfSeq
  <2> QED
    BY <2>1, SubSeqProperties
<1>3. y \in Seq(S)
  <2>1. 1 \in Int /\ k \in Int /\ \A i \in 1 .. k : b[i] \in S
    BY <1>1, ElementOfSeq
  <2> QED
    BY <2>1, SubSeqProperties
<1>4. y = x \o <<b[k]>>
  <2>1. 1 \in 1 .. Len(b) /\ k \in 1 .. Len(b)
    BY <1>1
  <2> QED
    BY <2>1, SubSeqRecursiveSecond
<1>5. y = Append(x, b[k])
  BY <1>1, <1>2, <1>4, AppendIsConcat
<1>6. PICK e : e = b[k] /\ e \in S
  BY <1>1
<1>7. a \o Append(x, e) = Append(a \o x, e)
  BY <1>2, <1>6, ConcatAppend
<1> QED
  BY <1>1, <1>2, <1>3, <1>5, <1>6, <1>7, Zenon
-----------------------------------------------------------------------------
(* f picks the pieces of w from the prefixes of text. *)
Picks(f, text, w, S) ==
    /\ f \in [0 .. Len(text) -> Seq(S)]
    /\ f[0] = <<>>
    /\ \A i \in 1 .. Len(text) :
          f[i] = IF text[i][1] = w THEN Append(f[i - 1], text[i]) ELSE f[i - 1]

(* There is such a list, ...                                               *)
LEMMA Picking ==
    ASSUME NEW S, NEW text \in Seq(S), NEW w
    PROVE  \E f : Picks(f, text, w, S)
<1>1. PICK N, T, e : N = Len(text) /\ N \in Nat /\ T = Seq(S) /\ e = <<>> /\ e \in T
  BY EmptySeq
<1> DEFINE step == [p \in (1 .. N) \X T |->
                      IF text[p[1]][1] = w THEN Append(p[2], text[p[1]]) ELSE p[2]]
<1>2. step \in [(1 .. N) \X T -> T]
  <2>1. ASSUME NEW p \in (1 .. N) \X T PROVE Append(p[2], text[p[1]]) \in T /\ p[2] \in T
    <3>1. PICK a, b : a = p[2] /\ b = text[p[1]] /\ a \in Seq(S) /\ b \in S
      BY <1>1, ElementOfSeq
    <3>2. Append(a, b) \in Seq(S)
      BY <3>1, AppendProperties
    <3> QED
      BY <1>1, <3>1, <3>2
  <2> QED
    BY <2>1
<1>3. \A i \in 1 .. N : \A x \in T :
         step[<<i, x>>] = IF text[i][1] = w THEN Append(x, text[i]) ELSE x
  OBVIOUS
<1> HIDE DEF step
<1>4. PICK f : Recursive(f, N, T, e, step)
  BY <1>1, <1>2, Recursion
<1>5. ASSUME NEW i \in 1 .. N
      PROVE  f[i] = IF text[i][1] = w THEN Append(f[i - 1], text[i]) ELSE f[i - 1]
  <2>1. i - 1 \in 0 .. N
    BY <1>1
  <2>2. f[i - 1] \in T /\ f[i] = step[<<i, f[i - 1]>>]
    BY <1>4, <2>1 DEF Recursive
  <2> QED
    BY <1>3, <2>2
<1> QED
  BY <1>1, <1>4, <1>5 DEF Picks, Recursive

(* ... and OwnPieces is its last element.                                  *)
LEMMA OwnPiecesIs ==
    ASSUME NEW S, NEW text \in Seq(S), NEW w, NEW f, Picks(f, text, w, S)
    PROVE  OwnPieces(text, w) = f[Len(text)]
<1>0. Len(text) \in Nat
  OBVIOUS
<1> DEFINE Is(g) == g = [i \in 0 .. Len(text) |->
                           IF i = 0 THEN <<>>
                           ELSE IF text[i][1] = w THEN Append(g[i - 1], text[i]) ELSE g[i - 1]]
<1>1. Is(f)
  <2>1. ASSUME NEW i \in 0 .. Len(text)
        PROVE  f[i] = IF i = 0 THEN <<>>
                      ELSE IF text[i][1] = w THEN Append(f[i - 1], text[i]) ELSE f[i - 1]
    <3>1. i = 0 \/ i \in 1 .. Len(text)
      BY <1>0
    <3> QED
      BY <3>1 DEF Picks
  <2>2. f \in [0 .. Len(text) -> Seq(S)]
    BY DEF Picks
  <2> QED
    BY <2>1, <2>2
<1>2. PICK g : g = (CHOOSE x : Is(x)) /\ OwnPieces(text, w) = g[Len(text)]
  BY DEF OwnPieces
<1>3. Is(g)
  BY <1>1, <1>2
<1>4. \A i \in 0 .. Len(text) :
         g[i] = IF i = 0 THEN <<>>
                ELSE IF text[i][1] = w THEN Append(g[i - 1], text[i]) ELSE g[i - 1]
  BY <1>3
<1>5. \A i \in 1 .. Len(text) : f[i - 1] = g[i - 1] => f[i] = g[i]
  <2> TAKE i \in 1 .. Len(text)
  <2>1. i \in 0 .. Len(text) /\ i # 0
    BY <1>0
  <2> QED
    BY <1>4, <2>1 DEF Picks
<1>6. f[0] = g[0]
  BY <1>0, <1>4 DEF Picks
<1>7. \A i \in 0 .. Len(text) : f[i] = g[i]
  BY <1>0, <1>5, <1>6, SameSteps, Zenon
<1> QED
  BY <1>0, <1>2, <1>7

LEMMA OwnPiecesType ==
    ASSUME NEW S, NEW text \in Seq(S), NEW w
    PROVE  OwnPieces(text, w) \in Seq(S)
<1>1. PICK f : Picks(f, text, w, S)
  BY Picking
<1>2. f[Len(text)] \in Seq(S)
  BY <1>1 DEF Picks
<1> QED
  BY <1>1, <1>2, OwnPiecesIs

(* Text of w at the end of a text is picked as it is. *)
LEMMA OwnPiecesConcat ==
    ASSUME NEW S, NEW text \in Seq(S), NEW w, NEW b \in Seq(S),
           \A i \in 1 .. Len(b) : b[i][1] = w
    PROVE  OwnPieces(text \o b, w) = OwnPieces(text, w) \o b
<1>1. PICK f : Picks(f, text, w, S)
  BY Picking
<1>2. PICK r, n, m : r = text \o b /\ n = Len(text) /\ m = Len(b)
  OBVIOUS
<1>3. /\ r \in Seq(S) /\ Len(r) = n + m /\ n \in Nat /\ m \in Nat
      /\ \A i \in 1 .. n : r[i] = text[i]
      /\ \A i \in 1 .. m : r[n + i] = b[i]
  <2>1. /\ text \o b \in Seq(S) /\ Len(text \o b) = Len(text) + Len(b)
        /\ \A i \in 1 .. Len(text) + Len(b) :
              (text \o b)[i] = IF i <= Len(text) THEN text[i] ELSE b[i - Len(text)]
    BY ConcatProperties, Zenon
  <2>2. \A i \in 1 .. n + m : r[i] = IF i <= n THEN text[i] ELSE b[i - n]
    BY <1>2, <2>1, Zenon
  <2>3. n \in Nat /\ m \in Nat
    BY <1>2
  <2>4. \A i \in 1 .. n : r[i] = text[i]
    BY <2>2, <2>3
  <2>5. \A i \in 1 .. m : r[n + i] = b[i]
    <3> TAKE i \in 1 .. m
    <3>1. n + i \in 1 .. n + m /\ ~ (n + i <= n) /\ (n + i) - n = i
      BY <2>3
    <3> QED
      BY <2>2, <3>1
  <2> QED
    BY <1>2, <2>1, <2>3, <2>4, <2>5, Zenon
<1>4. PICK a : a = f[n] /\ a \in Seq(S)
  BY <1>1, <1>2, <1>3 DEF Picks
<1> DEFINE sub(k) == SubSeq(b, 1, k)
           g == [i \in 0 .. Len(r) |-> IF i <= n THEN f[i] ELSE a \o sub(i - n)]
<1>5. \A k \in 1 .. m : /\ a \o sub(k) \in Seq(S)
                        /\ a \o sub(k) = Append(a \o sub(k - 1), b[k])
  <2> TAKE k \in 1 .. m
  <2> HIDE DEF sub, g
  <2>1. PICK x, y : x = SubSeq(b, 1, k - 1) /\ y = SubSeq(b, 1, k)
    OBVIOUS
  <2>2. k \in 1 .. Len(b)
    BY <1>2
  <2>7. a \in Seq(S) /\ x = SubSeq(b, 1, k - 1) /\ y = SubSeq(b, 1, k)
    BY <1>4, <2>1
  <2>3. y \in Seq(S) /\ a \o y = Append(a \o x, b[k])
    BY <2>2, <2>7, ConcatGrows
  <2>4. a \o y \in Seq(S)
    BY <1>4, <2>3, ConcatProperties
  <2> QED
    BY <2>1, <2>3, <2>4, Zenon DEF sub
<1>6. a \o sub(0) = a /\ a \o sub(m) = a \o b
  <2>1. SubSeq(b, 1, 0) = <<>>
    BY SubSeqEmpty
  <2>2. a \o <<>> = a
    BY <1>4, ConcatEmptySeq
  <2>3. SubSeq(b, 1, Len(b)) = b
    BY SubSeqFull
  <2> QED
    BY <1>2, <2>1, <2>2, <2>3, Zenon
<1> HIDE DEF sub
<1>7. Picks(g, r, w, S)
  <2>1. g \in [0 .. Len(r) -> Seq(S)]
    <3>1. ASSUME NEW i \in 0 .. Len(r) PROVE g[i] \in Seq(S)
      <4>1. CASE i <= n
        <5>1. i \in 0 .. Len(text) /\ g[i] = f[i]
          BY <1>2, <1>3, <4>1
        <5> QED
          BY <1>1, <5>1 DEF Picks
      <4>2. CASE ~ (i <= n)
        <5>1. i - n \in 1 .. m /\ g[i] = a \o sub(i - n)
          BY <1>3, <4>2
        <5> QED
          BY <1>5, <5>1
      <4> QED
        BY <4>1, <4>2
    <3> QED
      BY <3>1
  <2>2. g[0] = <<>>
    BY <1>1, <1>3 DEF Picks
  <2>3. ASSUME NEW i \in 1 .. Len(r)
        PROVE  g[i] = IF r[i][1] = w THEN Append(g[i - 1], r[i]) ELSE g[i - 1]
    <3>1. CASE i <= n
      <4>1. /\ i \in 1 .. Len(text) /\ i \in 1 .. n /\ i \in 0 .. Len(r)
            /\ i - 1 \in 0 .. Len(r) /\ i - 1 <= n
        BY <1>2, <1>3, <3>1
      <4>2. g[i] = f[i] /\ g[i - 1] = f[i - 1] /\ r[i] = text[i]
        BY <1>3, <3>1, <4>1
      <4>3. f[i] = IF text[i][1] = w THEN Append(f[i - 1], text[i]) ELSE f[i - 1]
        BY <1>1, <4>1 DEF Picks
      <4> QED
        BY <4>2, <4>3, Zenon
    <3>2. CASE ~ (i <= n)
      <4>1. PICK k : k = i - n /\ k \in 1 .. m
        BY <1>3, <3>2
      <4>2. r[i] = b[k] /\ b[k][1] = w
        <5>1. i = n + k
          BY <1>3, <4>1
        <5>2. k \in 1 .. Len(b)
          BY <1>2, <4>1
        <5> QED
          BY <1>3, <4>1, <5>1, <5>2
      <4>3. g[i] = a \o sub(k)
        BY <3>2, <4>1
      <4>4. g[i - 1] = a \o sub(k - 1)
        <5>1. CASE k = 1
          <6>1. i - 1 = n /\ i - 1 \in 0 .. Len(r) /\ k - 1 = 0
            BY <1>3, <4>1, <5>1
          <6>2. g[n] = f[n]
            BY <1>3
          <6> QED
            BY <1>4, <1>6, <6>1, <6>2, Zenon
        <5>2. CASE k # 1
          <6>1. i - 1 \in 0 .. Len(r) /\ ~ (i - 1 <= n) /\ (i - 1) - n = k - 1
            BY <1>3, <4>1, <5>2
          <6>2. g[i - 1] = a \o sub((i - 1) - n)
            BY <6>1
          <6> QED
            BY <6>1, <6>2, Zenon
        <5> QED
          BY <5>1, <5>2
      <4> QED
        BY <1>5, <4>1, <4>2, <4>3, <4>4, Zenon
    <3> QED
      BY <3>1, <3>2
  <2> HIDE DEF g
  <2> QED
    BY <2>1, <2>2, <2>3 DEF Picks
<1>8. g[Len(r)] = a \o b
  <2>1. CASE m = 0
    <3>1. Len(r) = n /\ Len(r) \in 0 .. Len(r) /\ Len(r) <= n
      BY <1>3, <2>1
    <3>2. g[Len(r)] = f[n]
      BY <3>1
    <3> QED
      BY <1>4, <1>6, <2>1, <3>2, Zenon
  <2>2. CASE m # 0
    <3>1. Len(r) \in 0 .. Len(r) /\ ~ (Len(r) <= n) /\ Len(r) - n = m
      BY <1>3, <2>2
    <3>2. g[Len(r)] = a \o sub(Len(r) - n)
      BY <3>1
    <3> QED
      BY <1>6, <3>1, <3>2, Zenon
  <2> QED
    BY <2>1, <2>2
<1> HIDE DEF g
<1>9. OwnPieces(r, w) = g[Len(r)]
  <2>1. r \in Seq(S)
    BY <1>3
  <2> QED
    BY <1>7, <2>1, OwnPiecesIs, Zenon
<1>10. OwnPieces(text, w) = f[Len(text)]
  BY <1>1, OwnPiecesIs
<1> QED
  BY <1>2, <1>4, <1>8, <1>9, <1>10, Zenon

(* A piece of another thread is not picked. *)
LEMMA OwnPiecesOther ==
    ASSUME NEW S, NEW text \in Seq(S), NEW w, NEW p \in S, p[1] # w
    PROVE  OwnPieces(Append(text, p), w) = OwnPieces(text, w)
<1>1. PICK f : Picks(f, text, w, S)
  BY Picking
<1>2. PICK r, n : r = Append(text, p) /\ n = Len(text)
  OBVIOUS
<1>3. /\ r \in Seq(S) /\ Len(r) = n + 1 /\ n \in Nat /\ r[n + 1] = p
      /\ \A i \in 1 .. n : r[i] = text[i]
  BY <1>2, AppendProperties
<1> DEFINE g == [i \in 0 .. Len(r) |-> IF i <= n THEN f[i] ELSE f[n]]
<1>4. f \in [0 .. n -> Seq(S)] /\ f[0] = <<>>
  BY <1>1, <1>2 DEF Picks
<1>5. Picks(g, r, w, S)
  <2>1. g \in [0 .. Len(r) -> Seq(S)]
    BY <1>3, <1>4
  <2>2. g[0] = <<>>
    BY <1>3, <1>4
  <2>3. ASSUME NEW i \in 1 .. Len(r)
        PROVE  g[i] = IF r[i][1] = w THEN Append(g[i - 1], r[i]) ELSE g[i - 1]
    <3>1. CASE i <= n
      <4>1. /\ i \in 1 .. Len(text) /\ i \in 1 .. n /\ i \in 0 .. Len(r)
            /\ i - 1 \in 0 .. Len(r) /\ i - 1 <= n
        BY <1>2, <1>3, <3>1
      <4>2. g[i] = f[i] /\ g[i - 1] = f[i - 1] /\ r[i] = text[i]
        BY <1>3, <3>1, <4>1
      <4>3. f[i] = IF text[i][1] = w THEN Append(f[i - 1], text[i]) ELSE f[i - 1]
        BY <1>1, <4>1 DEF Picks
      <4> QED
        BY <4>2, <4>3, Zenon
    <3>2. CASE ~ (i <= n)
      <4>1. i = n + 1 /\ i - 1 = n /\ n \in 0 .. Len(r) /\ i \in 0 .. Len(r)
        BY <1>3, <3>2
      <4>2. g[i] = f[n] /\ g[n] = f[n] /\ r[i] = p
        BY <1>3, <3>2, <4>1
      <4> QED
        BY <4>1, <4>2
    <3> QED
      BY <3>1, <3>2
  <2> HIDE DEF g
  <2> QED
    BY <2>1, <2>2, <2>3 DEF Picks
<1>6. g[Len(r)] = f[n]
  BY <1>3
<1>7. OwnPieces(r, w) = g[Len(r)]
  BY <1>3, <1>5, OwnPiecesIs
<1>8. OwnPieces(text, w) = f[Len(text)]
  BY <1>1, OwnPiecesIs
<1> QED
  BY <1>2, <1>6, <1>7, <1>8, Zenon
-----------------------------------------------------------------------------
OneWriter == \A v, w \in Writers : v = w

Pieces == (Writers \cup Loopers) \X Nat
LogEvents ==
    [kind : {"plain", "named"}, text : Seq(Writers \X Nat)]
    \cup [kind : {"terminate"}, text : {<<>>}]
    \cup [kind : {"none", "catb", "cate"}, text : {<<>>}, by : Writers]

(* What the variables of the queue and of the log hold                     *)
LogTypes ==
    /\ pc \in [Loopers -> LooperPC]
    /\ cur \in [Loopers -> LogEvents \cup {NoEvent}]
    /\ \A l \in Loopers : pc[l] \in {"start", "run"} => cur[l] \in LogEvents
    /\ queue \in Seq(LogEvents)
    /\ buff \in Seq(Writers \X Nat)
    /\ copy \in [Writers -> Seq(Writers \X Nat)]
    /\ file \in Seq(Pieces)
    /\ wpc \in [Writers -> {"idle", "copy", "signal", "clear", "brace"}]
    /\ brace \in [Writers -> {"none", "catb", "cate"}]
    /\ written \in [Writers \cup Loopers -> Nat]

(* What a writer copied is still what is in the buffer. *)
CopyCurrent == \A w \in Writers : wpc[w] = "signal" => copy[w] = buff

(* The inductive invariant: the copy matters between the two steps of a   *)
(* flush, while the text is still in the buffer.                           *)
LogInv == LogTypes /\ CopyCurrent /\ TextInOrder

LEMMA PieceTypes ==
    /\ \A s \in Seq(Writers \X Nat) : s \in Seq(Pieces)
    /\ \A e \in LogEvents : e.text \in Seq(Writers \X Nat) /\ e.text \in Seq(Pieces)
<1>1. Writers \X Nat \subseteq Pieces
  BY DEF Pieces
<1>2. \A s \in Seq(Writers \X Nat) : s \in Seq(Pieces)
  BY <1>1, SeqMonotonic
<1>3. <<>> \in Seq(Writers \X Nat)
  OBVIOUS
<1>4. \A e \in LogEvents : e.text \in Seq(Writers \X Nat)
  BY <1>3 DEF LogEvents
<1> QED
  BY <1>2, <1>4

(* The texts of a queue of events *)
Texts(q) == [i \in 1 .. Len(q) |-> q[i].text]

LEMMA TextsType ==
    ASSUME NEW q, q \in Seq(LogEvents)
    PROVE  Texts(q) \in Seq(Seq(Pieces)) /\ Len(Texts(q)) = Len(q) /\ TextOf(q) = FlattenSeq(Texts(q))
<1>1. \A i \in 1 .. Len(q) : q[i].text \in Seq(Pieces)
  <2> TAKE i \in 1 .. Len(q)
  <2>1. q[i] \in LogEvents
    BY ElementOfSeq
  <2> QED
    BY <2>1, PieceTypes
<1>2. Texts(q) \in Seq(Seq(Pieces)) /\ Len(Texts(q)) = Len(q)
  BY <1>1 DEF Texts
<1>3. TextOf(q) = FlattenSeq(Texts(q))
  BY DEF TextOf, Texts
<1> QED
  BY <1>2, <1>3

LEMMA TextOfType ==
    ASSUME NEW q, q \in Seq(LogEvents)
    PROVE  TextOf(q) \in Seq(Pieces)
  BY TextsType, FlattenType

(* A push adds the text of its event at the end; ...                       *)
LEMMA TextOfAppend ==
    ASSUME NEW q, NEW e, q \in Seq(LogEvents), e \in LogEvents
    PROVE  TextOf(Append(q, e)) = TextOf(q) \o e.text
<1>1. PICK r, x : r = Append(q, e) /\ x = e.text
  OBVIOUS
<1>2. /\ r \in Seq(LogEvents) /\ Len(r) = Len(q) + 1 /\ r[Len(q) + 1] = e
      /\ \A i \in 1 .. Len(q) : r[i] = q[i]
      /\ Len(q) \in Nat
  BY <1>1, AppendProperties
<1>3. x \in Seq(Pieces)
  BY <1>1, PieceTypes
<1>4. /\ Texts(q) \in Seq(Seq(Pieces)) /\ Len(Texts(q)) = Len(q)
      /\ Texts(r) \in Seq(Seq(Pieces)) /\ Len(Texts(r)) = Len(q) + 1
  BY <1>2, TextsType
<1>5. Texts(r) = Append(Texts(q), x)
  <2>1. PICK a : a = Append(Texts(q), x)
    OBVIOUS
  <2>2. /\ a \in Seq(Seq(Pieces)) /\ Len(a) = Len(q) + 1 /\ a[Len(q) + 1] = x
        /\ \A i \in 1 .. Len(q) : a[i] = Texts(q)[i]
    BY <1>3, <1>4, <2>1, AppendProperties
  <2>3. ASSUME NEW i \in 1 .. Len(Texts(r)) PROVE Texts(r)[i] = a[i]
    <3>1. i \in 1 .. Len(r) /\ Texts(r)[i] = r[i].text
      BY <1>2, <1>4 DEF Texts
    <3>2. CASE i = Len(q) + 1
      BY <1>1, <1>2, <2>2, <3>1, <3>2
    <3>3. CASE i # Len(q) + 1
      <4>1. i \in 1 .. Len(q)
        BY <1>2, <3>1, <3>3
      <4>2. Texts(q)[i] = q[i].text
        BY <4>1 DEF Texts
      <4> QED
        BY <1>2, <2>2, <3>1, <4>1, <4>2
    <3> QED
      BY <3>2, <3>3
  <2>4. Texts(r) = a
    BY <1>4, <2>2, <2>3, SeqEqual
  <2> QED
    BY <2>1, <2>4
<1>6. FlattenSeq(Append(Texts(q), x)) = FlattenSeq(Texts(q)) \o x
  BY <1>3, <1>4, FlattenAppend
<1>7. TextOf(r) = FlattenSeq(Texts(r)) /\ TextOf(q) = FlattenSeq(Texts(q))
  BY <1>2, TextsType
<1> QED
  BY <1>1, <1>5, <1>6, <1>7, Zenon

(* ... the first text is that of the oldest event.                         *)
LEMMA TextOfHead ==
    ASSUME NEW q, q \in Seq(LogEvents), q # <<>>
    PROVE  Head(q) \in LogEvents /\ Tail(q) \in Seq(LogEvents)
           /\ TextOf(q) = Head(q).text \o TextOf(Tail(q))
<1>1. PICK h, t, x : h = Head(q) /\ t = Tail(q) /\ x = h.text
  OBVIOUS
<1>2. /\ h \in LogEvents /\ t \in Seq(LogEvents) /\ Len(t) = Len(q) - 1 /\ h = q[1]
      /\ \A i \in 1 .. Len(t) : t[i] = q[i + 1]
      /\ Len(q) \in Nat /\ Len(q) # 0
  BY <1>1, HeadTailProperties, EmptySeq
<1>3. PICK a, b : /\ a = Texts(q) /\ a \in Seq(Seq(Pieces)) /\ Len(a) = Len(q)
                  /\ b = Texts(t) /\ b \in Seq(Seq(Pieces)) /\ Len(b) = Len(t)
  BY <1>2, TextsType
<1>4. a # <<>>
  BY <1>2, <1>3
<1>5. Head(a) = x
  <2>1. 1 \in 1 .. Len(q)
    BY <1>2
  <2>2. Texts(q)[1] = q[1].text
    BY <2>1 DEF Texts
  <2> QED
    BY <1>1, <1>2, <1>3, <1>4, <2>2
<1>6. Tail(a) = b
  <2>1. PICK c : c = Tail(a)
    OBVIOUS
  <2>2. c \in Seq(Seq(Pieces)) /\ Len(c) = Len(q) - 1 /\ \A i \in 1 .. Len(c) : c[i] = a[i + 1]
    BY <1>3, <1>4, <2>1, HeadTailProperties
  <2>3. ASSUME NEW i \in 1 .. Len(c) PROVE c[i] = b[i]
    <3>1. i \in 1 .. Len(t) /\ i + 1 \in 1 .. Len(q)
      BY <1>2, <2>2
    <3>2. Texts(q)[i + 1] = q[i + 1].text /\ Texts(t)[i] = t[i].text
      BY <3>1 DEF Texts
    <3> QED
      BY <1>2, <1>3, <2>2, <3>1, <3>2
  <2>4. c = b
    BY <1>2, <1>3, <2>2, <2>3, SeqEqual
  <2> QED
    BY <2>1, <2>4
<1>7. FlattenSeq(a) = Head(a) \o FlattenSeq(Tail(a))
  BY <1>3, <1>4, FlattenHead
<1>8. TextOf(q) = FlattenSeq(a) /\ TextOf(t) = FlattenSeq(b)
  BY <1>2, <1>3, TextsType
<1>9. TextOf(q) = x \o TextOf(t)
  BY <1>5, <1>6, <1>7, <1>8, Zenon
<1> QED
  BY <1>1, <1>2, <1>9, Zenon
-----------------------------------------------------------------------------
Holds(p) == p \in {"start", "run"}

(* InHand, of other program counters and events *)
HandOf(p, c) ==
    FlattenSeq([i \in 1 .. Cardinality(Loopers) |->
        LET x == SetToSeq(Loopers)[i] IN IF Holds(p[x]) THEN c[x].text ELSE <<>>])

(* One looper has at most the text of its own event in hand.               *)
LEMMA HandOfOne ==
    ASSUME OneLooper, NEW l \in Loopers, NEW p, NEW c,
           Holds(p[l]) => c[l] \in LogEvents
    PROVE  HandOf(p, c) = IF Holds(p[l]) THEN c[l].text ELSE <<>>
<1>1. Loopers = {l}
  BY DEF OneLooper
<1>2. Cardinality(Loopers) = 1
  BY <1>1, FS_Singleton
<1>3. SetToSeq(Loopers)[1] = l
  <2> DEFINE F == {f \in [1 .. 1 -> {l}] : IsInjective(f)}
  <2>1. [i \in 1 .. 1 |-> l] \in [1 .. 1 -> {l}] /\ IsInjective([i \in 1 .. 1 |-> l])
    BY DEF IsInjective
  <2>2. SetToSeq(Loopers) = CHOOSE f \in [1 .. 1 -> {l}] : IsInjective(f)
    BY <1>1, <1>2 DEF SetToSeq
  <2>3. (CHOOSE f \in [1 .. 1 -> {l}] : IsInjective(f)) \in [1 .. 1 -> {l}]
    BY <2>1
  <2> QED
    BY <2>2, <2>3
<1>4. PICK x : x = (IF Holds(p[l]) THEN c[l].text ELSE <<>>) /\ x \in Seq(Pieces)
  <2>1. Holds(p[l]) => c[l].text \in Seq(Pieces)
    BY PieceTypes
  <2>2. <<>> \in Seq(Pieces)
    BY EmptySeq
  <2> QED
    BY <2>1, <2>2
<1>5. [i \in 1 .. 1 |-> x] = Append(<<>>, x)
  OBVIOUS
<1>6. HandOf(p, c) = FlattenSeq([i \in 1 .. 1 |-> x])
  <2>1. \A i \in 1 .. 1 : SetToSeq(Loopers)[i] = l
    BY <1>3
  <2>2. [i \in 1 .. 1 |-> LET y == SetToSeq(Loopers)[i] IN IF Holds(p[y]) THEN c[y].text ELSE <<>>]
          = [i \in 1 .. 1 |-> x]
    BY <1>4, <2>1
  <2> QED
    BY <1>2, <2>2 DEF HandOf
<1>7. <<>> \in Seq(Seq(Pieces)) /\ <<>> \in Seq(Pieces)
  OBVIOUS
<1>8. FlattenSeq(Append(<<>>, x)) = FlattenSeq(<<>>) \o x
  BY <1>4, <1>7, FlattenAppend
<1>9. <<>> \o x = x
  BY <1>4, ConcatEmptySeq
<1> QED
  BY <1>4, <1>5, <1>6, <1>8, <1>9, FlattenEmpty, Zenon

(* What is in hand changes only with the event that a looper holds. *)
LEMMA HandOfSame ==
    ASSUME OneLooper, NEW p, NEW c, NEW r, NEW d,
           \A l \in Loopers : Holds(p[l]) => c[l] \in LogEvents,
           \A l \in Loopers : /\ Holds(p[l]) <=> Holds(r[l])
                              /\ Holds(p[l]) => d[l] = c[l]
    PROVE  HandOf(p, c) = HandOf(r, d) /\ HandOf(p, c) \in Seq(Pieces)
<1>1. CASE Loopers = {}
  <2>1. Cardinality(Loopers) = 0
    BY <1>1, FS_EmptySet
  <2>2. \A f : [i \in 1 .. 0 |-> f[i]] = <<>>
    OBVIOUS
  <2>3. HandOf(p, c) = FlattenSeq(<<>>) /\ HandOf(r, d) = FlattenSeq(<<>>)
    BY <2>1 DEF HandOf
  <2> QED
    BY <2>3, FlattenEmpty, EmptySeq, Zenon
<1>2. CASE Loopers # {}
  <2>1. PICK l \in Loopers : TRUE
    BY <1>2
  <2>2. HandOf(p, c) = IF Holds(p[l]) THEN c[l].text ELSE <<>>
    BY <2>1, HandOfOne
  <2>3. HandOf(r, d) = IF Holds(r[l]) THEN d[l].text ELSE <<>>
    BY <2>1, HandOfOne
  <2>4. HandOf(p, c) = HandOf(r, d)
    BY <2>1, <2>2, <2>3
  <2>5. Holds(p[l]) => c[l].text \in Seq(Pieces)
    BY <2>1, PieceTypes
  <2> QED
    BY <2>2, <2>4, <2>5, EmptySeq
<1> QED
  BY <1>1, <1>2
-----------------------------------------------------------------------------
(* TextInOrder of w, as a relation between the parts of a state: what the  *)
(* file f, the looper (p, c), the queue q and the buffer u have of w are   *)
(* its first n pieces.                                                     *)
InOrder(w, f, p, c, q, u, n) ==
    OwnPieces(f, w) \o HandOf(p, c) \o TextOf(q) \o u = [i \in 1 .. n |-> <<w, i>>]

(* What is known of these parts *)
Parts(f, p, c, q, u, n) ==
    /\ f \in Seq(Pieces)
    /\ \A l \in Loopers : Holds(p[l]) => c[l] \in LogEvents
    /\ q \in Seq(LogEvents)
    /\ u \in Seq(Writers \X Nat)
    /\ n \in Nat

(* The four texts, and their regrouping *)
LEMMA PartTypes ==
    ASSUME OneLooper, NEW w, NEW f, NEW p, NEW c, NEW q, NEW u, NEW n,
           Parts(f, p, c, q, u, n)
    PROVE  /\ OwnPieces(f, w) \in Seq(Pieces) /\ HandOf(p, c) \in Seq(Pieces)
           /\ TextOf(q) \in Seq(Pieces) /\ u \in Seq(Pieces)
<1>1. OwnPieces(f, w) \in Seq(Pieces)
  BY OwnPiecesType DEF Parts
<1>2. HandOf(p, c) \in Seq(Pieces)
  BY HandOfSame DEF Parts
<1>3. TextOf(q) \in Seq(Pieces)
  BY TextOfType DEF Parts
<1> QED
  BY <1>1, <1>2, <1>3, PieceTypes DEF Parts

(* The regroupings of the four texts: the buffer goes to the queue, ...    *)
LEMMA FourSignal ==
    ASSUME NEW S, NEW a \in Seq(S), NEW b \in Seq(S), NEW c \in Seq(S), NEW d \in Seq(S)
    PROVE  a \o b \o (c \o d) \o <<>> = a \o b \o c \o d
<1>1. PICK x, y, z, v : x = a \o b /\ y = x \o c /\ z = c \o d /\ v = x \o z
  OBVIOUS
<1>2. x \in Seq(S) /\ y \in Seq(S) /\ z \in Seq(S) /\ v \in Seq(S)
  <2>1. x \in Seq(S) /\ z \in Seq(S)
    BY <1>1, ConcatProperties
  <2>2. y \in Seq(S) /\ v \in Seq(S)
    BY <1>1, <2>1, ConcatProperties
  <2> QED
    BY <2>1, <2>2
<1>3. y \o d = x \o z
  BY <1>1, <1>2, Regroup
<1>4. v \o <<>> = v
  BY <1>2, ConcatEmptySeq
<1> QED
  BY <1>1, <1>3, <1>4, Zenon

(* ... the oldest event to the looper, ...                                 *)
LEMMA FourPop ==
    ASSUME NEW S, NEW a \in Seq(S), NEW b \in Seq(S), NEW c \in Seq(S), NEW d \in Seq(S)
    PROVE  a \o b \o c \o d = a \o <<>> \o (b \o c) \o d
<1>1. PICK x, y, z : x = a \o b /\ y = b \o c /\ z = a \o <<>>
  OBVIOUS
<1>2. x \in Seq(S) /\ y \in Seq(S)
  BY <1>1, ConcatProperties
<1>3. x \o c = a \o y
  BY <1>1, <1>2, Regroup
<1>4. z = a
  BY <1>1, ConcatEmptySeq
<1> QED
  BY <1>1, <1>3, <1>4, Zenon

(* ... and its text to the file.                                           *)
LEMMA FourReturn ==
    ASSUME NEW S, NEW a \in Seq(S), NEW b \in Seq(S), NEW c \in Seq(S), NEW d \in Seq(S)
    PROVE  (a \o b) \o <<>> \o c \o d = a \o b \o c \o d
<1>1. PICK x : x = a \o b /\ x \in Seq(S)
  BY ConcatProperties
<1>2. x \o <<>> = x
  BY <1>1, ConcatEmptySeq
<1> QED
  BY <1>1, <1>2, Zenon

(* The first n + 1 pieces of w                                             *)
LEMMA PiecesGrow ==
    ASSUME NEW w \in Writers, NEW n \in Nat
    PROVE  /\ [i \in 1 .. n |-> <<w, i>>] \in Seq(Writers \X Nat)
           /\ <<w, n + 1>> \in Writers \X Nat /\ <<w, n + 1>> \in Pieces
           /\ Append([i \in 1 .. n |-> <<w, i>>], <<w, n + 1>>) = [i \in 1 .. n + 1 |-> <<w, i>>]
<1>1. PICK r, s, a : /\ r = [i \in 1 .. n |-> <<w, i>>] /\ s = [i \in 1 .. n + 1 |-> <<w, i>>]
                     /\ a = Append(r, <<w, n + 1>>)
  OBVIOUS
<1>2. r \in Seq(Writers \X Nat) /\ s \in Seq(Writers \X Nat) /\ Len(r) = n /\ Len(s) = n + 1
  BY <1>1
<1>3. <<w, n + 1>> \in Writers \X Nat /\ <<w, n + 1>> \in Pieces
  BY DEF Pieces
<1>4. /\ a \in Seq(Writers \X Nat) /\ Len(a) = n + 1 /\ a[n + 1] = <<w, n + 1>>
      /\ \A i \in 1 .. n : a[i] = r[i]
  BY <1>1, <1>2, <1>3, AppendProperties
<1>5. \A i \in 1 .. Len(a) : a[i] = s[i]
  BY <1>1, <1>4
<1>6. a = s
  BY <1>2, <1>4, <1>5, SeqEqual
<1> QED
  BY <1>1, <1>2, <1>3, <1>6

(* A piece goes to the buffer. *)
LEMMA InsertOrder ==
    ASSUME OneLooper, NEW w \in Writers, NEW f, NEW p, NEW c, NEW q, NEW u, NEW n,
           Parts(f, p, c, q, u, n), InOrder(w, f, p, c, q, u, n)
    PROVE  InOrder(w, f, p, c, q, Append(u, <<w, n + 1>>), n + 1)
<1>1. PICK A, B, C, e : A = OwnPieces(f, w) /\ B = HandOf(p, c) /\ C = TextOf(q) /\ e = <<w, n + 1>>
  OBVIOUS
<1>2. A \in Seq(Pieces) /\ B \in Seq(Pieces) /\ C \in Seq(Pieces) /\ u \in Seq(Pieces) /\ e \in Pieces /\ n \in Nat
  <2>1. A \in Seq(Pieces) /\ B \in Seq(Pieces) /\ C \in Seq(Pieces) /\ u \in Seq(Pieces)
    BY <1>1, PartTypes
  <2>2. n \in Nat
    BY DEF Parts
  <2>3. e \in Pieces
    BY <1>1, <2>2, PiecesGrow
  <2> QED
    BY <2>1, <2>2, <2>3
<1>3. PICK y : y = A \o B \o C /\ y \in Seq(Pieces)
  <2>1. PICK x, y : x = A \o B /\ y = x \o C
    OBVIOUS
  <2>2. x \in Seq(Pieces)
    BY <1>2, <2>1, ConcatProperties
  <2>3. y \in Seq(Pieces)
    BY <1>2, <2>1, <2>2, ConcatProperties
  <2> QED
    BY <2>1, <2>3, Zenon
<1>5. y \o Append(u, e) = Append(y \o u, e)
  BY <1>2, <1>3, ConcatAppend
<1>4. Append([i \in 1 .. n |-> <<w, i>>], <<w, n + 1>>) = [i \in 1 .. n + 1 |-> <<w, i>>]
  BY <1>2, PiecesGrow
<1> QED
  BY <1>1, <1>3, <1>4, <1>5, Zenon DEF InOrder

(* The copy of the buffer goes to the queue. *)
LEMMA SignalOrder ==
    ASSUME OneLooper, NEW w \in Writers, NEW f, NEW p, NEW c, NEW q, NEW u, NEW n,
           Parts(f, p, c, q, u, n), InOrder(w, f, p, c, q, u, n),
           NEW e, e \in LogEvents, e.text = u
    PROVE  InOrder(w, f, p, c, Append(q, e), <<>>, n)
<1>1. PICK A, B, C : A = OwnPieces(f, w) /\ B = HandOf(p, c) /\ C = TextOf(q)
  OBVIOUS
<1>2. A \in Seq(Pieces) /\ B \in Seq(Pieces) /\ C \in Seq(Pieces) /\ u \in Seq(Pieces)
  BY <1>1, PartTypes
<1>3. A \o B \o (C \o u) \o <<>> = A \o B \o C \o u
  BY <1>2, FourSignal
<1>4. TextOf(Append(q, e)) = C \o u
  BY <1>1, TextOfAppend DEF Parts
<1> QED
  BY <1>1, <1>3, <1>4, Zenon DEF InOrder

(* An event without text is pushed. *)
LEMMA LogPushOrder ==
    ASSUME OneLooper, NEW w \in Writers, NEW f, NEW p, NEW c, NEW q, NEW u, NEW n,
           Parts(f, p, c, q, u, n), InOrder(w, f, p, c, q, u, n),
           NEW e, e \in LogEvents, e.text = <<>>
    PROVE  InOrder(w, f, p, c, Append(q, e), u, n)
<1>1. PICK C : C = TextOf(q) /\ C \in Seq(Pieces)
  BY PartTypes
<1>2. C \o <<>> = C
  BY <1>1, ConcatEmptySeq
<1>3. TextOf(Append(q, e)) = C
  BY <1>1, <1>2, TextOfAppend DEF Parts
<1> QED
  BY <1>1, <1>3, Zenon DEF InOrder

(* A looper takes the oldest event. *)
LEMMA LogPopOrder ==
    ASSUME OneLooper, NEW w \in Writers, NEW f, NEW p, NEW c, NEW q, NEW u, NEW n,
           Parts(f, p, c, q, u, n), InOrder(w, f, p, c, q, u, n), q # <<>>,
           NEW l \in Loopers, NEW r, NEW d,
           ~ Holds(p[l]), Holds(r[l]), d[l] = Head(q)
    PROVE  InOrder(w, f, r, d, Tail(q), u, n)
<1>1. PICK A, B, C : A = OwnPieces(f, w) /\ B = Head(q).text /\ C = TextOf(Tail(q))
  OBVIOUS
<1>2. Head(q) \in LogEvents /\ Tail(q) \in Seq(LogEvents) /\ TextOf(q) = B \o C
  BY <1>1, TextOfHead DEF Parts
<1>3. A \in Seq(Pieces) /\ B \in Seq(Pieces) /\ C \in Seq(Pieces) /\ u \in Seq(Pieces)
  BY <1>1, <1>2, PartTypes, PieceTypes, TextOfType
<1>4. HandOf(p, c) = <<>>
  BY HandOfOne
<1>5. HandOf(r, d) = B
  BY <1>1, <1>2, HandOfOne
<1>6. A \o B \o C \o u = A \o <<>> \o (B \o C) \o u
  BY <1>3, FourPop
<1> QED
  BY <1>1, <1>2, <1>4, <1>5, <1>6, Zenon DEF InOrder

(* The event that wrote the text returns. *)
LEMMA ReturnOrder ==
    ASSUME OneLooper, OneWriter, NEW w \in Writers,
           NEW f, NEW p, NEW c, NEW q, NEW u, NEW n,
           Parts(f, p, c, q, u, n), InOrder(w, f, p, c, q, u, n),
           NEW l \in Loopers, NEW r, NEW d, Holds(p[l]), ~ Holds(r[l])
    PROVE  f \o c[l].text \in Seq(Pieces) /\ InOrder(w, f \o c[l].text, r, d, q, u, n)
<1>1. PICK A, B, C, g : A = OwnPieces(f, w) /\ B = c[l].text /\ C = TextOf(q) /\ g = f \o B
  OBVIOUS
<1>2. B \in Seq(Writers \X Nat) /\ B \in Seq(Pieces) /\ f \in Seq(Pieces)
  BY <1>1, PieceTypes DEF Parts
<1>3. A \in Seq(Pieces) /\ C \in Seq(Pieces) /\ u \in Seq(Pieces)
  BY <1>1, PartTypes
<1>4. \A i \in 1 .. Len(B) : B[i][1] = w
  <2> TAKE i \in 1 .. Len(B)
  <2>1. B[i] \in Writers \X Nat
    BY <1>2, ElementOfSeq
  <2> QED
    BY <2>1 DEF OneWriter
<1>5. g \in Seq(Pieces)
  BY <1>1, <1>2, ConcatProperties
<1>6. OwnPieces(g, w) = A \o B
  <2>1. OwnPieces(f \o B, w) = OwnPieces(f, w) \o B
    <3>1. f \in Seq(Pieces) /\ B \in Seq(Pieces)
      BY <1>2
    <3> QED
      BY <1>4, <3>1, OwnPiecesConcat
  <2> QED
    BY <1>1, <2>1, Zenon
<1>7. HandOf(p, c) = B
  BY <1>1, HandOfOne DEF Parts
<1>8. HandOf(r, d) = <<>>
  BY HandOfOne
<1>9. (A \o B) \o <<>> \o C \o u = A \o B \o C \o u
  BY <1>2, <1>3, FourReturn
<1> QED
  BY <1>1, <1>5, <1>6, <1>7, <1>8, <1>9, Zenon DEF InOrder

(* An event that is running logs a piece. *)
LEMMA LoopInsertOrder ==
    ASSUME NEW w \in Writers, NEW f, NEW p, NEW c, NEW q, NEW u, NEW n,
           Parts(f, p, c, q, u, n), InOrder(w, f, p, c, q, u, n),
           NEW l \in Loopers, NEW k \in Nat
    PROVE  Append(f, <<l, k>>) \in Seq(Pieces) /\ InOrder(w, Append(f, <<l, k>>), p, c, q, u, n)
<1>1. PICK e : e = <<l, k>> /\ e \in Pieces /\ e[1] # w
  <2>1. <<l, k>> \in Pieces
    BY DEF Pieces
  <2>2. l # w
    BY WritersAssumption
  <2> QED
    BY <2>1, <2>2
<1>2. f \in Seq(Pieces)
  BY DEF Parts
<1>3. OwnPieces(Append(f, e), w) = OwnPieces(f, w)
  BY <1>1, <1>2, OwnPiecesOther
<1>4. Append(f, e) \in Seq(Pieces)
  BY <1>1, <1>2, AppendProperties
<1> QED
  BY <1>1, <1>3, <1>4, Zenon DEF InOrder

(* The looper moves without taking or ending an event. *)
LEMMA HandKept ==
    ASSUME OneLooper, NEW w, NEW f, NEW p, NEW c, NEW q, NEW u, NEW n, NEW r, NEW d,
           Parts(f, p, c, q, u, n), InOrder(w, f, p, c, q, u, n),
           \A l \in Loopers : /\ Holds(p[l]) <=> Holds(r[l])
                              /\ Holds(p[l]) => d[l] = c[l]
    PROVE  InOrder(w, f, r, d, q, u, n)
<1>1. HandOf(p, c) = HandOf(r, d)
  BY HandOfSame DEF Parts
<1> QED
  BY <1>1, Zenon DEF InOrder

Left(at, b) == IF at = "clear" THEN <<>> ELSE b

(* The invariant in these terms, before and after a step                   *)
LEMMA OrderNow ==
    TextInOrder <=> \A w \in Writers :
                       InOrder(w, file, pc, cur, queue, Left(wpc[w], buff), written[w])
  BY DEF TextInOrder, InOrder, InHand, HandOf, Holds, Unsignalled, Left

LEMMA OrderThen ==
    TextInOrder' <=> \A w \in Writers :
                       InOrder(w, file', pc', cur', queue', Left(wpc'[w], buff'), written'[w])
  BY DEF TextInOrder, InOrder, InHand, HandOf, Holds, Unsignalled, Left

LEMMA PartsNow ==
    ASSUME LogTypes, NEW w \in Writers
    PROVE  Parts(file, pc, cur, queue, Left(wpc[w], buff), written[w])
<1>1. <<>> \in Seq(Writers \X Nat) /\ buff \in Seq(Writers \X Nat)
  BY DEF LogTypes
<1>2. Left(wpc[w], buff) \in Seq(Writers \X Nat)
  BY <1>1 DEF Left
<1> QED
  BY <1>2 DEF LogTypes, Parts, Holds

(* What a push does to the queue and the loopers                           *)
LEMMA PushFacts ==
    ASSUME LogTypes, NEW e \in LogEvents, Push(e)
    PROVE  /\ queue' = Append(queue, e) /\ queue' \in Seq(LogEvents)
           /\ cur' = cur
           /\ pc' \in [Loopers -> LooperPC]
           /\ \A l \in Loopers : Holds(pc[l]) <=> Holds(pc'[l])
<1>1. queue' = Append(queue, e) /\ queue \in Seq(LogEvents) /\ cur' = cur
  BY DEF Push, LogTypes
<1>2. queue' \in Seq(LogEvents)
  BY <1>1, AppendProperties
<1>3. pc' = [l \in Loopers |-> IF pc[l] = "wait" THEN "woken" ELSE pc[l]]
  BY DEF Push, NotifyAll
<1> QED
  BY <1>1, <1>2, <1>3 DEF LogTypes, LooperPC, Holds

(* The steps of LogNext, one by one                                        *)
LEMMA InsertStep ==
    ASSUME OneWriter, OneLooper, LogInv, NEW w \in Writers, Insert(w)
    PROVE  LogInv'
<1>1. /\ wpc[w] = "idle" /\ wpc'[w] \in {"copy", "idle"}
      /\ wpc' \in [Writers -> {"idle", "copy", "signal", "clear", "brace"}]
      /\ buff' = Append(buff, <<w, written[w] + 1>>)
      /\ written' = [written EXCEPT ![w] = @ + 1]
      /\ written[w] \in Nat /\ w \in DOMAIN written
      /\ UNCHANGED <<file, pc, cur, queue, copy, brace>>
      /\ buff \in Seq(Writers \X Nat)
  BY DEF Insert, LogInv, LogTypes, vars
<1>2. buff' \in Seq(Writers \X Nat)
  <2>1. <<w, written[w] + 1>> \in Writers \X Nat
    BY <1>1
  <2> QED
    BY <1>1, <2>1, AppendProperties
<1>3. LogTypes'
  <2>1. written' \in [Writers \cup Loopers -> Nat]
    BY <1>1 DEF LogInv, LogTypes
  <2> QED
    BY <1>1, <1>2, <2>1 DEF LogInv, LogTypes
<1>4. CopyCurrent'
  BY <1>1 DEF CopyCurrent, OneWriter
<1>5. InOrder(w, file', pc', cur', queue', Left(wpc'[w], buff'), written'[w])
  <2>1. PICK u, n : u = Left(wpc[w], buff) /\ n = written[w]
    OBVIOUS
  <2>2. /\ InOrder(w, file, pc, cur, queue, u, n)
        /\ Parts(file, pc, cur, queue, u, n)
    BY <2>1, OrderNow, PartsNow DEF LogInv
  <2>3. InOrder(w, file, pc, cur, queue, Append(u, <<w, n + 1>>), n + 1)
    BY <2>2, InsertOrder
  <2>4. u = buff /\ Left(wpc'[w], buff') = buff'
    BY <1>1, <2>1 DEF Left
  <2>5. written'[w] = n + 1
    BY <1>1, <2>1
  <2>6. Left(wpc'[w], buff') = Append(u, <<w, n + 1>>)
    BY <1>1, <2>1, <2>4
  <2> QED
    BY <1>1, <2>3, <2>5, <2>6, Zenon
<1>6. TextInOrder'
  BY <1>5, OrderThen DEF OneWriter
<1> QED
  BY <1>3, <1>4, <1>6 DEF LogInv

LEMMA FlushStep ==
    ASSUME OneWriter, OneLooper, LogInv, NEW w \in Writers, Flush(w) \/ Category(w)
    PROVE  LogInv'
<1>1. /\ wpc[w] # "clear" /\ wpc'[w] # "clear"
      /\ UNCHANGED <<file, pc, cur, queue, buff, written>>
  BY DEF Flush, Category, LogInv, LogTypes, vars
<1>2. LogTypes'
  BY DEF Flush, Category, LogInv, LogTypes, vars
<1>3. CopyCurrent'
  BY DEF Flush, Category, CopyCurrent, OneWriter, LogInv, LogTypes
<1>4. InOrder(w, file', pc', cur', queue', Left(wpc'[w], buff'), written'[w])
  <2>1. Left(wpc'[w], buff') = Left(wpc[w], buff)
    BY <1>1 DEF Left
  <2>2. InOrder(w, file, pc, cur, queue, Left(wpc[w], buff), written[w])
    BY OrderNow DEF LogInv
  <2> QED
    BY <1>1, <2>1, <2>2, Zenon
<1>5. TextInOrder'
  BY <1>4, OrderThen DEF OneWriter
<1> QED
  BY <1>2, <1>3, <1>5 DEF LogInv

LEMMA SignalStep ==
    ASSUME OneWriter, OneLooper, LogInv, NEW w \in Writers, FlushSignal(w)
    PROVE  LogInv'
<1> DEFINE e == TextEvent(copy[w])
<1>0. LogTypes /\ CopyCurrent
  BY DEF LogInv
<1>1. /\ wpc[w] = "signal" /\ wpc'[w] = "clear" /\ copy[w] = buff
      /\ Push(e) /\ UNCHANGED <<file, buff, brace, written>>
  BY <1>0 DEF FlushSignal, LogTypes, CopyCurrent
<1>2. e \in LogEvents /\ e.text = buff
  BY <1>0, <1>1 DEF TextEvent, LogEvents, LogTypes
<1> HIDE DEF e
<1>3. /\ queue' = Append(queue, e) /\ queue' \in Seq(LogEvents)
      /\ cur' = cur
      /\ pc' \in [Loopers -> LooperPC]
      /\ \A l \in Loopers : Holds(pc[l]) <=> Holds(pc'[l])
  BY <1>0, <1>1, <1>2, PushFacts
<1>4. LogTypes'
  <2>1. copy' \in [Writers -> Seq(Writers \X Nat)]
    <3>1. <<>> \in Seq(Writers \X Nat) /\ copy' = [copy EXCEPT ![w] = <<>>]
      BY DEF FlushSignal
    <3> QED
      BY <1>0, <3>1 DEF LogTypes
  <2>2. wpc' \in [Writers -> {"idle", "copy", "signal", "clear", "brace"}]
    BY <1>0 DEF FlushSignal, LogTypes
  <2> QED
    BY <1>0, <1>1, <1>3, <2>1, <2>2 DEF LogTypes, Holds
<1>5. CopyCurrent'
  BY <1>1 DEF CopyCurrent, OneWriter
<1>6. InOrder(w, file', pc', cur', queue', Left(wpc'[w], buff'), written'[w])
  <2>1. PICK n, q : n = written[w] /\ q = Append(queue, e)
    OBVIOUS
  <2>2. Left(wpc[w], buff) = buff /\ Left(wpc'[w], buff') = <<>>
    BY <1>1 DEF Left
  <2>3. InOrder(w, file, pc, cur, queue, buff, n) /\ Parts(file, pc, cur, queue, buff, n)
    BY <1>0, <2>1, <2>2, OrderNow, PartsNow DEF LogInv
  <2>4. InOrder(w, file, pc, cur, q, <<>>, n)
    BY <1>2, <2>1, <2>3, SignalOrder
  <2>5. Parts(file, pc, cur, q, <<>>, n)
    BY <1>3, <2>1, <2>3 DEF Parts
  <2>6. InOrder(w, file, pc', cur', q, <<>>, n)
    BY <1>3, <2>4, <2>5, HandKept
  <2> QED
    BY <1>1, <1>3, <2>1, <2>2, <2>6, Zenon
<1>7. TextInOrder'
  BY <1>6, OrderThen DEF OneWriter
<1> QED
  BY <1>4, <1>5, <1>7 DEF LogInv

LEMMA ClearStep ==
    ASSUME OneWriter, OneLooper, LogInv, NEW w \in Writers, FlushClear(w)
    PROVE  LogInv'
<1>0. LogTypes
  BY DEF LogInv
<1>1. /\ wpc[w] = "clear" /\ wpc'[w] \in {"idle", "brace"} /\ buff' = <<>>
      /\ UNCHANGED <<file, pc, cur, queue, copy, brace, written>>
      /\ wpc' \in [Writers -> {"idle", "copy", "signal", "clear", "brace"}]
  BY <1>0 DEF FlushClear, LogTypes, vars
<1>2. LogTypes'
  <2>1. buff' \in Seq(Writers \X Nat)
    BY <1>1
  <2> QED
    BY <1>0, <1>1, <2>1 DEF LogTypes
<1>3. CopyCurrent'
  BY <1>1 DEF CopyCurrent, OneWriter
<1>4. InOrder(w, file', pc', cur', queue', Left(wpc'[w], buff'), written'[w])
  <2>1. Left(wpc'[w], buff') = Left(wpc[w], buff)
    BY <1>1 DEF Left
  <2>2. InOrder(w, file, pc, cur, queue, Left(wpc[w], buff), written[w])
    BY OrderNow DEF LogInv
  <2> QED
    BY <1>1, <2>1, <2>2, Zenon
<1>5. TextInOrder'
  BY <1>4, OrderThen DEF OneWriter
<1> QED
  BY <1>2, <1>3, <1>5 DEF LogInv

(* A brace, or a job: an event without text *)
LEMMA EmptyEventStep ==
    ASSUME OneWriter, OneLooper, LogInv, NEW e \in LogEvents, e.text = <<>>, Push(e),
           UNCHANGED <<file, buff, copy, written>>,
           wpc' \in [Writers -> {"idle", "copy", "signal", "clear", "brace"}],
           brace' \in [Writers -> {"none", "catb", "cate"}],
           \A w \in Writers : wpc'[w] = wpc[w] \/ (wpc[w] = "brace" /\ wpc'[w] = "idle")
    PROVE  LogInv'
<1>0. LogTypes /\ CopyCurrent
  BY DEF LogInv
<1>1. /\ queue' = Append(queue, e) /\ queue' \in Seq(LogEvents)
      /\ cur' = cur
      /\ pc' \in [Loopers -> LooperPC]
      /\ \A l \in Loopers : Holds(pc[l]) <=> Holds(pc'[l])
  BY <1>0, PushFacts
<1>2. LogTypes'
  BY <1>0, <1>1 DEF LogTypes, Holds
<1>3. CopyCurrent'
  BY <1>0 DEF CopyCurrent
<1>4. ASSUME NEW w \in Writers
      PROVE  InOrder(w, file', pc', cur', queue', Left(wpc'[w], buff'), written'[w])
  <2>1. PICK n, q, u : n = written[w] /\ q = Append(queue, e) /\ u = Left(wpc[w], buff)
    OBVIOUS
  <2>2. Left(wpc'[w], buff') = u
    BY <2>1 DEF Left
  <2>3. InOrder(w, file, pc, cur, queue, u, n) /\ Parts(file, pc, cur, queue, u, n)
    BY <1>0, <2>1, OrderNow, PartsNow DEF LogInv
  <2>4. InOrder(w, file, pc, cur, q, u, n)
    BY <2>1, <2>3, LogPushOrder
  <2>5. Parts(file, pc, cur, q, u, n)
    BY <1>1, <2>1, <2>3 DEF Parts
  <2>6. InOrder(w, file, pc', cur', q, u, n)
    BY <1>1, <2>4, <2>5, HandKept
  <2> QED
    BY <1>1, <2>1, <2>2, <2>6, Zenon
<1>5. TextInOrder'
  BY <1>4, OrderThen
<1> QED
  BY <1>2, <1>3, <1>5 DEF LogInv

LEMMA BraceStep ==
    ASSUME OneWriter, OneLooper, LogInv, NEW w \in Writers, Brace(w)
    PROVE  LogInv'
<1> DEFINE e == BraceEvent(w)
<1>0. LogTypes
  BY DEF LogInv
<1>1. e \in LogEvents /\ e.text = <<>>
  BY <1>0 DEF BraceEvent, LogEvents, LogTypes
<1>2. Push(e) /\ UNCHANGED <<file, buff, copy, written>>
  BY DEF Brace
<1>3. /\ wpc' \in [Writers -> {"idle", "copy", "signal", "clear", "brace"}]
      /\ brace' \in [Writers -> {"none", "catb", "cate"}]
      /\ \A v \in Writers : wpc'[v] = wpc[v] \/ (wpc[v] = "brace" /\ wpc'[v] = "idle")
  BY <1>0 DEF Brace, LogTypes
<1> HIDE DEF e
<1> QED
  BY <1>1, <1>2, <1>3, EmptyEventStep

LEMMA PushJobStep ==
    ASSUME OneWriter, OneLooper, LogInv, PushJob
    PROVE  LogInv'
<1> DEFINE e == [kind |-> "named", text |-> <<>>]
<1>0. LogTypes
  BY DEF LogInv
<1>1. e \in LogEvents /\ e.text = <<>>
  <2>1. <<>> \in Seq(Writers \X Nat)
    OBVIOUS
  <2> QED
    BY <2>1 DEF LogEvents
<1>2. Push(e) /\ UNCHANGED <<file, buff, copy, written, wpc, brace>>
  BY DEF PushJob, logVars
<1>3. /\ wpc' \in [Writers -> {"idle", "copy", "signal", "clear", "brace"}]
      /\ brace' \in [Writers -> {"none", "catb", "cate"}]
      /\ \A v \in Writers : wpc'[v] = wpc[v]
  BY <1>0, <1>2 DEF LogTypes
<1> HIDE DEF e
<1> QED
  BY <1>1, <1>2, <1>3, EmptyEventStep

LEMMA PushTerminateStep ==
    ASSUME OneWriter, OneLooper, LogInv, PushTerminate
    PROVE  LogInv'
<1> DEFINE e == [kind |-> "terminate", text |-> <<>>]
<1>0. LogTypes
  BY DEF LogInv
<1>1. e \in LogEvents /\ e.text = <<>>
  BY DEF LogEvents
<1>2. Push(e) /\ UNCHANGED <<file, buff, copy, written, wpc, brace>>
  BY DEF PushTerminate, logVars
<1>3. /\ wpc' \in [Writers -> {"idle", "copy", "signal", "clear", "brace"}]
      /\ brace' \in [Writers -> {"none", "catb", "cate"}]
      /\ \A v \in Writers : wpc'[v] = wpc[v]
  BY <1>0, <1>2 DEF LogTypes
<1> HIDE DEF e
<1> QED
  BY <1>1, <1>2, <1>3, EmptyEventStep

LEMMA LoopInsertStep ==
    ASSUME LogInv, NEW l \in Loopers, LoopInsert(l)
    PROVE  LogInv'
<1>0. LogTypes /\ CopyCurrent
  BY DEF LogInv
<1>1. /\ file' = Append(file, <<l, written[l] + 1>>)
      /\ written' = [written EXCEPT ![l] = @ + 1]
      /\ UNCHANGED <<pc, cur, queue, buff, copy, wpc, brace>>
      /\ l \in Writers \cup Loopers
      /\ written \in [Writers \cup Loopers -> Nat]
  BY <1>0 DEF LoopInsert, LogTypes, vars
<1>2. file' \in Seq(Pieces)
  <2>1. <<l, written[l] + 1>> \in Pieces
    BY <1>1 DEF Pieces
  <2> QED
    BY <1>0, <1>1, <2>1, AppendProperties DEF LogTypes
<1>3. LogTypes'
  <2>1. written' \in [Writers \cup Loopers -> Nat]
    BY <1>1
  <2> QED
    BY <1>0, <1>1, <1>2, <2>1 DEF LogTypes
<1>4. CopyCurrent'
  BY <1>0, <1>1 DEF CopyCurrent
<1>5. ASSUME NEW w \in Writers
      PROVE  InOrder(w, file', pc', cur', queue', Left(wpc'[w], buff'), written'[w])
  <2>1. PICK n, u, k : n = written[w] /\ u = Left(wpc[w], buff) /\ k = written[l] + 1 /\ k \in Nat
    BY <1>1
  <2>2. InOrder(w, file, pc, cur, queue, u, n) /\ Parts(file, pc, cur, queue, u, n)
    BY <1>0, <2>1, OrderNow, PartsNow DEF LogInv
  <2>3. InOrder(w, Append(file, <<l, k>>), pc, cur, queue, u, n)
    BY <2>1, <2>2, LoopInsertOrder
  <2>4. written'[w] = n
    BY <1>1, <2>1, WritersAssumption
  <2> QED
    BY <1>1, <2>1, <2>3, <2>4, Zenon
<1>6. TextInOrder'
  BY <1>5, OrderThen
<1> QED
  BY <1>3, <1>4, <1>6 DEF LogInv

LEMMA LogReturnStep ==
    ASSUME OneWriter, OneLooper, LogInv, NEW l \in Loopers, LogReturn(l)
    PROVE  LogInv'
<1>0. LogTypes /\ CopyCurrent
  BY DEF LogInv
<1>1. /\ pc[l] = "run" /\ pc' = [pc EXCEPT ![l] = "fetch"]
      /\ cur' = [cur EXCEPT ![l] = NoEvent]
      /\ file' = file \o cur[l].text
      /\ UNCHANGED <<queue, buff, copy, wpc, brace, written>>
  BY DEF LogReturn, Return
<1>2. Holds(pc[l]) /\ ~ Holds(pc'[l])
  BY <1>0, <1>1 DEF Holds, LogTypes
<1>3. file' \in Seq(Pieces)
  <2>1. PICK t : t = cur[l].text /\ t \in Seq(Pieces) /\ file \in Seq(Pieces)
    BY <1>0, <1>2, PieceTypes DEF LogTypes, Holds
  <2>2. file \o t \in Seq(Pieces)
    BY <2>1, ConcatProperties
  <2> QED
    BY <1>1, <2>1, <2>2
<1>4. LogTypes'
  BY <1>0, <1>1, <1>3 DEF LogTypes, LooperPC
<1>5. CopyCurrent'
  BY <1>0, <1>1 DEF CopyCurrent
<1>6. ASSUME NEW w \in Writers
      PROVE  InOrder(w, file', pc', cur', queue', Left(wpc'[w], buff'), written'[w])
  <2>1. PICK n, u : n = written[w] /\ u = Left(wpc[w], buff)
    OBVIOUS
  <2>2. InOrder(w, file, pc, cur, queue, u, n) /\ Parts(file, pc, cur, queue, u, n)
    BY <1>0, <2>1, OrderNow, PartsNow DEF LogInv
  <2>3. InOrder(w, file \o cur[l].text, pc', cur', queue, u, n)
    BY <1>2, <2>2, ReturnOrder
  <2> QED
    BY <1>1, <2>1, <2>3, Zenon
<1>7. TextInOrder'
  BY <1>6, OrderThen
<1> QED
  BY <1>4, <1>5, <1>7 DEF LogInv

(* An event that throws has written nothing and had nothing to write. *)
LEMMA LogThrowStep ==
    ASSUME OneWriter, OneLooper, LogInv, NEW l \in Loopers, Throw(l), UNCHANGED logVars
    PROVE  LogInv'
<1>0. LogTypes /\ CopyCurrent
  BY DEF LogInv
<1>1. /\ pc[l] = "run" /\ pc' = [pc EXCEPT ![l] = "leave"]
      /\ cur' = [cur EXCEPT ![l] = NoEvent]
      /\ UNCHANGED <<file, queue, buff, copy, wpc, brace, written>>
  BY DEF Throw, logVars
<1>2. Holds(pc[l]) /\ ~ Holds(pc'[l])
  BY <1>0, <1>1 DEF Holds, LogTypes
<1>3. cur[l].text = <<>>
  <2>1. cur[l] \in LogEvents /\ cur[l].kind \in {"named terminate", "terminate"}
    BY <1>0, <1>1 DEF LogTypes, Throw, Throws
  <2> QED
    BY <2>1 DEF LogEvents
<1>4. LogTypes'
  BY <1>0, <1>1 DEF LogTypes, LooperPC
<1>5. CopyCurrent'
  BY <1>0, <1>1 DEF CopyCurrent
<1>6. ASSUME NEW w \in Writers
      PROVE  InOrder(w, file', pc', cur', queue', Left(wpc'[w], buff'), written'[w])
  <2>1. PICK n, u : n = written[w] /\ u = Left(wpc[w], buff)
    OBVIOUS
  <2>2. InOrder(w, file, pc, cur, queue, u, n) /\ Parts(file, pc, cur, queue, u, n)
    BY <1>0, <2>1, OrderNow, PartsNow DEF LogInv
  <2>3. InOrder(w, file \o cur[l].text, pc', cur', queue, u, n)
    BY <1>1, <1>2, <2>2, ReturnOrder
  <2>4. file \o cur[l].text = file
    <3>1. file \in Seq(Pieces)
      BY <1>0 DEF LogTypes
    <3> QED
      BY <1>3, <3>1
  <2> QED
    BY <1>1, <2>1, <2>3, <2>4, Zenon
<1>7. TextInOrder'
  BY <1>6, OrderThen
<1> QED
  BY <1>4, <1>5, <1>7 DEF LogInv

LEMMA LogPopStep ==
    ASSUME OneLooper, LogInv, NEW l \in Loopers, FetchPop(l), UNCHANGED logVars
    PROVE  LogInv'
<1>0. LogTypes /\ CopyCurrent
  BY DEF LogInv
<1>1. /\ pc[l] \in {"fetch", "woken"} /\ pc' = [pc EXCEPT ![l] = "start"]
      /\ queue # <<>> /\ queue' = Tail(queue)
      /\ cur' = [cur EXCEPT ![l] = Head(queue)]
      /\ UNCHANGED <<file, buff, copy, wpc, brace, written>>
  BY DEF FetchPop, Oldest, Remaining, logVars
<1>2. Head(queue) \in LogEvents /\ queue' \in Seq(LogEvents)
  BY <1>0, <1>1, HeadTailProperties DEF LogTypes
<1>3. ~ Holds(pc[l]) /\ Holds(pc'[l]) /\ cur'[l] = Head(queue)
  BY <1>0, <1>1 DEF Holds, LogTypes
<1>4. LogTypes'
  BY <1>0, <1>1, <1>2 DEF LogTypes, LooperPC
<1>5. CopyCurrent'
  BY <1>0, <1>1 DEF CopyCurrent
<1>6. ASSUME NEW w \in Writers
      PROVE  InOrder(w, file', pc', cur', queue', Left(wpc'[w], buff'), written'[w])
  <2>1. PICK n, u : n = written[w] /\ u = Left(wpc[w], buff)
    OBVIOUS
  <2>2. InOrder(w, file, pc, cur, queue, u, n) /\ Parts(file, pc, cur, queue, u, n)
    BY <1>0, <2>1, OrderNow, PartsNow DEF LogInv
  <2>3. InOrder(w, file, pc', cur', Tail(queue), u, n)
    BY <1>1, <1>3, <2>2, LogPopOrder
  <2> QED
    BY <1>1, <2>1, <2>3, Zenon
<1>7. TextInOrder'
  BY <1>6, OrderThen
<1> QED
  BY <1>4, <1>5, <1>7 DEF LogInv

LEMMA LogStayStep ==
    ASSUME OneLooper, LogInv, NEW l \in Loopers, UNCHANGED logVars,
           \/ Enter(l) \/ SpuriousWakeup(l) \/ FetchWait(l) \/ FetchNothing(l)
           \/ Start(l) \/ Leave(l)
    PROVE  LogInv'
<1>0. LogTypes /\ CopyCurrent
  BY DEF LogInv
<1>1. /\ UNCHANGED <<queue, cur, file, buff, copy, wpc, brace, written>>
      /\ \E at \in LooperPC : pc' = [pc EXCEPT ![l] = at] /\ (Holds(at) <=> Holds(pc[l]))
  BY DEF Enter, SpuriousWakeup, FetchWait, FetchNothing, Start, Leave, Holds, LooperPC,
         logVars
<1>2. \A x \in Loopers : Holds(pc'[x]) <=> Holds(pc[x])
  BY <1>0, <1>1 DEF LogTypes
<1>3. LogTypes'
  BY <1>0, <1>1, <1>2 DEF LogTypes, Holds
<1>4. CopyCurrent'
  BY <1>0, <1>1 DEF CopyCurrent
<1>5. ASSUME NEW w \in Writers
      PROVE  InOrder(w, file', pc', cur', queue', Left(wpc'[w], buff'), written'[w])
  <2>1. PICK n, u : n = written[w] /\ u = Left(wpc[w], buff)
    OBVIOUS
  <2>2. InOrder(w, file, pc, cur, queue, u, n) /\ Parts(file, pc, cur, queue, u, n)
    BY <1>0, <2>1, OrderNow, PartsNow DEF LogInv
  <2>3. InOrder(w, file, pc', cur', queue, u, n)
    BY <1>1, <1>2, <2>2, HandKept
  <2> QED
    BY <1>1, <2>1, <2>3, Zenon
<1>6. TextInOrder'
  BY <1>5, OrderThen
<1> QED
  BY <1>3, <1>4, <1>6 DEF LogInv

LEMMA LogInvInit ==
    ASSUME OneLooper, LogInit
    PROVE  LogInv
<1>1. LogTypes
  <2>1. /\ <<>> \in Seq(Writers \X Nat) /\ <<>> \in Seq(Pieces) /\ <<>> \in Seq(LogEvents)
    OBVIOUS
  <2> QED
    BY <2>1 DEF LogInit, Init, LogTypes, LooperPC
<1>2. CopyCurrent
  BY DEF LogInit, CopyCurrent
<1>3. ASSUME NEW w \in Writers
      PROVE  InOrder(w, file, pc, cur, queue, Left(wpc[w], buff), written[w])
  <2>1. OwnPieces(<<>>, w) = <<>>
    <3>1. PICK f : Picks(f, <<>>, w, Pieces)
      BY Picking, EmptySeq
    <3> QED
      BY <3>1, OwnPiecesIs, EmptySeq DEF Picks
  <2>2. TextOf(<<>>) = <<>>
    <3>1. [i \in 1 .. Len(<<>>) |-> <<>>[i].text] = <<>>
      OBVIOUS
    <3> QED
      BY <3>1, FlattenEmpty DEF TextOf
  <2>3. HandOf(pc, cur) = <<>>
    <3>1. \A l \in Loopers : ~ Holds(pc[l])
      BY DEF LogInit, Init, Holds
    <3>2. CASE Loopers = {}
      <4>1. Cardinality(Loopers) = 0
        BY <3>2, FS_EmptySet
      <4>2. HandOf(pc, cur) = FlattenSeq(<<>>)
        BY <4>1 DEF HandOf
      <4> QED
        BY <4>2, FlattenEmpty
    <3>3. CASE Loopers # {}
      <4>1. PICK l \in Loopers : TRUE
        BY <3>3
      <4> QED
        BY <3>1, <4>1, HandOfOne
    <3> QED
      BY <3>2, <3>3
  <2>4. Left(wpc[w], buff) = <<>> /\ written[w] = 0 /\ file = <<>> /\ queue = <<>>
    BY DEF LogInit, Init, Left
  <2>5. <<>> \o <<>> \o <<>> \o <<>> = [i \in 1 .. 0 |-> <<w, i>>]
    OBVIOUS
  <2> QED
    BY <2>1, <2>2, <2>3, <2>4, <2>5, Zenon DEF InOrder
<1>4. TextInOrder
  BY <1>3, OrderNow
<1> QED
  BY <1>1, <1>2, <1>4 DEF LogInv

LEMMA LogInvNext ==
    ASSUME OneWriter, OneLooper, LogInv, [LogNext]_allVars
    PROVE  LogInv'
<1>1. CASE UNCHANGED allVars
  <2>1. LogTypes' /\ CopyCurrent'
    BY <1>1 DEF allVars, vars, logVars, LogInv, LogTypes, CopyCurrent
  <2>2. UNCHANGED <<file, pc, cur, queue, wpc, buff, written>>
    BY <1>1 DEF allVars, vars, logVars
  <2>3. TextInOrder'
    BY <2>2, OrderNow, OrderThen DEF LogInv
  <2> QED
    BY <2>1, <2>3 DEF LogInv
<1>2. ASSUME NEW w \in Writers,
             \/ Insert(w) \/ Flush(w) \/ FlushSignal(w)
             \/ FlushClear(w) \/ Category(w) \/ Brace(w)
      PROVE  LogInv'
  BY <1>2, InsertStep, FlushStep, SignalStep, ClearStep, BraceStep
<1>3. CASE PushJob \/ PushTerminate
  BY <1>3, PushJobStep, PushTerminateStep
<1>4. ASSUME NEW l \in Loopers, LoopInsert(l) \/ LogReturn(l) \/ QueueStep(l)
      PROVE  LogInv'
  BY <1>4, LoopInsertStep, LogReturnStep, LogPopStep, LogThrowStep, LogStayStep
     DEF QueueStep
<1> QED
  BY <1>1, <1>2, <1>3, <1>4 DEF LogNext

(* With one thread that logs and one inside Enter(), what the thread       *)
(* logged is in the file, in the event being run, in the queue and in the  *)
(* buffer, in this order, complete and without a repetition, however the   *)
(* flushes, the braces and the events' own output are interleaved with the *)
(* event loop (scheduler/src/Logging.cpp:35).                              *)
THEOREM TextCorrect == OneWriter /\ OneLooper => (LogSpec => []TextInOrder)
<1> SUFFICES ASSUME OneWriter, OneLooper PROVE LogSpec => []TextInOrder
  OBVIOUS
<1>1. LogInit => LogInv
  BY LogInvInit
<1>2. LogInv /\ [LogNext]_allVars => LogInv'
  BY LogInvNext
<1>3. LogInv => TextInOrder
  BY DEF LogInv
<1> QED
  BY <1>1, <1>2, <1>3, PTL DEF LogSpec

LEMMA ConcatMembers ==
    ASSUME NEW S, NEW a, NEW b, NEW c, a \in Seq(S), b \in Seq(S), c = a \o b
    PROVE  c \in Seq(S) /\ \A x \in ToSet(c) : x \in ToSet(a) \/ x \in ToSet(b)
<1>1. /\ c \in Seq(S) /\ Len(c) = Len(a) + Len(b)
      /\ \A i \in 1 .. Len(a) + Len(b) : c[i] = IF i <= Len(a) THEN a[i] ELSE b[i - Len(a)]
  BY ConcatProperties
<1>2. Len(a) \in Nat /\ Len(b) \in Nat
  OBVIOUS
<1>3. ASSUME NEW i \in 1 .. Len(c)
      PROVE  c[i] \in ToSet(a) \/ c[i] \in ToSet(b)
  <2>1. CASE i <= Len(a)
    <3>1. i \in 1 .. Len(a) /\ c[i] = a[i]
      BY <1>1, <1>2, <2>1
    <3> QED
      BY <3>1 DEF ToSet
  <2>2. CASE ~ (i <= Len(a))
    <3>1. i - Len(a) \in 1 .. Len(b) /\ c[i] = b[i - Len(a)]
      BY <1>1, <1>2, <2>2
    <3> QED
      BY <3>1 DEF ToSet
  <2> QED
    BY <2>1, <2>2
<1> QED
  BY <1>1, <1>3 DEF ToSet

(* One thread that logs loses nothing; it takes two, as the counterexample *)
(* to NothingLost shows, although Logging.cpp:35 says of any number that   *)
(* "concurrency considerations are taken care of".                         *)
THEOREM OneWriterLosesNothing == OneWriter /\ OneLooper => (LogSpec => []NothingLost)
<1> SUFFICES ASSUME OneWriter, OneLooper PROVE LogSpec => []NothingLost
  OBVIOUS
<1>1. LogInit => LogInv
  BY LogInvInit
<1>2. LogInv /\ [LogNext]_allVars => LogInv'
  BY LogInvNext
<1>3. LogInv => NothingLost
  <2> SUFFICES ASSUME LogInv, NEW w \in Writers, NEW i \in 1 .. written[w]
               PROVE  <<w, i>> \in Everywhere
    BY DEF NothingLost
  <2>1. written[w] \in Nat
    BY DEF LogInv, LogTypes
  <2>2. PICK A, B, C, D, s, t, r :
           /\ A = OwnPieces(file, w) /\ B = HandOf(pc, cur) /\ C = TextOf(queue)
           /\ D = Left(wpc[w], buff)
           /\ s = A \o B /\ t = s \o C /\ r = t \o D
    OBVIOUS
  <2>3. Parts(file, pc, cur, queue, D, written[w])
    BY <2>2, PartsNow DEF LogInv
  <2>4. A \in Seq(Pieces) /\ B \in Seq(Pieces) /\ C \in Seq(Pieces) /\ D \in Seq(Pieces)
    BY <2>2, <2>3, PartTypes
  <2>5. s \in Seq(Pieces) /\ \A x \in ToSet(s) : x \in ToSet(A) \/ x \in ToSet(B)
    BY <2>2, <2>4, ConcatMembers
  <2>6. t \in Seq(Pieces) /\ \A x \in ToSet(t) : x \in ToSet(s) \/ x \in ToSet(C)
    BY <2>2, <2>4, <2>5, ConcatMembers
  <2>7. \A x \in ToSet(r) : x \in ToSet(t) \/ x \in ToSet(D)
    BY <2>2, <2>4, <2>6, ConcatMembers
  <2>8. <<w, i>> \in ToSet(r)
    <3>1. r = [j \in 1 .. written[w] |-> <<w, j>>]
      BY <2>2, OrderNow, Zenon DEF LogInv, InOrder
    <3> QED
      BY <2>1, <3>1 DEF ToSet
  <2>9. ToSet(A) \subseteq ToSet(file)
    <3>1. PICK S : S = ToSet(file)
      OBVIOUS
    <3>2. file \in Seq(S)
      <4>1. file \in Seq(Pieces)
        BY DEF LogInv, LogTypes
      <4> QED
        BY <3>1, <4>1 DEF ToSet
    <3>3. A \in Seq(S)
      BY <2>2, <3>2, OwnPiecesType
    <3> QED
      BY <3>1, <3>3 DEF ToSet
  <2>10. ToSet(D) \subseteq ToSet(buff)
    BY <2>2 DEF Left, ToSet
  <2>11. B = InHand
    BY <2>2 DEF InHand, HandOf, Holds
  <2> QED
    BY <2>2, <2>5, <2>6, <2>7, <2>8, <2>9, <2>10, <2>11 DEF Everywhere
<1> QED
  BY <1>1, <1>2, <1>3, PTL DEF LogSpec
-----------------------------------------------------------------------------
(* MessageStream.  Numbers are their bytes, put together again.            *)

(* A number is what was shifted out of it and what is left. *)
LEMMA Division ==
    ASSUME NEW x \in Int
    PROVE  /\ x \div Base \in Int /\ x % Base \in Byte
           /\ (x \div Base) * Base + (x % Base) = x
<1>1. Base \in Int /\ Base > 0
  BY BaseAssumption
<1>2. x \div Base \in Int /\ x % Base \in Byte
  BY <1>1 DEF Byte
<1>3. (x \div Base) * Base + (x % Base) = x
  BY <1>1
<1> QED
  BY <1>2, <1>3

(* Each shift divides what is left, and the rest has a byte less to go. *)
LEMMA ShiftedIs ==
    ASSUME NEW v \in Int, NEW n \in Nat
    PROVE  /\ Shifted(v, n) \in [0 .. n -> Int]
           /\ Shifted(v, n)[0] = v
           /\ \A i \in 1 .. n : Shifted(v, n)[i] = Shifted(v, n)[i - 1] \div Base
<1> DEFINE step == [p \in (1 .. n) \X Int |-> p[2] \div Base]
           Is(q) == q = [i \in 0 .. n |-> IF i = 0 THEN v ELSE q[i - 1] \div Base]
<1>1. step \in [(1 .. n) \X Int -> Int]
  BY Division
<1>2. \A i \in 1 .. n : \A x \in Int : step[<<i, x>>] = x \div Base
  OBVIOUS
<1> HIDE DEF step
<1>3. PICK f : Recursive(f, n, Int, v, step)
  BY <1>1, Recursion
<1>4. f \in [0 .. n -> Int] /\ f[0] = v
  BY <1>3 DEF Recursive
<1>5. ASSUME NEW i \in 1 .. n PROVE f[i] = f[i - 1] \div Base
  <2>1. i - 1 \in 0 .. n
    OBVIOUS
  <2> QED
    BY <1>2, <1>3, <1>4, <2>1 DEF Recursive
<1>6. Is(f)
  <2>1. ASSUME NEW i \in 0 .. n
        PROVE  f[i] = IF i = 0 THEN v ELSE f[i - 1] \div Base
    <3>1. i = 0 \/ i \in 1 .. n
      OBVIOUS
    <3> QED
      BY <1>4, <1>5, <3>1
  <2> QED
    BY <1>4, <2>1
<1>7. PICK q : q = (CHOOSE x : Is(x)) /\ Shifted(v, n) = q
  BY DEF Shifted
<1>8. Is(q)
  BY <1>6, <1>7
<1>9. \A i \in 0 .. n : q[i] = IF i = 0 THEN v ELSE q[i - 1] \div Base
  BY <1>8
<1>10. \A i \in 1 .. n : f[i - 1] = q[i - 1] => f[i] = q[i]
  <2> TAKE i \in 1 .. n
  <2>1. i \in 0 .. n /\ i # 0
    OBVIOUS
  <2> QED
    BY <1>5, <1>9, <2>1
<1>11. f[0] = q[0]
  BY <1>4, <1>9
<1>12. \A i \in 0 .. n : f[i] = q[i]
  BY <1>10, <1>11, SameSteps
<1>13. q \in [0 .. n -> Int]
  <2>1. q = [i \in 0 .. n |-> q[i]]
    BY <1>8
  <2> QED
    BY <1>4, <1>12, <2>1
<1>14. \A i \in 1 .. n : q[i] = q[i - 1] \div Base
  <2> TAKE i \in 1 .. n
  <2>1. i \in 0 .. n /\ i # 0
    OBVIOUS
  <2> QED
    BY <1>9, <2>1
<1> QED
  BY <1>4, <1>7, <1>11, <1>13, <1>14

(* A number is written as bytes. *)
LEMMA BytesType ==
    ASSUME NEW v \in Int, NEW n \in Nat
    PROVE  Bytes(n, v) \in Seq(Byte) /\ Len(Bytes(n, v)) = n
<1>1. ASSUME NEW i \in 1 .. n PROVE Shifted(v, n)[i - 1] % Base \in Byte
  <2>1. i - 1 \in 0 .. n
    OBVIOUS
  <2>2. Shifted(v, n)[i - 1] \in Int
    BY <2>1, ShiftedIs
  <2> QED
    BY <2>2, Division
<1>2. Bytes(n, v) \in [1 .. n -> Byte]
  BY <1>1 DEF Bytes
<1> QED
  BY <1>2

(* What is shifted back in *)
LEMMA ValueIs ==
    ASSUME NEW b \in Seq(Byte), NEW signed \in BOOLEAN, NEW f,
           f[0] = Sign(b, signed),
           f \in [0 .. Len(b) -> Int],
           \A i \in 1 .. Len(b) : f[i] = f[i - 1] * Base + b[Len(b) + 1 - i]
    PROVE  Value(b, signed) = f[Len(b)]
<1>0. Len(b) \in Nat
  OBVIOUS
<1> DEFINE n == Len(b)
           Is(w) == w = [i \in 0 .. n |-> IF i = 0 THEN Sign(b, signed)
                                          ELSE w[i - 1] * Base + b[n + 1 - i]]
<1>1. Is(f)
  <2>1. ASSUME NEW i \in 0 .. n
        PROVE  f[i] = IF i = 0 THEN Sign(b, signed) ELSE f[i - 1] * Base + b[n + 1 - i]
    <3>1. i = 0 \/ i \in 1 .. n
      BY <1>0
    <3> QED
      BY <3>1
  <2> QED
    BY <2>1
<1>2. PICK w : w = (CHOOSE x : Is(x)) /\ Value(b, signed) = w[n]
  BY DEF Value
<1>3. Is(w)
  BY <1>1, <1>2
<1>4. \A i \in 0 .. n : w[i] = IF i = 0 THEN Sign(b, signed)
                               ELSE w[i - 1] * Base + b[n + 1 - i]
  BY <1>3
<1>5. \A i \in 1 .. n : f[i - 1] = w[i - 1] => f[i] = w[i]
  <2> TAKE i \in 1 .. n
  <2>1. i \in 0 .. n /\ i # 0
    BY <1>0
  <2> QED
    BY <1>4, <2>1
<1>6. f[0] = w[0]
  BY <1>0, <1>4
<1>7. \A i \in 0 .. n : f[i] = w[i]
  BY <1>0, <1>5, <1>6, SameSteps, Zenon
<1> QED
  BY <1>0, <1>2, <1>7

(* A number in the range of its type comes out as it went in. *)
LEMMA RoundTrip ==
    ASSUME NEW v \in Int, NEW n \in Nat, n # 0, NEW signed \in BOOLEAN, Fits(n, v, signed)
    PROVE  Value(Bytes(n, v), signed) = v
<1>1. PICK b, q : b = Bytes(n, v) /\ q = Shifted(v, n)
  OBVIOUS
<1>2. b \in Seq(Byte) /\ Len(b) = n
  BY <1>1, BytesType
<1>3. /\ q \in [0 .. n -> Int] /\ q[0] = v
      /\ \A i \in 1 .. n : q[i] = q[i - 1] \div Base
  BY <1>1, ShiftedIs
<1>4. \A i \in 1 .. n : b[i] = q[i - 1] % Base
  BY <1>1 DEF Bytes
<1>5. q[n] = Sign(b, signed)
  <2>1. PICK top : top = q[n - 1] /\ top \in Int /\ q[n] = top \div Base /\ b[n] = top % Base
    <3>1. n \in 1 .. n /\ n - 1 \in 0 .. n
      OBVIOUS
    <3> QED
      BY <1>3, <1>4, <3>1
  <2>2. Base \in Int /\ Base > 1
    BY BaseAssumption
  <2>3. IF signed THEN -Base <= 2 * top /\ 2 * top < Base ELSE 0 <= top /\ top < Base
    BY <1>1, <2>1, <2>2 DEF Fits, Byte
  <2>4. Sign(b, signed) = IF signed /\ 2 * b[n] >= Base THEN -1 ELSE 0
    BY <1>2 DEF Sign
  <2>5. CASE 0 <= top
    <3>1. top < Base /\ (signed => 2 * top < Base)
      BY <2>1, <2>2, <2>3, <2>5
    <3>2. top \div Base = 0 /\ top % Base = top
      BY <2>1, <2>2, <2>5, <3>1
    <3> QED
      BY <2>1, <2>2, <2>4, <3>1, <3>2
  <2>6. CASE ~ (0 <= top)
    <3>1. signed /\ -Base <= 2 * top
      BY <2>3, <2>6
    <3>2. top \div Base = -1 /\ top % Base = top + Base
      BY <2>1, <2>2, <2>6, <3>1
    <3> QED
      BY <2>1, <2>2, <2>4, <3>1, <3>2
  <2> QED
    BY <2>5, <2>6
<1> DEFINE f == [i \in 0 .. n |-> q[n - i]]
<1>6. f \in [0 .. n -> Int] /\ f[0] = q[n] /\ f[n] = q[0]
  BY <1>3
<1>7. ASSUME NEW i \in 1 .. n PROVE f[i] = f[i - 1] * Base + b[n + 1 - i]
  <2>1. PICK k : k = n + 1 - i /\ k \in 1 .. n /\ k - 1 = n - i /\ k = n - (i - 1)
    OBVIOUS
  <2>2. f[i] = q[k - 1] /\ f[i - 1] = q[k] /\ q[k - 1] \in Int
    BY <1>3, <2>1
  <2>3. (q[k - 1] \div Base) * Base + (q[k - 1] % Base) = q[k - 1]
    BY <2>2, Division
  <2>4. q[k] = q[k - 1] \div Base /\ b[k] = q[k - 1] % Base
    BY <1>3, <1>4, <2>1
  <2> QED
    BY <2>1, <2>2, <2>3, <2>4, Zenon
<1> HIDE DEF f
<1>8. Value(b, signed) = f[n]
  <2>1. f[0] = Sign(b, signed)
    BY <1>5, <1>6
  <2> QED
    BY <1>2, <1>6, <1>7, <2>1, ValueIs
<1> QED
  BY <1>1, <1>3, <1>6, <1>8

(* Sequences are taken apart element by element; Put(a, s) is s with an a  *)
(* before it.                                                              *)
Put(a, s) == <<a>> \o s

LEMMA PutProperties ==
    ASSUME NEW S, NEW a \in S, NEW s \in Seq(S)
    PROVE  /\ Put(a, s) \in Seq(S) /\ Put(a, s) # <<>>
           /\ Put(a, s)[1] = a /\ Head(Put(a, s)) = a /\ Tail(Put(a, s)) = s
<1>0. PICK c, x : c = <<a>> /\ x = c \o s
  OBVIOUS
<1>1. c = <<a>> /\ x = c \o s /\ c \in Seq(S) /\ Len(c) = 1 /\ c[1] = a
  BY <1>0
<1>2. /\ x \in Seq(S) /\ Len(x) = 1 + Len(s)
      /\ \A i \in 1 .. 1 + Len(s) : x[i] = IF i <= 1 THEN c[i] ELSE s[i - 1]
  BY <1>1, ConcatProperties
<1>3. x # <<>> /\ x[1] = a
  BY <1>1, <1>2
<1>4. Head(x) = a
  BY <1>2, <1>3
<1>5. Tail(x) = s
  <2>1. PICK t : t = Tail(x)
    OBVIOUS
  <2>2. t \in Seq(S) /\ Len(t) = Len(s) /\ \A i \in 1 .. Len(t) : t[i] = x[i + 1]
    BY <1>2, <1>3, <2>1, HeadTailProperties
  <2>3. \A i \in 1 .. Len(s) : t[i] = s[i]
    BY <1>2, <2>2
  <2> QED
    BY <2>1, <2>2, <2>3
<1> QED
  BY <1>1, <1>2, <1>3, <1>4, <1>5 DEF Put

LEMMA PutConcat ==
    ASSUME NEW S, NEW a \in S, NEW s \in Seq(S), NEW t \in Seq(S)
    PROVE  Put(a, s) \o t = Put(a, s \o t)
<1>1. <<a>> \in Seq(S)
  OBVIOUS
<1> QED
  BY <1>1, ConcatAssociative DEF Put

(* A sequence is its head put before its tail. *)
LEMMA PutIs ==
    ASSUME NEW S, NEW a \in S, NEW x \in Seq(S), NEW y \in Seq(S),
           Len(y) = Len(x) + 1, y[1] = a, \A i \in 1 .. Len(x) : y[i + 1] = x[i]
    PROVE  y = Put(a, x)
<1>0. Len(x) \in Nat
  OBVIOUS
<1>1. PICK c, z : c = <<a>> /\ z = c \o x
  OBVIOUS
<1>2. c \in Seq(S) /\ Len(c) = 1 /\ c[1] = a
  BY <1>1
<1>3. /\ z \in Seq(S) /\ Len(z) = 1 + Len(x)
      /\ \A i \in 1 .. 1 + Len(x) : z[i] = IF i <= 1 THEN c[i] ELSE x[i - 1]
  BY <1>1, <1>2, ConcatProperties
<1>4. ASSUME NEW i \in 1 .. Len(y) PROVE y[i] = z[i]
  <2>1. CASE i = 1
    <3>1. z[1] = c[1]
      BY <1>0, <1>3
    <3> QED
      BY <1>2, <2>1, <3>1
  <2>2. CASE i # 1
    <3>1. PICK k : k = i - 1 /\ k \in 1 .. Len(x) /\ i = k + 1 /\ i \in 1 .. 1 + Len(x) /\ ~ (i <= 1)
      BY <1>0, <2>2
    <3>2. z[i] = x[k]
      BY <1>3, <3>1
    <3> QED
      BY <3>1, <3>2
  <2> QED
    BY <2>1, <2>2
<1>5. y = z
  BY <1>0, <1>3, <1>4, SeqEqual
<1> QED
  BY <1>1, <1>5 DEF Put

(* Short sequences written out are put together of their elements, ... *)
LEMMA Two ==
    ASSUME NEW S, NEW a \in S, NEW b \in S
    PROVE  <<a, b>> = Put(a, <<b>>)
<1>0. PICK x, y : x = <<b>> /\ y = <<a, b>>
  OBVIOUS
<1>1. /\ x \in Seq(S) /\ Len(x) = 1 /\ x[1] = b
      /\ y \in Seq(S) /\ Len(y) = 2 /\ y[1] = a /\ y[2] = b
  BY <1>0
<1>2. Len(y) = Len(x) + 1
  BY <1>1
<1>3. \A i \in 1 .. Len(x) : y[i + 1] = x[i]
  <2>1. \A i \in 1 .. 1 : y[i + 1] = x[i]
    BY <1>1
  <2> QED
    BY <1>1, <2>1
<1>4. y = Put(a, x)
  BY <1>1, <1>2, <1>3, PutIs
<1> QED
  BY <1>0, <1>4, Zenon

LEMMA Three ==
    ASSUME NEW S, NEW a \in S, NEW b \in S, NEW c \in S
    PROVE  <<a, b, c>> = Put(a, <<b, c>>)
<1>0. PICK x, y : x = <<b, c>> /\ y = <<a, b, c>>
  OBVIOUS
<1>1. /\ x \in Seq(S) /\ Len(x) = 2 /\ x[1] = b /\ x[2] = c
      /\ y \in Seq(S) /\ Len(y) = 3 /\ y[1] = a /\ y[2] = b /\ y[3] = c
  BY <1>0
<1>2. Len(y) = Len(x) + 1
  BY <1>1
<1>3. \A i \in 1 .. Len(x) : y[i + 1] = x[i]
  <2>1. \A i \in 1 .. 2 : y[i + 1] = x[i]
    BY <1>1
  <2> QED
    BY <1>1, <2>1
<1>4. y = Put(a, x)
  BY <1>1, <1>2, <1>3, PutIs
<1> QED
  BY <1>0, <1>4, Zenon

(* ... also in front of others. *)
LEMMA PutTwo ==
    ASSUME NEW S, NEW a \in S, NEW b \in S, NEW s \in Seq(S)
    PROVE  <<a, b>> \o s = Put(a, Put(b, s))
<1>1. PICK x : x = <<b>>
  OBVIOUS
<1>2. x \in Seq(S)
  BY <1>1
<1>3. <<a, b>> = Put(a, x)
  BY <1>1, Two, Zenon
<1>4. Put(a, x) \o s = Put(a, x \o s)
  BY <1>2, PutConcat
<1> QED
  BY <1>1, <1>3, <1>4, Zenon DEF Put

LEMMA PutThree ==
    ASSUME NEW S, NEW a \in S, NEW b \in S, NEW c \in S, NEW s \in Seq(S)
    PROVE  <<a, b, c>> \o s = Put(a, Put(b, Put(c, s)))
<1>1. PICK x : x = <<b, c>>
  OBVIOUS
<1>2. x \in Seq(S)
  BY <1>1
<1>3. <<a, b, c>> = Put(a, x)
  BY <1>1, Three, Zenon
<1>4. Put(a, x) \o s = Put(a, x \o s)
  BY <1>2, PutConcat
<1>5. x \o s = Put(b, Put(c, s))
  BY <1>1, PutTwo
<1> QED
  BY <1>3, <1>4, <1>5, Zenon

(* Where two sequences are the same, so are beginnings of one length, and  *)
(* the rests.                                                              *)
LEMMA SamePrefix ==
    ASSUME NEW S, NEW a \in Seq(S), NEW b \in Seq(S), NEW c \in Seq(S), NEW d \in Seq(S),
           a \o b = c \o d, Len(a) = Len(c)
    PROVE  a = c /\ b = d
<1>1. PICK x : x = a \o b /\ x = c \o d
  OBVIOUS
<1>2. \A i \in 1 .. Len(a) + Len(b) : x[i] = IF i <= Len(a) THEN a[i] ELSE b[i - Len(a)]
  BY <1>1, ConcatProperties
<1>3. \A i \in 1 .. Len(c) + Len(d) : x[i] = IF i <= Len(c) THEN c[i] ELSE d[i - Len(c)]
  BY <1>1, ConcatProperties
<1>4. \A i \in 1 .. Len(a) : a[i] = c[i]
  <2> TAKE i \in 1 .. Len(a)
  <2>1. i \in 1 .. Len(a) + Len(b) /\ i \in 1 .. Len(c) + Len(d) /\ i <= Len(a) /\ i <= Len(c)
    OBVIOUS
  <2> QED
    BY <1>2, <1>3, <2>1
<1>5. a = c
  BY <1>4, SeqEqual
<1>6. b = d
  <2>1. a \o b = a \o d
    BY <1>5
  <2> QED
    BY <2>1, ConcatSimplifications
<1> QED
  BY <1>5, <1>6

(* The messages, what is written of them and what is read *)
Sendable == {m \in DataMessages \cup RowMessages :
                \E i \in 1 .. Len(Registered) : Registered[i] = m.class}
What == {"type", "size", "key", "len", "chars", "long", "short"}
ItemsRead == [what : What, value : Int \cup {CString(b) : b \in Seq(Byte)}]
Wanted == [what : What, size : Nat]
Written == Seq(Byte)

(* The records of an item *)
LEMMA Rows ==
    /\ \A w \in What, v \in Int \cup {CString(b) : b \in Seq(Byte)} :
          [what |-> w, value |-> v] \in ItemsRead
    /\ \A w \in What, n \in Nat : Item(w, n) \in Wanted
  BY DEF ItemsRead, Wanted, Item

(* What is read and written of messages, and of the pairs of a map *)
MessageItems(ms) == FlattenSeq([i \in 1 .. Len(ms) |-> Items(ms[i])])
MessageWrites(ms) == FlattenSeq([i \in 1 .. Len(ms) |-> Writes(ms[i])])
MapItems(ps) == FlattenSeq([i \in 1 .. Len(ps) |-> PairItems(ps[i])])
MapWrites(ps) == FlattenSeq([i \in 1 .. Len(ps) |-> PairWrites(ps[i])])
MapWants(n) == FlattenSeq([i \in 1 .. n |-> Pair])

(* The first part of what is flattened *)
LEMMA FlattenFirst ==
    ASSUME NEW S, NEW q \in Seq(Seq(S)), NEW r \in Seq(Seq(S)),
           Len(q) = Len(r) + 1, \A i \in 1 .. Len(r) : r[i] = q[i + 1]
    PROVE  FlattenSeq(q) = q[1] \o FlattenSeq(r)
<1>1. q # <<>> /\ Head(q) = q[1]
  <2>1. Len(r) \in Nat
    OBVIOUS
  <2> QED
    BY <2>1
<1>2. PICK t : t = Tail(q)
  OBVIOUS
<1>3. t \in Seq(Seq(S)) /\ Len(t) = Len(q) - 1 /\ \A i \in 1 .. Len(t) : t[i] = q[i + 1]
  BY <1>1, <1>2, HeadTailProperties
<1>4. Len(t) = Len(r)
  BY <1>3
<1>5. t = r
  BY <1>3, <1>4, SeqEqual
<1>6. FlattenSeq(q) = Head(q) \o FlattenSeq(t)
  BY <1>1, <1>2, FlattenHead
<1> QED
  BY <1>1, <1>5, <1>6

(* Bytes are numbers. *)
LEMMA ByteFact == Byte \subseteq Int /\ Base \in Nat
  BY BaseAssumption DEF Byte

(* What is read and written of a pair *)
LEMMA PairTypes ==
    ASSUME NEW p \in Pairs
    PROVE  /\ p[1] \in Int /\ p[2] \in Seq(Byte)
           /\ Fits(4, p[1], TRUE) /\ Fits(4, Len(p[2]), FALSE)
           /\ PairItems(p) \in Seq(ItemsRead) /\ PairWrites(p) \in Seq(Written)
<1>1. p[1] \in Int /\ p[2] \in Seq(Byte) /\ Fits(4, p[1], TRUE) /\ Fits(4, Len(p[2]), FALSE)
  BY DEF Pairs
<1>2. PICK a, b, c : /\ a = [what |-> "key", value |-> p[1]]
                     /\ b = [what |-> "len", value |-> Len(p[2])]
                     /\ c = [what |-> "chars", value |-> CString(p[2])]
  OBVIOUS
<1>3. a \in ItemsRead /\ b \in ItemsRead /\ c \in ItemsRead
  <2>1. Len(p[2]) \in Int
    BY <1>1
  <2>2. CString(p[2]) \in {CString(t) : t \in Seq(Byte)}
    BY <1>1
  <2>3. "key" \in What /\ "len" \in What /\ "chars" \in What
    BY DEF What
  <2> QED
    BY <1>1, <1>2, <2>1, <2>2, <2>3, Rows, Zenon
<1>4. PairItems(p) \in Seq(ItemsRead)
  <2>1. <<a, b, c>> \in Seq(ItemsRead)
    BY <1>3
  <2> QED
    BY <1>2, <2>1 DEF PairItems
<1>5. PICK x, y, z : x = Bytes(4, p[1]) /\ y = Bytes(4, Len(p[2])) /\ z = p[2]
  OBVIOUS
<1>6. x \in Written /\ y \in Written /\ z \in Written
  <2>1. Len(p[2]) \in Int
    BY <1>1
  <2> QED
    BY <1>1, <1>5, <2>1, BytesType DEF Written
<1>7. PairWrites(p) \in Seq(Written)
  <2>1. <<x, y, z>> \in Seq(Written)
    BY <1>6
  <2> QED
    BY <1>5, <2>1 DEF PairWrites
<1> QED
  BY <1>1, <1>4, <1>7

(* Of a map: nothing if it is empty; types; the first pair, then those of  *)
(* the rest.                                                               *)
LEMMA MapEmpty == MapItems(<<>>) = <<>> /\ MapWrites(<<>>) = <<>> /\ MapWants(0) = <<>>
<1>1. FlattenSeq([i \in 1 .. 0 |-> Pair]) = FlattenSeq(<<>>)
  <2>1. [i \in 1 .. 0 |-> Pair] = <<>>
    OBVIOUS
  <2> QED
    BY <2>1
<1>2. [i \in 1 .. Len(<<>>) |-> PairItems((<<>>)[i])] = <<>>
  OBVIOUS
<1>3. [i \in 1 .. Len(<<>>) |-> PairWrites((<<>>)[i])] = <<>>
  OBVIOUS
<1> QED
  BY <1>1, <1>2, <1>3, FlattenEmpty DEF MapItems, MapWrites, MapWants

LEMMA MapSequences ==
    ASSUME NEW ps \in Seq(Pairs), NEW q, NEW r,
           q = [i \in 1 .. Len(ps) |-> PairItems(ps[i])],
           r = [i \in 1 .. Len(ps) |-> PairWrites(ps[i])]
    PROVE  /\ q \in Seq(Seq(ItemsRead)) /\ Len(q) = Len(ps)
           /\ r \in Seq(Seq(Written)) /\ Len(r) = Len(ps)
<1>1. ASSUME NEW i \in 1 .. Len(ps)
      PROVE  PairItems(ps[i]) \in Seq(ItemsRead) /\ PairWrites(ps[i]) \in Seq(Written)
  <2>1. PICK p : p = ps[i] /\ p \in Pairs
    BY ElementOfSeq
  <2>2. PairItems(p) \in Seq(ItemsRead) /\ PairWrites(p) \in Seq(Written)
    BY <2>1, PairTypes
  <2> QED
    BY <2>1, <2>2
<1>2. PICK n, A, B : n = Len(ps) /\ n \in Nat /\ A = Seq(ItemsRead) /\ B = Seq(Written)
  OBVIOUS
<1>3. q \in [1 .. n -> A] /\ r \in [1 .. n -> B]
  BY <1>1, <1>2
<1>4. q \in Seq(A) /\ Len(q) = n
  BY <1>2, <1>3
<1>5. r \in Seq(B) /\ Len(r) = n
  BY <1>2, <1>3
<1> QED
  BY <1>2, <1>4, <1>5

LEMMA MapTypes ==
    ASSUME NEW ps \in Seq(Pairs)
    PROVE  MapItems(ps) \in Seq(ItemsRead) /\ MapWrites(ps) \in Seq(Written)
<1>1. PICK q, r : /\ q = [i \in 1 .. Len(ps) |-> PairItems(ps[i])]
                  /\ r = [i \in 1 .. Len(ps) |-> PairWrites(ps[i])]
  OBVIOUS
<1>2. q \in Seq(Seq(ItemsRead)) /\ r \in Seq(Seq(Written))
  BY <1>1, MapSequences
<1>3. FlattenSeq(q) \in Seq(ItemsRead) /\ FlattenSeq(r) \in Seq(Written)
  BY <1>2, FlattenType
<1> QED
  BY <1>1, <1>3 DEF MapItems, MapWrites

LEMMA MapFirst ==
    ASSUME NEW ps \in Seq(Pairs), ps # <<>>
    PROVE  /\ Head(ps) \in Pairs /\ Tail(ps) \in Seq(Pairs) /\ Len(ps) = Len(Tail(ps)) + 1
           /\ MapItems(ps) = PairItems(Head(ps)) \o MapItems(Tail(ps))
           /\ MapWrites(ps) = PairWrites(Head(ps)) \o MapWrites(Tail(ps))
<1>1. PICK h, t : h = Head(ps) /\ t = Tail(ps)
  OBVIOUS
<1>2. /\ h \in Pairs /\ h = ps[1] /\ t \in Seq(Pairs) /\ Len(ps) = Len(t) + 1 /\ Len(t) \in Nat
      /\ \A i \in 1 .. Len(t) : t[i] = ps[i + 1]
  BY <1>1, HeadTailProperties
<1>3. /\ \A i \in 1 .. Len(ps) : ps[i] \in Pairs
      /\ \A i \in 1 .. Len(t) : t[i] \in Pairs
  BY <1>2, ElementOfSeq
<1>4. PICK q, r, u, v : /\ q = [i \in 1 .. Len(ps) |-> PairItems(ps[i])]
                        /\ r = [i \in 1 .. Len(ps) |-> PairWrites(ps[i])]
                        /\ u = [i \in 1 .. Len(t) |-> PairItems(t[i])]
                        /\ v = [i \in 1 .. Len(t) |-> PairWrites(t[i])]
  OBVIOUS
<1>5. /\ q \in Seq(Seq(ItemsRead)) /\ Len(q) = Len(ps)
      /\ r \in Seq(Seq(Written)) /\ Len(r) = Len(ps)
  BY <1>4, MapSequences
<1>6. /\ u \in Seq(Seq(ItemsRead)) /\ Len(u) = Len(t)
      /\ v \in Seq(Seq(Written)) /\ Len(v) = Len(t)
  BY <1>2, <1>4, MapSequences
<1>7. MapItems(ps) = PairItems(h) \o MapItems(t)
  <2>1. q \in Seq(Seq(ItemsRead)) /\ u \in Seq(Seq(ItemsRead)) /\ Len(q) = Len(u) + 1
    BY <1>2, <1>5, <1>6
  <2>2. \A i \in 1 .. Len(u) : u[i] = q[i + 1]
    <3> TAKE i \in 1 .. Len(u)
    <3>1. i \in 1 .. Len(t) /\ i + 1 \in 1 .. Len(ps)
      BY <1>2, <1>6
    <3> QED
      BY <1>2, <1>4, <3>1
  <2>3. q[1] = PairItems(h)
    BY <1>2, <1>4
  <2>4. FlattenSeq(q) = q[1] \o FlattenSeq(u)
    BY <2>1, <2>2, FlattenFirst
  <2> QED
    BY <1>4, <2>3, <2>4 DEF MapItems
<1>8. MapWrites(ps) = PairWrites(h) \o MapWrites(t)
  <2>1. r \in Seq(Seq(Written)) /\ v \in Seq(Seq(Written)) /\ Len(r) = Len(v) + 1
    BY <1>2, <1>5, <1>6
  <2>2. \A i \in 1 .. Len(v) : v[i] = r[i + 1]
    <3> TAKE i \in 1 .. Len(v)
    <3>1. i \in 1 .. Len(t) /\ i + 1 \in 1 .. Len(ps)
      BY <1>2, <1>6
    <3> QED
      BY <1>2, <1>4, <3>1
  <2>3. r[1] = PairWrites(h)
    BY <1>2, <1>4
  <2>4. FlattenSeq(r) = r[1] \o FlattenSeq(v)
    BY <2>1, <2>2, FlattenFirst
  <2> QED
    BY <1>4, <2>3, <2>4 DEF MapWrites
<1> QED
  BY <1>1, <1>2, <1>7, <1>8

LEMMA MapWantsIs ==
    ASSUME NEW n \in Nat
    PROVE  /\ MapWants(n) \in Seq(Wanted)
           /\ n # 0 => MapWants(n) = Pair \o MapWants(n - 1)
<1>1. Pair \in Seq(Wanted)
  <2>1. Item("key", 4) \in Wanted /\ Item("len", 4) \in Wanted
    <3>1. "key" \in What /\ "len" \in What /\ 4 \in Nat
      BY DEF What
    <3> QED
      BY <3>1, Rows, Zenon
  <2> QED
    BY <2>1 DEF Pair
<1>2. \A k \in Nat : [i \in 1 .. k |-> Pair] \in Seq(Seq(Wanted)) /\ Len([i \in 1 .. k |-> Pair]) = k
  BY <1>1
<1>3. MapWants(n) \in Seq(Wanted)
  BY <1>2, FlattenType DEF MapWants
<1>4. ASSUME n # 0 PROVE MapWants(n) = Pair \o MapWants(n - 1)
  <2>1. PICK q, r, k : q = [i \in 1 .. n |-> Pair] /\ k = n - 1 /\ r = [i \in 1 .. k |-> Pair]
    OBVIOUS
  <2>9. k \in Nat
    BY <1>4, <2>1
  <2>2. q \in Seq(Seq(Wanted)) /\ Len(q) = n /\ k \in Nat /\ r \in Seq(Seq(Wanted)) /\ Len(r) = k
    BY <1>2, <2>1, <2>9, Zenon
  <2>3. Len(q) = Len(r) + 1
    BY <2>1, <2>2
  <2>4. \A i \in 1 .. Len(r) : r[i] = q[i + 1]
    BY <2>1, <2>2
  <2>5. q[1] = Pair
    BY <1>4, <2>1
  <2>6. FlattenSeq(q) = q[1] \o FlattenSeq(r)
    BY <2>2, <2>3, <2>4, FlattenFirst
  <2> QED
    BY <2>1, <2>5, <2>6 DEF MapWants
<1> QED
  BY <1>3, <1>4

(* The number of a registered class finds the class again, and has room. *)
LEMMA TypeOfIs ==
    ASSUME NEW m \in Sendable, NEW v, v = TypeOf(m.class)
    PROVE  /\ v \in Nat /\ v < Len(Registered) /\ Registered[v + 1] = m.class
           /\ Fits(2, v, FALSE)
<1>1. Len(Registered) \in Nat
  BY RegisteredAssumption
<1>2. PICK k : k = (CHOOSE i \in 1 .. Len(Registered) : Registered[i] = m.class)
  OBVIOUS
<1>3. k \in 1 .. Len(Registered) /\ Registered[k] = m.class
  BY <1>2 DEF Sendable
<1>4. v = k - 1 /\ v + 1 = k
  BY <1>1, <1>2, <1>3 DEF TypeOf
<1>5. Fits(2, k - 1, FALSE)
  BY <1>3, RegisteredAssumption
<1>6. v \in Nat /\ v < Len(Registered)
  BY <1>1, <1>3, <1>4
<1> QED
  BY <1>3, <1>4, <1>5, <1>6, Zenon

(* An item that was read *)
ReadAs(w, v) == [what |-> w, value |-> v]

(* A message of each class, item by item *)
DataParts(m) ==
    /\ m.class = "data" /\ m.map \in Seq(Pairs) /\ Fits(4, Len(m.map), FALSE)
    /\ Items(m) = Put(ReadAs("type", TypeOf(m.class)),
                      Put(ReadAs("size", Len(m.map)), MapItems(m.map)))
    /\ Writes(m) = Put(Bytes(2, TypeOf(m.class)),
                       Put(Bytes(4, Len(m.map)), MapWrites(m.map)))
RowParts(m) ==
    /\ m.class = "row" /\ m.long \in Int /\ m.short \in Int
    /\ Fits(8, m.long, TRUE) /\ Fits(2, m.short, TRUE)
    /\ Items(m) = Put(ReadAs("type", TypeOf(m.class)),
                      Put(ReadAs("long", m.long), Put(ReadAs("short", m.short), <<>>)))
    /\ Writes(m) = Put(Bytes(2, TypeOf(m.class)),
                       Put(Bytes(8, m.long), Put(Bytes(2, m.short), <<>>)))

(* Types of items *)
LEMMA ReadAsType ==
    /\ \A w \in What, v \in Int : ReadAs(w, v) \in ItemsRead
    /\ \A b \in Seq(Byte) : ReadAs("chars", CString(b)) \in ItemsRead
<1>1. "chars" \in What
  BY DEF What
<1> QED
  BY <1>1, Rows DEF ReadAs

(* Two elements, put before nothing *)
LEMMA PutNothing ==
    ASSUME NEW S, NEW a \in S, NEW b \in S
    PROVE  <<a, b>> = Put(a, Put(b, <<>>))
<1>1. PICK x : x = <<b>>
  OBVIOUS
<1>2. x \in Seq(S)
  BY <1>1
<1>3. <<b>> \o <<>> = <<b>>
  BY <1>1, <1>2, ConcatEmptySeq
<1>4. <<a, b>> = Put(a, <<b>>)
  BY Two
<1> QED
  BY <1>3, <1>4, Zenon DEF Put

(* Every message that is sent is one of the two. *)
LEMMA MessageParts ==
    ASSUME NEW m \in Sendable
    PROVE  /\ DataParts(m) \/ RowParts(m)
           /\ Items(m) \in Seq(ItemsRead) /\ Writes(m) \in Seq(Written)
<1>1. PICK t : t = TypeOf(m.class)
  OBVIOUS
<1>2. t \in Nat
  BY <1>1, TypeOfIs
<1>3. PICK a, x : a = ReadAs("type", t) /\ x = Bytes(2, t)
  OBVIOUS
<1>4. a \in ItemsRead
  <2>1. "type" \in What /\ t \in Int
    BY <1>2 DEF What
  <2> QED
    BY <1>3, <2>1, ReadAsType
<1>5. x \in Written
  <2>1. t \in Int
    BY <1>2
  <2> QED
    BY <1>3, <2>1, BytesType DEF Written
<1>6. CASE m \in DataMessages
  <2>0. m \in [class : {"data"}, map : Seq(Pairs)] /\ Fits(4, Len(m.map), FALSE)
    BY <1>6, Zenon DEF DataMessages
  <2>12. m.class = "data" /\ m.map \in Seq(Pairs)
    BY <2>0
  <2>1. /\ m.class = "data" /\ m.map \in Seq(Pairs) /\ Fits(4, Len(m.map), FALSE)
        /\ Len(m.map) \in Nat
    BY <2>0, <2>12, LenProperties, Zenon
  <2>2. PICK b, y, s, u : /\ b = ReadAs("size", Len(m.map)) /\ y = Bytes(4, Len(m.map))
                          /\ s = MapItems(m.map) /\ u = MapWrites(m.map)
    OBVIOUS
  <2>3. b \in ItemsRead
    <3>1. "size" \in What /\ Len(m.map) \in Int
      BY <2>1 DEF What
    <3> QED
      BY <2>2, <3>1, ReadAsType
  <2>4. y \in Written
    <3>1. Len(m.map) \in Int
      BY <2>1
    <3> QED
      BY <2>2, <3>1, BytesType DEF Written
  <2>5. s \in Seq(ItemsRead) /\ u \in Seq(Written)
    BY <2>1, <2>2, MapTypes
  <2>6. Items(m) = Put(a, Put(b, s))
    BY <1>1, <1>3, <2>1, <2>2, Zenon DEF Items, MapItems, Put, ReadAs
  <2>7. Writes(m) = Put(x, Put(y, u))
    BY <1>1, <1>3, <2>1, <2>2, Zenon DEF Writes, MapWrites, Put
  <2>8. Put(b, s) \in Seq(ItemsRead) /\ Put(y, u) \in Seq(Written)
    BY <2>3, <2>4, <2>5, PutProperties
  <2>9. Put(a, Put(b, s)) \in Seq(ItemsRead) /\ Put(x, Put(y, u)) \in Seq(Written)
    BY <1>4, <1>5, <2>8, PutProperties
  <2>10. DataParts(m)
    BY <1>1, <1>3, <2>1, <2>2, <2>6, <2>7, Zenon DEF DataParts
  <2> QED
    BY <2>6, <2>7, <2>9, <2>10
<1>7. CASE m \in RowMessages
  <2>1. /\ m.class = "row" /\ m.long \in Int /\ m.short \in Int
        /\ Fits(8, m.long, TRUE) /\ Fits(2, m.short, TRUE)
    BY <1>7 DEF RowMessages
  <2>2. PICK b, y, c, z : /\ b = ReadAs("long", m.long) /\ y = Bytes(8, m.long)
                          /\ c = ReadAs("short", m.short) /\ z = Bytes(2, m.short)
    OBVIOUS
  <2>3. b \in ItemsRead /\ c \in ItemsRead
    <3>1. "long" \in What /\ "short" \in What
      BY DEF What
    <3> QED
      BY <2>1, <2>2, <3>1, ReadAsType
  <2>4. y \in Written /\ z \in Written
    BY <2>1, <2>2, BytesType DEF Written
  <2>6. Items(m) = Put(a, Put(b, Put(c, <<>>)))
    <3>1. m.class # "data"
      BY <2>1
    <3>2. Items(m) = Put(a, <<b, c>>)
      BY <1>1, <1>3, <2>2, <3>1, Zenon DEF Items, Put, ReadAs
    <3> QED
      BY <2>3, <3>2, PutNothing
  <2>7. Writes(m) = Put(x, Put(y, Put(z, <<>>)))
    <3>1. m.class # "data"
      BY <2>1
    <3>2. Writes(m) = Put(x, <<y, z>>)
      BY <1>1, <1>3, <2>2, <3>1, Zenon DEF Writes, Put
    <3> QED
      BY <2>4, <3>2, PutNothing
  <2>5. <<>> \in Seq(ItemsRead) /\ <<>> \in Seq(Written)
    BY EmptySeq
  <2>8. Put(c, <<>>) \in Seq(ItemsRead) /\ Put(z, <<>>) \in Seq(Written)
    BY <2>3, <2>4, <2>5, PutProperties
  <2>9. Put(b, Put(c, <<>>)) \in Seq(ItemsRead) /\ Put(y, Put(z, <<>>)) \in Seq(Written)
    BY <2>3, <2>4, <2>8, PutProperties
  <2>10. /\ Put(a, Put(b, Put(c, <<>>))) \in Seq(ItemsRead)
         /\ Put(x, Put(y, Put(z, <<>>))) \in Seq(Written)
    BY <1>4, <1>5, <2>9, PutProperties
  <2>11. RowParts(m)
    BY <1>1, <1>3, <2>1, <2>2, <2>6, <2>7, Zenon DEF RowParts
  <2> QED
    BY <2>6, <2>7, <2>10, <2>11
<1> QED
  BY <1>6, <1>7 DEF Sendable

(* Of messages: types; the first one, then the rest; nothing if there is   *)
(* none.                                                                   *)
LEMMA MessageSequences ==
    ASSUME NEW ms \in Seq(Sendable), NEW q, NEW r,
           q = [i \in 1 .. Len(ms) |-> Items(ms[i])],
           r = [i \in 1 .. Len(ms) |-> Writes(ms[i])]
    PROVE  /\ q \in Seq(Seq(ItemsRead)) /\ Len(q) = Len(ms)
           /\ r \in Seq(Seq(Written)) /\ Len(r) = Len(ms)
<1>1. ASSUME NEW i \in 1 .. Len(ms)
      PROVE  Items(ms[i]) \in Seq(ItemsRead) /\ Writes(ms[i]) \in Seq(Written)
  <2>1. PICK p : p = ms[i] /\ p \in Sendable
    BY ElementOfSeq
  <2>2. Items(p) \in Seq(ItemsRead) /\ Writes(p) \in Seq(Written)
    BY <2>1, MessageParts
  <2> QED
    BY <2>1, <2>2
<1>2. PICK n, A, B : n = Len(ms) /\ n \in Nat /\ A = Seq(ItemsRead) /\ B = Seq(Written)
  OBVIOUS
<1>3. q \in [1 .. n -> A] /\ r \in [1 .. n -> B]
  BY <1>1, <1>2
<1>4. q \in Seq(A) /\ Len(q) = n
  BY <1>2, <1>3
<1>5. r \in Seq(B) /\ Len(r) = n
  BY <1>2, <1>3
<1> QED
  BY <1>2, <1>4, <1>5

LEMMA MessageTypes ==
    ASSUME NEW ps \in Seq(Sendable)
    PROVE  MessageItems(ps) \in Seq(ItemsRead) /\ MessageWrites(ps) \in Seq(Written)
<1>1. PICK q, r : /\ q = [i \in 1 .. Len(ps) |-> Items(ps[i])]
                  /\ r = [i \in 1 .. Len(ps) |-> Writes(ps[i])]
  OBVIOUS
<1>2. q \in Seq(Seq(ItemsRead)) /\ r \in Seq(Seq(Written))
  BY <1>1, MessageSequences
<1>3. FlattenSeq(q) \in Seq(ItemsRead) /\ FlattenSeq(r) \in Seq(Written)
  BY <1>2, FlattenType
<1> QED
  BY <1>1, <1>3 DEF MessageItems, MessageWrites

LEMMA MessageFirst ==
    ASSUME NEW ps \in Seq(Sendable), ps # <<>>
    PROVE  /\ Head(ps) \in Sendable /\ Tail(ps) \in Seq(Sendable) /\ Len(ps) = Len(Tail(ps)) + 1
           /\ MessageItems(ps) = Items(Head(ps)) \o MessageItems(Tail(ps))
           /\ MessageWrites(ps) = Writes(Head(ps)) \o MessageWrites(Tail(ps))
<1>1. PICK h, t : h = Head(ps) /\ t = Tail(ps)
  OBVIOUS
<1>2. /\ h \in Sendable /\ h = ps[1] /\ t \in Seq(Sendable) /\ Len(ps) = Len(t) + 1 /\ Len(t) \in Nat
      /\ \A i \in 1 .. Len(t) : t[i] = ps[i + 1]
  BY <1>1, HeadTailProperties
<1>3. /\ \A i \in 1 .. Len(ps) : ps[i] \in Sendable
      /\ \A i \in 1 .. Len(t) : t[i] \in Sendable
  BY <1>2, ElementOfSeq
<1>4. PICK q, r, u, v : /\ q = [i \in 1 .. Len(ps) |-> Items(ps[i])]
                        /\ r = [i \in 1 .. Len(ps) |-> Writes(ps[i])]
                        /\ u = [i \in 1 .. Len(t) |-> Items(t[i])]
                        /\ v = [i \in 1 .. Len(t) |-> Writes(t[i])]
  OBVIOUS
<1>5. /\ q \in Seq(Seq(ItemsRead)) /\ Len(q) = Len(ps)
      /\ r \in Seq(Seq(Written)) /\ Len(r) = Len(ps)
  BY <1>4, MessageSequences
<1>6. /\ u \in Seq(Seq(ItemsRead)) /\ Len(u) = Len(t)
      /\ v \in Seq(Seq(Written)) /\ Len(v) = Len(t)
  BY <1>2, <1>4, MessageSequences
<1>7. MessageItems(ps) = Items(h) \o MessageItems(t)
  <2>1. q \in Seq(Seq(ItemsRead)) /\ u \in Seq(Seq(ItemsRead)) /\ Len(q) = Len(u) + 1
    BY <1>2, <1>5, <1>6
  <2>2. \A i \in 1 .. Len(u) : u[i] = q[i + 1]
    <3> TAKE i \in 1 .. Len(u)
    <3>1. i \in 1 .. Len(t) /\ i + 1 \in 1 .. Len(ps)
      BY <1>2, <1>6
    <3> QED
      BY <1>2, <1>4, <3>1
  <2>3. q[1] = Items(h)
    BY <1>2, <1>4
  <2>4. FlattenSeq(q) = q[1] \o FlattenSeq(u)
    BY <2>1, <2>2, FlattenFirst
  <2> QED
    BY <1>4, <2>3, <2>4 DEF MessageItems
<1>8. MessageWrites(ps) = Writes(h) \o MessageWrites(t)
  <2>1. r \in Seq(Seq(Written)) /\ v \in Seq(Seq(Written)) /\ Len(r) = Len(v) + 1
    BY <1>2, <1>5, <1>6
  <2>2. \A i \in 1 .. Len(v) : v[i] = r[i + 1]
    <3> TAKE i \in 1 .. Len(v)
    <3>1. i \in 1 .. Len(t) /\ i + 1 \in 1 .. Len(ps)
      BY <1>2, <1>6
    <3> QED
      BY <1>2, <1>4, <3>1
  <2>3. r[1] = Writes(h)
    BY <1>2, <1>4
  <2>4. FlattenSeq(r) = r[1] \o FlattenSeq(v)
    BY <2>1, <2>2, FlattenFirst
  <2> QED
    BY <1>4, <2>3, <2>4 DEF MessageWrites
<1> QED
  BY <1>1, <1>2, <1>7, <1>8

LEMMA MessageEmpty == MessageItems(<<>>) = <<>> /\ MessageWrites(<<>>) = <<>>
<1>1. [i \in 1 .. Len(<<>>) |-> Items((<<>>)[i])] = <<>>
  OBVIOUS
<1>2. [i \in 1 .. Len(<<>>) |-> Writes((<<>>)[i])] = <<>>
  OBVIOUS
<1> QED
  BY <1>1, <1>2, FlattenEmpty DEF MessageItems, MessageWrites

(* Where the reader is in what is still to be read.  w is what it wants of *)
(* this message; the items to come, and their bytes, are those of the rest *)
(* of this message and of the messages ms.                                 *)
AtType(w, items, values, ms) ==
    /\ w = Put(Item("type", 2), <<>>)
    /\ items = MessageItems(ms) /\ values = MessageWrites(ms)
AtSize(w, items, values, ms, ps) ==
    /\ Fits(4, Len(ps), FALSE)
    /\ w = Put(Item("size", 4), <<>>)
    /\ items = Put(ReadAs("size", Len(ps)), MapItems(ps) \o MessageItems(ms))
    /\ values = Put(Bytes(4, Len(ps)), MapWrites(ps) \o MessageWrites(ms))
AtPairs(w, items, values, ms, ps) ==
    /\ w = MapWants(Len(ps))
    /\ items = MapItems(ps) \o MessageItems(ms)
    /\ values = MapWrites(ps) \o MessageWrites(ms)
AtLen(w, items, values, ms, ps, p) ==
    /\ w = Put(Item("len", 4), MapWants(Len(ps)))
    /\ items = Put(ReadAs("len", Len(p[2])),
                   Put(ReadAs("chars", CString(p[2])), MapItems(ps) \o MessageItems(ms)))
    /\ values = Put(Bytes(4, Len(p[2])), Put(p[2], MapWrites(ps) \o MessageWrites(ms)))
AtChars(w, items, values, ms, ps, p) ==
    /\ w = Put(Item("chars", Len(p[2])), MapWants(Len(ps)))
    /\ items = Put(ReadAs("chars", CString(p[2])), MapItems(ps) \o MessageItems(ms))
    /\ values = Put(p[2], MapWrites(ps) \o MessageWrites(ms))
AtLong(w, items, values, ms, l, s) ==
    /\ Fits(8, l, TRUE) /\ Fits(2, s, TRUE)
    /\ w = Put(Item("long", 8), Put(Item("short", 2), <<>>))
    /\ items = Put(ReadAs("long", l), Put(ReadAs("short", s), MessageItems(ms)))
    /\ values = Put(Bytes(8, l), Put(Bytes(2, s), MessageWrites(ms)))
AtShort(w, items, values, ms, s) ==
    /\ Fits(2, s, TRUE)
    /\ w = Put(Item("short", 2), <<>>)
    /\ items = Put(ReadAs("short", s), MessageItems(ms))
    /\ values = Put(Bytes(2, s), MessageWrites(ms))

(* What is still to come, at one of these places *)
ToCome(w, items, values) ==
    \E ms \in Seq(Sendable) :
        \/ AtType(w, items, values, ms)
        \/ \E ps \in Seq(Pairs) :
              \/ AtSize(w, items, values, ms, ps)
              \/ AtPairs(w, items, values, ms, ps)
              \/ \E p \in Pairs :
                    \/ AtLen(w, items, values, ms, ps, p)
                    \/ AtChars(w, items, values, ms, ps, p)
        \/ \E l, s \in Int : AtLong(w, items, values, ms, l, s)
        \/ \E s \in Int : AtShort(w, items, values, ms, s)

(* What the next bytes are read as is the next item, and what is wanted    *)
(* after it is in its place.                                               *)
Follows(w, items, values) ==
    /\ items # <<>> /\ values # <<>>
    /\ Len(Head(values)) = Head(w).size
    /\ Head(items) = ReadAs(Head(w).what, Decoded(Head(w).what, Head(values)))
    /\ ToCome(After(Head(w).what, Decoded(Head(w).what, Head(values))) \o Tail(w),
              Tail(items), Tail(values))

(* It is enough to know the value and its bytes. *)
LEMMA FollowsBy ==
    ASSUME NEW what \in What, NEW size \in Nat, NEW w \in Seq(Wanted),
           NEW v, ReadAs(what, v) \in ItemsRead, NEW items \in Seq(ItemsRead),
           NEW b \in Written, NEW values \in Seq(Written),
           Len(b) = size, Decoded(what, b) = v,
           NEW u, u = After(what, v) \o w, ToCome(u, items, values)
    PROVE  Follows(Put(Item(what, size), w), Put(ReadAs(what, v), items), Put(b, values))
<1>1. PICK x, y, z : /\ x = Put(Item(what, size), w)
                     /\ y = Put(ReadAs(what, v), items) /\ z = Put(b, values)
  OBVIOUS
<1>2. Head(x) = Item(what, size) /\ Tail(x) = w
  <2>1. Item(what, size) \in Wanted
    BY Rows
  <2> QED
    BY <1>1, <2>1, PutProperties
<1>3. y # <<>> /\ Head(y) = ReadAs(what, v) /\ Tail(y) = items
  BY <1>1, PutProperties
<1>4. z # <<>> /\ Head(z) = b /\ Tail(z) = values
  BY <1>1, PutProperties
<1>5. Head(x).what = what /\ Head(x).size = size
  BY <1>2 DEF Item
<1> QED
  BY <1>1, <1>2, <1>3, <1>4, <1>5, Zenon DEF Follows

(* The places, one by one *)
LEMMA ToComeBy ==
    ASSUME NEW w, NEW items, NEW values, NEW ms \in Seq(Sendable)
    PROVE  /\ AtType(w, items, values, ms) => ToCome(w, items, values)
           /\ \A ps \in Seq(Pairs) :
                 /\ AtSize(w, items, values, ms, ps) => ToCome(w, items, values)
                 /\ AtPairs(w, items, values, ms, ps) => ToCome(w, items, values)
                 /\ \A p \in Pairs :
                       /\ AtLen(w, items, values, ms, ps, p) => ToCome(w, items, values)
                       /\ AtChars(w, items, values, ms, ps, p) => ToCome(w, items, values)
           /\ \A l, s \in Int : AtLong(w, items, values, ms, l, s) => ToCome(w, items, values)
           /\ \A s \in Int : AtShort(w, items, values, ms, s) => ToCome(w, items, values)
  BY Zenon DEF ToCome

(* What was written as a number is read as that number, if it had room. *)
LEMMA DecodedIs ==
    ASSUME NEW what \in What \ {"chars"}, NEW n \in Nat, n # 0, NEW v \in Int,
           Fits(n, v, Signed(what))
    PROVE  Decoded(what, Bytes(n, v)) = v
<1>1. Signed(what) \in BOOLEAN
  BY DEF Signed
<1>2. Decoded(what, Bytes(n, v)) = Value(Bytes(n, v), Signed(what))
  BY DEF Decoded
<1> QED
  BY <1>1, <1>2, RoundTrip

(* Which items have a sign *)
LEMMA SignedIs ==
    /\ Signed("key") = TRUE /\ Signed("long") = TRUE /\ Signed("short") = TRUE
    /\ Signed("type") = FALSE /\ Signed("size") = FALSE /\ Signed("len") = FALSE
  BY DEF Signed

(* One element, put before nothing *)
LEMMA PutOne ==
    ASSUME NEW x
    PROVE  <<x>> = Put(x, <<>>)
<1>1. PICK c : c = <<x>>
  OBVIOUS
<1>2. c \in Seq({x})
  BY <1>1
<1>3. c \o <<>> = c
  BY <1>2, ConcatEmptySeq
<1> QED
  BY <1>1, <1>3, Zenon DEF Put

(* What the reader wants after each item *)
LEMMA AfterIs ==
    ASSUME NEW v
    PROVE  /\ After("size", v) = MapWants(v)
           /\ After("len", v) = Put(Item("chars", v), <<>>)
           /\ After("key", v) = <<>> /\ After("chars", v) = <<>>
           /\ After("long", v) = <<>> /\ After("short", v) = <<>>
           /\ After("type", v) = IF Registered[v + 1] = "data" THEN Put(Item("size", 4), <<>>)
                                 ELSE Put(Item("long", 8), Put(Item("short", 2), <<>>))
<1>1. After("size", v) = MapWants(v)
  BY DEF After, MapWants
<1>2. After("len", v) = Put(Item("chars", v), <<>>)
  <2>1. After("len", v) = <<Item("chars", v)>>
    BY DEF After
  <2> QED
    BY <2>1, PutOne, Zenon
<1>3. /\ After("key", v) = <<>> /\ After("chars", v) = <<>>
      /\ After("long", v) = <<>> /\ After("short", v) = <<>>
  BY DEF After
<1>4. After("type", v) = IF Registered[v + 1] = "data" THEN <<Item("size", 4)>>
                         ELSE <<Item("long", 8), Item("short", 2)>>
  BY DEF After
<1>5. <<Item("size", 4)>> = Put(Item("size", 4), <<>>)
  BY PutOne, Zenon
<1>6. <<Item("long", 8), Item("short", 2)>> = Put(Item("long", 8), Put(Item("short", 2), <<>>))
  <2>1. PICK x, y : x = Item("long", 8) /\ y = Item("short", 2)
    OBVIOUS
  <2>2. x \in {x, y} /\ y \in {x, y}
    OBVIOUS
  <2>3. <<x, y>> = Put(x, Put(y, <<>>))
    BY <2>2, PutNothing
  <2> QED
    BY <2>1, <2>3, Zenon
<1> QED
  BY <1>1, <1>2, <1>3, <1>4, <1>5, <1>6, Zenon

(* Types of what is left of a map and of the messages after it *)
LEMMA RestTypes ==
    ASSUME NEW ms \in Seq(Sendable), NEW ps \in Seq(Pairs)
    PROVE  /\ MapItems(ps) \o MessageItems(ms) \in Seq(ItemsRead)
           /\ MapWrites(ps) \o MessageWrites(ms) \in Seq(Written)
           /\ MapWants(Len(ps)) \in Seq(Wanted)
<1>1. MapItems(ps) \in Seq(ItemsRead) /\ MapWrites(ps) \in Seq(Written)
  BY MapTypes
<1>2. MessageItems(ms) \in Seq(ItemsRead) /\ MessageWrites(ms) \in Seq(Written)
  BY MessageTypes
<1>3. MapItems(ps) \o MessageItems(ms) \in Seq(ItemsRead)
  BY <1>1, <1>2, ConcatProperties
<1>4. MapWrites(ps) \o MessageWrites(ms) \in Seq(Written)
  BY <1>1, <1>2, ConcatProperties
<1>5. Len(ps) \in Nat
  BY LenProperties
<1> QED
  BY <1>3, <1>4, <1>5, MapWantsIs

(* At each place, what comes next is what is wanted: a short, ... *)
LEMMA ShortFollows ==
    ASSUME NEW ms \in Seq(Sendable), NEW s \in Int, NEW w, NEW items, NEW values,
           AtShort(w, items, values, ms, s)
    PROVE  Follows(w, items, values)
<1>1. PICK x, y : x = MessageItems(ms) /\ y = MessageWrites(ms)
  OBVIOUS
<1>2. x \in Seq(ItemsRead) /\ y \in Seq(Written)
  BY <1>1, MessageTypes
<1>3. PICK u : u = After("short", s) \o <<>>
  OBVIOUS
<1>4. ToCome(u, x, y)
  <2>1. u = <<>>
    <3>1. <<>> \o <<>> = <<>>
      OBVIOUS
    <3> QED
      BY <1>3, <3>1, AfterIs, Zenon
  <2>2. <<>> \o x = x /\ <<>> \o y = y
    BY <1>2, ConcatEmptySeq
  <2>3. Len(<<>>) = 0 /\ <<>> \in Seq(Pairs)
    BY EmptySeq
  <2>4. AtPairs(u, x, y, ms, <<>>)
    BY <1>1, <2>1, <2>2, <2>3, MapEmpty, Zenon DEF AtPairs
  <2> QED
    BY <2>3, <2>4, ToComeBy
<1>5. PICK b : b = Bytes(2, s)
  OBVIOUS
<1>6. b \in Written /\ Len(b) = 2 /\ Decoded("short", b) = s
  <2>1. "short" \in What \ {"chars"} /\ 2 \in Nat /\ 2 # 0
    BY DEF What
  <2>2. Fits(2, s, Signed("short"))
    BY SignedIs DEF AtShort
  <2> QED
    BY <1>5, <2>1, <2>2, BytesType, DecodedIs DEF Written
<1>7. "short" \in What /\ 2 \in Nat /\ <<>> \in Seq(Wanted) /\ ReadAs("short", s) \in ItemsRead
  <2>1. "short" \in What
    BY DEF What
  <2> QED
    BY <2>1, ReadAsType, EmptySeq
<1>8. Follows(Put(Item("short", 2), <<>>), Put(ReadAs("short", s), x), Put(b, y))
  BY <1>2, <1>3, <1>4, <1>6, <1>7, FollowsBy
<1> QED
  BY <1>1, <1>5, <1>8, Zenon DEF AtShort

(* ... a long, ... *)
LEMMA LongFollows ==
    ASSUME NEW ms \in Seq(Sendable), NEW l \in Int, NEW s \in Int, NEW w, NEW items, NEW values,
           AtLong(w, items, values, ms, l, s)
    PROVE  Follows(w, items, values)
<1>1. PICK c, d, e : c = ReadAs("short", s) /\ d = Bytes(2, s) /\ e = Item("short", 2)
  OBVIOUS
<1>2. c \in ItemsRead /\ d \in Written /\ e \in Wanted
  <2>1. "short" \in What /\ 2 \in Nat
    BY DEF What
  <2> QED
    BY <1>1, <2>1, ReadAsType, BytesType, Rows DEF Written
<1>3. PICK x, y, z : /\ x = Put(c, MessageItems(ms)) /\ y = Put(d, MessageWrites(ms))
                     /\ z = Put(e, <<>>)
  OBVIOUS
<1>4. x \in Seq(ItemsRead) /\ y \in Seq(Written) /\ z \in Seq(Wanted)
  <2>1. MessageItems(ms) \in Seq(ItemsRead) /\ MessageWrites(ms) \in Seq(Written)
    BY MessageTypes
  <2>2. <<>> \in Seq(Wanted)
    BY EmptySeq
  <2> QED
    BY <1>2, <1>3, <2>1, <2>2, PutProperties
<1>5. PICK u : u = After("long", l) \o z
  OBVIOUS
<1>6. ToCome(u, x, y)
  <2>1. u = z
    <3>1. <<>> \o z = z
      BY <1>4, ConcatEmptySeq
    <3> QED
      BY <1>5, <3>1, AfterIs, Zenon
  <2>2. AtShort(u, x, y, ms, s)
    BY <1>1, <1>3, <2>1, Zenon DEF AtShort, AtLong
  <2> QED
    BY <2>2, ToComeBy
<1>7. PICK b : b = Bytes(8, l)
  OBVIOUS
<1>8. b \in Written /\ Len(b) = 8 /\ Decoded("long", b) = l
  <2>1. "long" \in What \ {"chars"} /\ 8 \in Nat /\ 8 # 0
    BY DEF What
  <2>2. Fits(8, l, Signed("long"))
    BY SignedIs DEF AtLong
  <2> QED
    BY <1>7, <2>1, <2>2, BytesType, DecodedIs DEF Written
<1>9. "long" \in What /\ 8 \in Nat /\ ReadAs("long", l) \in ItemsRead
  <2>1. "long" \in What
    BY DEF What
  <2> QED
    BY <2>1, ReadAsType
<1>10. Follows(Put(Item("long", 8), z), Put(ReadAs("long", l), x), Put(b, y))
  BY <1>4, <1>5, <1>6, <1>8, <1>9, FollowsBy
<1> QED
  BY <1>1, <1>3, <1>7, <1>10, Zenon DEF AtLong

(* ... the size of a map, ... *)
LEMMA SizeFollows ==
    ASSUME NEW ms \in Seq(Sendable), NEW ps \in Seq(Pairs), NEW w, NEW items, NEW values,
           AtSize(w, items, values, ms, ps)
    PROVE  Follows(w, items, values)
<1>1. PICK x, y, n : /\ x = MapItems(ps) \o MessageItems(ms)
                     /\ y = MapWrites(ps) \o MessageWrites(ms) /\ n = Len(ps)
  OBVIOUS
<1>2. x \in Seq(ItemsRead) /\ y \in Seq(Written) /\ n \in Nat /\ n \in Int /\ MapWants(n) \in Seq(Wanted)
  <2>1. n \in Nat /\ n \in Int
    BY <1>1, LenProperties
  <2> QED
    BY <1>1, <2>1, RestTypes
<1>3. PICK u : u = After("size", n) \o <<>>
  OBVIOUS
<1>4. ToCome(u, x, y)
  <2>1. u = MapWants(n)
    <3>1. MapWants(n) \o <<>> = MapWants(n)
      BY <1>2, ConcatEmptySeq
    <3> QED
      BY <1>3, <3>1, AfterIs, Zenon
  <2>2. AtPairs(u, x, y, ms, ps)
    BY <1>1, <2>1, Zenon DEF AtPairs
  <2> QED
    BY <2>2, ToComeBy
<1>5. PICK b : b = Bytes(4, n)
  OBVIOUS
<1>6. b \in Written /\ Len(b) = 4 /\ Decoded("size", b) = n
  <2>1. "size" \in What \ {"chars"} /\ 4 \in Nat /\ 4 # 0
    BY DEF What
  <2>2. Fits(4, n, Signed("size"))
    BY <1>1, SignedIs DEF AtSize
  <2> QED
    BY <1>2, <1>5, <2>1, <2>2, BytesType, DecodedIs DEF Written
<1>7. "size" \in What /\ 4 \in Nat /\ <<>> \in Seq(Wanted) /\ ReadAs("size", n) \in ItemsRead
  <2>1. "size" \in What
    BY DEF What
  <2> QED
    BY <1>2, <2>1, ReadAsType, EmptySeq
<1>8. Follows(Put(Item("size", 4), <<>>), Put(ReadAs("size", n), x), Put(b, y))
  BY <1>2, <1>3, <1>4, <1>6, <1>7, FollowsBy
<1> QED
  BY <1>1, <1>5, <1>8, Zenon DEF AtSize

(* ... the characters of a string, ... *)
LEMMA CharsFollows ==
    ASSUME NEW ms \in Seq(Sendable), NEW ps \in Seq(Pairs), NEW p \in Pairs,
           NEW w, NEW items, NEW values, AtChars(w, items, values, ms, ps, p)
    PROVE  Follows(w, items, values)
<1>1. PICK x, y, z, b, v : /\ x = MapItems(ps) \o MessageItems(ms)
                           /\ y = MapWrites(ps) \o MessageWrites(ms)
                           /\ z = MapWants(Len(ps)) /\ b = p[2] /\ v = CString(p[2])
  OBVIOUS
<1>2. x \in Seq(ItemsRead) /\ y \in Seq(Written) /\ z \in Seq(Wanted)
  BY <1>1, RestTypes
<1>3. PICK u : u = After("chars", v) \o z
  OBVIOUS
<1>4. ToCome(u, x, y)
  <2>1. u = z
    <3>1. <<>> \o z = z
      BY <1>2, ConcatEmptySeq
    <3> QED
      BY <1>3, <3>1, AfterIs, Zenon
  <2>2. AtPairs(u, x, y, ms, ps)
    BY <1>1, <2>1, Zenon DEF AtPairs
  <2> QED
    BY <2>2, ToComeBy
<1>5. b \in Seq(Byte)
  BY <1>1, PairTypes
<1>6. b \in Written /\ Len(b) \in Nat
  BY <1>5, LenProperties DEF Written
<1>7. Decoded("chars", b) = v
  BY <1>1 DEF Decoded
<1>8. "chars" \in What /\ ReadAs("chars", v) \in ItemsRead
  <2>1. "chars" \in What
    BY DEF What
  <2> QED
    BY <1>1, <1>5, <2>1, ReadAsType
<1>9. Follows(Put(Item("chars", Len(b)), z), Put(ReadAs("chars", v), x), Put(b, y))
  BY <1>2, <1>3, <1>4, <1>6, <1>7, <1>8, FollowsBy
<1> QED
  BY <1>1, <1>9, Zenon DEF AtChars

(* ... the length of a string, ... *)
LEMMA LenFollows ==
    ASSUME NEW ms \in Seq(Sendable), NEW ps \in Seq(Pairs), NEW p \in Pairs,
           NEW w, NEW items, NEW values, AtLen(w, items, values, ms, ps, p)
    PROVE  Follows(w, items, values)
<1>1. PICK n, c, t : n = Len(p[2]) /\ c = ReadAs("chars", CString(p[2])) /\ t = p[2]
  OBVIOUS
<1>2. n \in Nat /\ n \in Int /\ c \in ItemsRead /\ t \in Written /\ Fits(4, n, FALSE)
  <2>1. p[2] \in Seq(Byte) /\ Fits(4, Len(p[2]), FALSE)
    BY PairTypes
  <2>2. n \in Nat /\ n \in Int
    BY <1>1, <2>1, LenProperties
  <2> QED
    BY <1>1, <2>1, <2>2, ReadAsType DEF Written
<1>3. PICK x, y, z : /\ x = Put(c, MapItems(ps) \o MessageItems(ms))
                     /\ y = Put(t, MapWrites(ps) \o MessageWrites(ms))
                     /\ z = MapWants(Len(ps))
  OBVIOUS
<1>4. x \in Seq(ItemsRead) /\ y \in Seq(Written) /\ z \in Seq(Wanted)
  BY <1>2, <1>3, RestTypes, PutProperties
<1>5. PICK u : u = After("len", n) \o z
  OBVIOUS
<1>6. ToCome(u, x, y)
  <2>1. Item("chars", n) \in Wanted /\ <<>> \in Seq(Wanted)
    <3>1. "chars" \in What
      BY DEF What
    <3> QED
      BY <1>2, <3>1, Rows, EmptySeq
  <2>2. u = Put(Item("chars", n), z)
    <3>1. Put(Item("chars", n), <<>>) \o z = Put(Item("chars", n), <<>> \o z)
      <4>1. PICK a, e : a = Item("chars", n) /\ e = <<>>
        OBVIOUS
      <4>2. a \in Wanted /\ e \in Seq(Wanted)
        BY <2>1, <4>1
      <4>3. Put(a, e) \o z = Put(a, e \o z)
        BY <1>4, <4>2, PutConcat
      <4> QED
        BY <4>1, <4>3, Zenon
    <3>2. <<>> \o z = z
      BY <1>4, ConcatEmptySeq
    <3> QED
      BY <1>5, <3>1, <3>2, AfterIs, Zenon
  <2>3. AtChars(u, x, y, ms, ps, p)
    BY <1>1, <1>3, <2>2, Zenon DEF AtChars
  <2> QED
    BY <2>3, ToComeBy
<1>7. PICK b : b = Bytes(4, n)
  OBVIOUS
<1>8. b \in Written /\ Len(b) = 4 /\ Decoded("len", b) = n
  <2>1. "len" \in What \ {"chars"} /\ 4 \in Nat /\ 4 # 0
    BY DEF What
  <2>2. Fits(4, n, Signed("len"))
    BY <1>2, SignedIs
  <2> QED
    BY <1>2, <1>7, <2>1, <2>2, BytesType, DecodedIs DEF Written
<1>9. "len" \in What /\ 4 \in Nat /\ ReadAs("len", n) \in ItemsRead
  <2>1. "len" \in What
    BY DEF What
  <2> QED
    BY <1>2, <2>1, ReadAsType
<1>10. Follows(Put(Item("len", 4), z), Put(ReadAs("len", n), x), Put(b, y))
  BY <1>4, <1>5, <1>6, <1>8, <1>9, FollowsBy
<1> QED
  BY <1>1, <1>3, <1>7, <1>10, Zenon DEF AtLen

(* ... the key of a pair, ... *)
LEMMA PairsFollow ==
    ASSUME NEW ms \in Seq(Sendable), NEW ps \in Seq(Pairs), ps # <<>>,
           NEW w, NEW items, NEW values, AtPairs(w, items, values, ms, ps)
    PROVE  Follows(w, items, values)
<1>1. PICK p, t : p = Head(ps) /\ t = Tail(ps)
  OBVIOUS
<1>2. /\ p \in Pairs /\ t \in Seq(Pairs) /\ Len(ps) = Len(t) + 1
      /\ MapItems(ps) = PairItems(p) \o MapItems(t)
      /\ MapWrites(ps) = PairWrites(p) \o MapWrites(t)
  BY <1>1, MapFirst
<1>3. /\ p[1] \in Int /\ p[2] \in Seq(Byte) /\ Len(p[2]) \in Int
      /\ Fits(4, p[1], TRUE)
  <2>1. p[1] \in Int /\ p[2] \in Seq(Byte) /\ Fits(4, p[1], TRUE)
    BY <1>2, PairTypes
  <2>2. Len(p[2]) \in Int
    BY <2>1
  <2> QED
    BY <2>1, <2>2
<1>4. PICK k, a, b, c, d, e :
         /\ k = p[1] /\ a = ReadAs("len", Len(p[2])) /\ b = ReadAs("chars", CString(p[2]))
         /\ c = Bytes(4, Len(p[2])) /\ d = p[2] /\ e = Item("len", 4)
  OBVIOUS
<1>5. /\ k \in Int /\ Fits(4, k, TRUE) /\ a \in ItemsRead /\ b \in ItemsRead
      /\ c \in Written /\ d \in Written /\ e \in Wanted
  <2>1. "len" \in What /\ 4 \in Nat
    BY DEF What
  <2> QED
    BY <1>3, <1>4, <2>1, ReadAsType, BytesType, Rows DEF Written
<1>6. PICK x, y, z : /\ x = Put(a, Put(b, MapItems(t) \o MessageItems(ms)))
                     /\ y = Put(c, Put(d, MapWrites(t) \o MessageWrites(ms)))
                     /\ z = Put(e, MapWants(Len(t)))
  OBVIOUS
<1>7. x \in Seq(ItemsRead) /\ y \in Seq(Written) /\ z \in Seq(Wanted)
  <2>1. /\ MapItems(t) \o MessageItems(ms) \in Seq(ItemsRead)
        /\ MapWrites(t) \o MessageWrites(ms) \in Seq(Written)
        /\ MapWants(Len(t)) \in Seq(Wanted)
    BY <1>2, RestTypes
  <2>2. /\ Put(b, MapItems(t) \o MessageItems(ms)) \in Seq(ItemsRead)
        /\ Put(d, MapWrites(t) \o MessageWrites(ms)) \in Seq(Written)
    BY <1>5, <2>1, PutProperties
  <2> QED
    BY <1>5, <1>6, <2>1, <2>2, PutProperties
<1>8. PICK u : u = After("key", k) \o z
  OBVIOUS
<1>9. ToCome(u, x, y)
  <2>1. u = z
    <3>1. <<>> \o z = z
      BY <1>7, ConcatEmptySeq
    <3> QED
      BY <1>8, <3>1, AfterIs, Zenon
  <2>2. AtLen(u, x, y, ms, t, p)
    BY <1>4, <1>6, <2>1, Zenon DEF AtLen
  <2> QED
    BY <1>2, <2>2, ToComeBy
<1>10. PICK f, g : f = Bytes(4, k) /\ g = ReadAs("key", k)
  OBVIOUS
<1>11. f \in Written /\ Len(f) = 4 /\ Decoded("key", f) = k
  <2>1. "key" \in What \ {"chars"} /\ 4 \in Nat /\ 4 # 0
    BY DEF What
  <2>2. Fits(4, k, Signed("key"))
    BY <1>5, SignedIs
  <2> QED
    BY <1>5, <1>10, <2>1, <2>2, BytesType, DecodedIs DEF Written
<1>12. "key" \in What /\ 4 \in Nat /\ g \in ItemsRead
  <2>1. "key" \in What
    BY DEF What
  <2> QED
    BY <1>5, <1>10, <2>1, ReadAsType
<1>13. Follows(Put(Item("key", 4), z), Put(g, x), Put(f, y))
  BY <1>7, <1>8, <1>9, <1>10, <1>11, <1>12, FollowsBy
<1>14. w = Put(Item("key", 4), z)
  <2>1. PICK n, m : n = Len(ps) /\ m = Len(t) /\ m = n - 1 /\ n \in Nat /\ m \in Nat /\ n # 0
    <3>1. Len(t) \in Nat
      BY <1>2, LenProperties
    <3>2. Len(t) + 1 \in Nat /\ Len(t) + 1 # 0 /\ Len(t) = (Len(t) + 1) - 1
      BY <3>1
    <3> QED
      BY <1>2, <3>1, <3>2, Zenon
  <2>2. MapWants(n) = Pair \o MapWants(m) /\ MapWants(m) \in Seq(Wanted)
    BY <2>1, MapWantsIs
  <2>3. Item("key", 4) \in Wanted
    BY <1>12, Rows
  <2>4. PICK h, r : h = Item("key", 4) /\ r = MapWants(m)
    OBVIOUS
  <2>5. h \in Wanted /\ r \in Seq(Wanted)
    BY <2>2, <2>3, <2>4
  <2>6. <<h, e>> \o r = Put(h, Put(e, r))
    BY <1>5, <2>5, PutTwo
  <2> QED
    BY <1>4, <1>6, <2>1, <2>2, <2>4, <2>6, Zenon DEF AtPairs, Pair
<1>15. items = Put(g, x)
  <2>1. PICK q, r : q = MapItems(t) /\ r = MessageItems(ms)
    OBVIOUS
  <2>2. q \in Seq(ItemsRead) /\ r \in Seq(ItemsRead)
    BY <1>2, <2>1, MapTypes, MessageTypes
  <2>3. PairItems(p) = <<g, a, b>>
    BY <1>4, <1>10, Zenon DEF PairItems, ReadAs
  <2>4. <<g, a, b>> \o q = Put(g, Put(a, Put(b, q)))
    BY <1>5, <1>12, <2>2, PutThree
  <2>5. PICK o, v : o = Put(b, q) /\ v = Put(a, o)
    OBVIOUS
  <2>6. o \in Seq(ItemsRead) /\ v \in Seq(ItemsRead)
    BY <1>5, <2>2, <2>5, PutProperties
  <2>7. Put(g, v) \o r = Put(g, v \o r)
    <3>1. g \in ItemsRead /\ v \in Seq(ItemsRead) /\ r \in Seq(ItemsRead)
      BY <1>12, <2>2, <2>6
    <3> QED
      BY <3>1, PutConcat
  <2>8. v \o r = Put(a, o \o r)
    <3>1. a \in ItemsRead /\ o \in Seq(ItemsRead) /\ r \in Seq(ItemsRead)
      BY <1>5, <2>2, <2>5, <2>6
    <3>2. Put(a, o) \o r = Put(a, o \o r)
      BY <3>1, PutConcat
    <3>3. v = Put(a, o)
      BY <1>5, <2>2, <2>5, <2>6
    <3> QED
      BY <3>2, <3>3, Zenon
  <2>9. o \o r = Put(b, q \o r)
    <3>1. b \in ItemsRead /\ q \in Seq(ItemsRead) /\ r \in Seq(ItemsRead)
      BY <1>5, <2>2, <2>5
    <3>2. Put(b, q) \o r = Put(b, q \o r)
      BY <3>1, PutConcat
    <3>3. o = Put(b, q)
      BY <1>5, <2>2, <2>5
    <3> QED
      BY <3>2, <3>3, Zenon
  <2> QED
    BY <1>2, <1>6, <2>1, <2>3, <2>4, <2>5, <2>7, <2>8, <2>9, Zenon DEF AtPairs
<1>16. values = Put(f, y)
  <2>1. PICK q, r : q = MapWrites(t) /\ r = MessageWrites(ms)
    OBVIOUS
  <2>2. q \in Seq(Written) /\ r \in Seq(Written)
    BY <1>2, <2>1, MapTypes, MessageTypes
  <2>3. PairWrites(p) = <<f, c, d>>
    BY <1>4, <1>10, Zenon DEF PairWrites
  <2>4. <<f, c, d>> \o q = Put(f, Put(c, Put(d, q)))
    BY <1>5, <1>11, <2>2, PutThree
  <2>5. PICK o, v : o = Put(d, q) /\ v = Put(c, o)
    OBVIOUS
  <2>6. o \in Seq(Written) /\ v \in Seq(Written)
    BY <1>5, <2>2, <2>5, PutProperties
  <2>7. Put(f, v) \o r = Put(f, v \o r)
    <3>1. f \in Written /\ v \in Seq(Written) /\ r \in Seq(Written)
      BY <1>11, <2>2, <2>6
    <3> QED
      BY <3>1, PutConcat
  <2>8. v \o r = Put(c, o \o r)
    <3>1. c \in Written /\ o \in Seq(Written) /\ r \in Seq(Written)
      BY <1>5, <2>2, <2>5, <2>6
    <3>2. Put(c, o) \o r = Put(c, o \o r)
      BY <3>1, PutConcat
    <3>3. v = Put(c, o)
      BY <1>5, <2>2, <2>5, <2>6
    <3> QED
      BY <3>2, <3>3, Zenon
  <2>9. o \o r = Put(d, q \o r)
    <3>1. d \in Written /\ q \in Seq(Written) /\ r \in Seq(Written)
      BY <1>5, <2>2, <2>5
    <3>2. Put(d, q) \o r = Put(d, q \o r)
      BY <3>1, PutConcat
    <3>3. o = Put(d, q)
      BY <1>5, <2>2, <2>5
    <3> QED
      BY <3>2, <3>3, Zenon
  <2> QED
    BY <1>2, <1>6, <2>1, <2>3, <2>4, <2>5, <2>7, <2>8, <2>9, Zenon DEF AtPairs
<1> QED
  BY <1>13, <1>14, <1>15, <1>16, Zenon

(* ... the type of a message. *)
LEMMA TypeFollows ==
    ASSUME NEW ms \in Seq(Sendable), ms # <<>>, NEW w, NEW items, NEW values,
           AtType(w, items, values, ms)
    PROVE  Follows(w, items, values)
<1>1. PICK m, t : m = Head(ms) /\ t = Tail(ms)
  OBVIOUS
<1>2. /\ m \in Sendable /\ t \in Seq(Sendable)
      /\ MessageItems(ms) = Items(m) \o MessageItems(t)
      /\ MessageWrites(ms) = Writes(m) \o MessageWrites(t)
  BY <1>1, MessageFirst
<1>3. PICK n, f, g, q, r : /\ n = TypeOf(m.class) /\ f = Bytes(2, n) /\ g = ReadAs("type", n)
                           /\ q = MessageItems(t) /\ r = MessageWrites(t)
  OBVIOUS
<1>4. n \in Nat /\ n \in Int /\ Registered[n + 1] = m.class /\ Fits(2, n, FALSE)
  <2>1. n \in Nat /\ Registered[n + 1] = m.class /\ Fits(2, n, FALSE)
    BY <1>2, <1>3, TypeOfIs, Zenon
  <2>2. n \in Int
    <3>1. \A k \in Nat : k \in Int
      OBVIOUS
    <3> QED
      BY <2>1, <3>1, Zenon
  <2> QED
    BY <2>1, <2>2
<1>5. f \in Written /\ Len(f) = 2 /\ Decoded("type", f) = n
  <2>1. "type" \in What \ {"chars"} /\ 2 \in Nat /\ 2 # 0
    BY DEF What
  <2>2. Fits(2, n, Signed("type"))
    BY <1>4, SignedIs
  <2> QED
    BY <1>3, <1>4, <2>1, <2>2, BytesType, DecodedIs DEF Written
<1>6. "type" \in What /\ 2 \in Nat /\ g \in ItemsRead /\ <<>> \in Seq(Wanted)
  <2>1. "type" \in What
    BY DEF What
  <2> QED
    BY <1>3, <1>4, <2>1, ReadAsType, EmptySeq
<1>7. q \in Seq(ItemsRead) /\ r \in Seq(Written)
  BY <1>2, <1>3, MessageTypes
<1>8. SUFFICES ASSUME NEW x \in Seq(ItemsRead), NEW y \in Seq(Written),
                      Items(m) = Put(g, x), Writes(m) = Put(f, y),
                      NEW z \in Seq(Wanted), After("type", n) = z, ToCome(z, x \o q, y \o r)
               PROVE  Follows(w, items, values)
  <2>1. CASE DataParts(m)
    <3>1. PICK a, c, i, j : /\ a = ReadAs("size", Len(m.map)) /\ c = Bytes(4, Len(m.map))
                            /\ i = MapItems(m.map) /\ j = MapWrites(m.map)
      OBVIOUS
    <3>2. m.map \in Seq(Pairs) /\ Len(m.map) \in Int
      BY <2>1, LenProperties DEF DataParts
    <3>3. a \in ItemsRead /\ c \in Written /\ i \in Seq(ItemsRead) /\ j \in Seq(Written)
      <4>1. "size" \in What /\ 4 \in Nat
        BY DEF What
      <4> QED
        BY <3>1, <3>2, <4>1, ReadAsType, BytesType, MapTypes DEF Written
    <3>4. PICK x, y : x = Put(a, i) /\ y = Put(c, j)
      OBVIOUS
    <3>5. x \in Seq(ItemsRead) /\ y \in Seq(Written)
      BY <3>3, <3>4, PutProperties
    <3>6. Items(m) = Put(g, x) /\ Writes(m) = Put(f, y)
      BY <1>3, <2>1, <3>1, <3>4, Zenon DEF DataParts
    <3>7. PICK z : z = Put(Item("size", 4), <<>>)
      OBVIOUS
    <3>8. z \in Seq(Wanted)
      <4>1. "size" \in What /\ 4 \in Nat
        BY DEF What
      <4>2. Item("size", 4) \in Wanted
        BY <4>1, Rows
      <4> QED
        BY <1>6, <3>7, <4>2, PutProperties
    <3>9. After("type", n) = z
      <4>1. Registered[n + 1] = "data"
        BY <1>4, <2>1 DEF DataParts
      <4> QED
        BY <3>7, <4>1, AfterIs
    <3>10. x \o q = Put(a, i \o q) /\ y \o r = Put(c, j \o r)
      <4>1. x \o q = Put(a, i \o q)
        <5>1. a \in ItemsRead /\ i \in Seq(ItemsRead) /\ q \in Seq(ItemsRead)
          BY <1>7, <3>3, <3>4
        <5>2. Put(a, i) \o q = Put(a, i \o q)
          BY <5>1, PutConcat
        <5>3. x = Put(a, i)
          BY <1>7, <3>3, <3>4
        <5> QED
          BY <5>2, <5>3, Zenon
      <4>2. y \o r = Put(c, j \o r)
        <5>1. c \in Written /\ j \in Seq(Written) /\ r \in Seq(Written)
          BY <1>7, <3>3, <3>4
        <5>2. Put(c, j) \o r = Put(c, j \o r)
          BY <5>1, PutConcat
        <5>3. y = Put(c, j)
          BY <1>7, <3>3, <3>4
        <5> QED
          BY <5>2, <5>3, Zenon
      <4> QED
        BY <4>1, <4>2
    <3>11. AtSize(z, x \o q, y \o r, t, m.map)
      BY <1>3, <2>1, <3>1, <3>7, <3>10, Zenon DEF AtSize, DataParts
    <3>12. ToCome(z, x \o q, y \o r)
      BY <1>2, <3>2, <3>11, ToComeBy
    <3> QED
      BY <1>8, <3>5, <3>6, <3>8, <3>9, <3>12
  <2>2. CASE RowParts(m)
    <3>1. PICK a, b, c, d, l, s :
             /\ l = m.long /\ s = m.short
             /\ a = ReadAs("long", l) /\ b = ReadAs("short", s)
             /\ c = Bytes(8, l) /\ d = Bytes(2, s)
      OBVIOUS
    <3>2. l \in Int /\ s \in Int /\ Fits(8, l, TRUE) /\ Fits(2, s, TRUE)
      BY <2>2, <3>1 DEF RowParts
    <3>3. a \in ItemsRead /\ b \in ItemsRead /\ c \in Written /\ d \in Written
      <4>1. "long" \in What /\ "short" \in What /\ 8 \in Nat /\ 2 \in Nat
        BY DEF What
      <4> QED
        BY <3>1, <3>2, <4>1, ReadAsType, BytesType DEF Written
    <3>0. PICK e, e2 : e = <<>> /\ e2 = <<>> /\ e \in Seq(ItemsRead) /\ e2 \in Seq(Written)
      BY EmptySeq
    <3>4. PICK x, y, x1, y1 : x1 = Put(b, e) /\ y1 = Put(d, e2) /\ x = Put(a, x1) /\ y = Put(c, y1)
      OBVIOUS
    <3>5. /\ x1 \in Seq(ItemsRead) /\ y1 \in Seq(Written)
          /\ x \in Seq(ItemsRead) /\ y \in Seq(Written)
      <4>1. x1 \in Seq(ItemsRead) /\ y1 \in Seq(Written)
        BY <3>0, <3>3, <3>4, PutProperties
      <4> QED
        BY <3>3, <3>4, <4>1, PutProperties
    <3>6. Items(m) = Put(g, x) /\ Writes(m) = Put(f, y)
      BY <1>3, <2>2, <3>0, <3>1, <3>4, Zenon DEF RowParts
    <3>7. PICK z : z = Put(Item("long", 8), Put(Item("short", 2), <<>>))
      OBVIOUS
    <3>8. z \in Seq(Wanted)
      <4>1. "long" \in What /\ "short" \in What /\ 8 \in Nat /\ 2 \in Nat
        BY DEF What
      <4>2. Item("long", 8) \in Wanted /\ Item("short", 2) \in Wanted
        BY <4>1, Rows
      <4>3. Put(Item("short", 2), <<>>) \in Seq(Wanted)
        BY <1>6, <4>2, PutProperties
      <4> QED
        BY <3>7, <4>2, <4>3, PutProperties
    <3>9. After("type", n) = z
      <4>1. Registered[n + 1] # "data"
        BY <1>4, <2>2 DEF RowParts
      <4> QED
        BY <3>7, <4>1, AfterIs
    <3>10. x \o q = Put(a, Put(b, q)) /\ y \o r = Put(c, Put(d, r))
      <4>1. x \o q = Put(a, x1 \o q)
        <5>1. a \in ItemsRead /\ x1 \in Seq(ItemsRead) /\ q \in Seq(ItemsRead)
          BY <1>7, <3>3, <3>4, <3>5
        <5>2. Put(a, x1) \o q = Put(a, x1 \o q)
          BY <5>1, PutConcat
        <5>3. x = Put(a, x1)
          BY <1>7, <3>3, <3>4, <3>5
        <5> QED
          BY <5>2, <5>3, Zenon
      <4>2. x1 \o q = Put(b, e \o q)
        <5>1. b \in ItemsRead /\ e \in Seq(ItemsRead) /\ q \in Seq(ItemsRead)
          BY <1>7, <3>0, <3>3, <3>4
        <5>2. Put(b, e) \o q = Put(b, e \o q)
          BY <5>1, PutConcat
        <5>3. x1 = Put(b, e)
          BY <1>7, <3>0, <3>3, <3>4
        <5> QED
          BY <5>2, <5>3, Zenon
      <4>3. y \o r = Put(c, y1 \o r)
        <5>1. c \in Written /\ y1 \in Seq(Written) /\ r \in Seq(Written)
          BY <1>7, <3>3, <3>4, <3>5
        <5>2. Put(c, y1) \o r = Put(c, y1 \o r)
          BY <5>1, PutConcat
        <5>3. y = Put(c, y1)
          BY <1>7, <3>3, <3>4, <3>5
        <5> QED
          BY <5>2, <5>3, Zenon
      <4>4. y1 \o r = Put(d, e2 \o r)
        <5>1. d \in Written /\ e2 \in Seq(Written) /\ r \in Seq(Written)
          BY <1>7, <3>0, <3>3, <3>4
        <5>2. Put(d, e2) \o r = Put(d, e2 \o r)
          BY <5>1, PutConcat
        <5>3. y1 = Put(d, e2)
          BY <1>7, <3>0, <3>3, <3>4
        <5> QED
          BY <5>2, <5>3, Zenon
      <4>5. <<>> \o q = q /\ <<>> \o r = r
        BY <1>7, ConcatEmptySeq
      <4> QED
        BY <3>0, <4>1, <4>2, <4>3, <4>4, <4>5, Zenon
    <3>11. AtLong(z, x \o q, y \o r, t, l, s)
      BY <1>3, <3>1, <3>2, <3>7, <3>10, Zenon DEF AtLong
    <3>12. ToCome(z, x \o q, y \o r)
      BY <1>2, <3>2, <3>11, ToComeBy
    <3> QED
      BY <1>8, <3>5, <3>6, <3>8, <3>9, <3>12
  <2> QED
    BY <1>2, <2>1, <2>2, MessageParts
<1>9. PICK i, v : i = x \o q /\ v = y \o r
  OBVIOUS
<1>10. i \in Seq(ItemsRead) /\ v \in Seq(Written)
  BY <1>7, <1>9, ConcatProperties
<1>11. PICK u : u = z \o <<>>
  OBVIOUS
<1>12. u = z
  BY <1>11, ConcatEmptySeq
<1>13. u = After("type", n) \o <<>> /\ ToCome(u, i, v)
  BY <1>8, <1>9, <1>11, <1>12
<1>14. Follows(Put(Item("type", 2), <<>>), Put(g, i), Put(f, v))
  BY <1>3, <1>5, <1>6, <1>10, <1>13, FollowsBy
<1>15. items = Put(g, i)
  <2>1. Put(g, x) \o q = Put(g, x \o q)
    BY <1>6, <1>7, PutConcat
  <2> QED
    BY <1>2, <1>3, <1>8, <1>9, <2>1, Zenon DEF AtType
<1>16. values = Put(f, v)
  <2>1. Put(f, y) \o r = Put(f, y \o r)
    BY <1>5, <1>7, PutConcat
  <2> QED
    BY <1>2, <1>3, <1>8, <1>9, <2>1, Zenon DEF AtType
<1> QED
  BY <1>14, <1>15, <1>16, Zenon DEF AtType

(* Get() wants a type. *)
LEMMA GetWantsIs == GetWants = Put(Item("type", 2), <<>>)
  BY PutOne, Zenon DEF GetWants

(* Types of what is to come *)
LEMMA ToComeTypes ==
    ASSUME NEW w, NEW items, NEW values, ToCome(w, items, values)
    PROVE  items \in Seq(ItemsRead) /\ values \in Seq(Written)
<1>1. PICK ms \in Seq(Sendable) :
         \/ AtType(w, items, values, ms)
         \/ \E ps \in Seq(Pairs) :
               \/ AtSize(w, items, values, ms, ps)
               \/ AtPairs(w, items, values, ms, ps)
               \/ \E p \in Pairs :
                     \/ AtLen(w, items, values, ms, ps, p)
                     \/ AtChars(w, items, values, ms, ps, p)
         \/ \E l, s \in Int : AtLong(w, items, values, ms, l, s)
         \/ \E s \in Int : AtShort(w, items, values, ms, s)
  BY DEF ToCome
<1>2. MessageItems(ms) \in Seq(ItemsRead) /\ MessageWrites(ms) \in Seq(Written)
  BY MessageTypes
<1>3. CASE AtType(w, items, values, ms)
  BY <1>2, <1>3 DEF AtType
<1>4. ASSUME NEW ps \in Seq(Pairs),
             \/ AtSize(w, items, values, ms, ps)
             \/ AtPairs(w, items, values, ms, ps)
             \/ \E p \in Pairs :
                   \/ AtLen(w, items, values, ms, ps, p)
                   \/ AtChars(w, items, values, ms, ps, p)
      PROVE  items \in Seq(ItemsRead) /\ values \in Seq(Written)
  <2>1. PICK x, y : x = MapItems(ps) \o MessageItems(ms) /\ y = MapWrites(ps) \o MessageWrites(ms)
    OBVIOUS
  <2>2. x \in Seq(ItemsRead) /\ y \in Seq(Written)
    BY <2>1, RestTypes
  <2>3. "size" \in What /\ "len" \in What /\ 4 \in Nat
    BY DEF What
  <2>4. CASE AtSize(w, items, values, ms, ps)
    <3>1. Len(ps) \in Int
      OBVIOUS
    <3>2. ReadAs("size", Len(ps)) \in ItemsRead /\ Bytes(4, Len(ps)) \in Written
      BY <2>3, <3>1, ReadAsType, BytesType DEF Written
    <3>3. items = Put(ReadAs("size", Len(ps)), x) /\ values = Put(Bytes(4, Len(ps)), y)
      BY <2>1, <2>4, Zenon DEF AtSize
    <3> QED
      BY <2>2, <3>2, <3>3, PutProperties
  <2>5. CASE AtPairs(w, items, values, ms, ps)
    BY <2>1, <2>2, <2>5, Zenon DEF AtPairs
  <2>6. ASSUME NEW p \in Pairs,
               AtLen(w, items, values, ms, ps, p) \/ AtChars(w, items, values, ms, ps, p)
        PROVE  items \in Seq(ItemsRead) /\ values \in Seq(Written)
    <3>1. PICK a, b, c, d : /\ a = ReadAs("len", Len(p[2])) /\ b = ReadAs("chars", CString(p[2]))
                            /\ c = Bytes(4, Len(p[2])) /\ d = p[2]
      OBVIOUS
    <3>2. p[2] \in Seq(Byte) /\ Len(p[2]) \in Int
      <4>1. p[2] \in Seq(Byte)
        BY PairTypes
      <4> QED
        BY <4>1
    <3>3. a \in ItemsRead /\ b \in ItemsRead /\ c \in Written /\ d \in Written
      BY <2>3, <3>1, <3>2, ReadAsType, BytesType DEF Written
    <3>4. PICK q, r : q = Put(b, x) /\ r = Put(d, y)
      OBVIOUS
    <3>5. q \in Seq(ItemsRead) /\ r \in Seq(Written)
      BY <2>2, <3>3, <3>4, PutProperties
    <3>6. Put(a, q) \in Seq(ItemsRead) /\ Put(c, r) \in Seq(Written)
      BY <3>3, <3>5, PutProperties
    <3>7. CASE AtLen(w, items, values, ms, ps, p)
      BY <2>1, <3>1, <3>4, <3>6, <3>7, Zenon DEF AtLen
    <3>8. CASE AtChars(w, items, values, ms, ps, p)
      BY <2>1, <3>1, <3>4, <3>5, <3>8, Zenon DEF AtChars
    <3> QED
      BY <2>6, <3>7, <3>8
  <2> QED
    BY <1>4, <2>4, <2>5, <2>6
<1>5. ASSUME NEW l \in Int, NEW s \in Int,
             AtLong(w, items, values, ms, l, s) \/ AtShort(w, items, values, ms, s)
      PROVE  items \in Seq(ItemsRead) /\ values \in Seq(Written)
  <2>1. PICK a, b, c, d : /\ a = ReadAs("long", l) /\ b = ReadAs("short", s)
                          /\ c = Bytes(8, l) /\ d = Bytes(2, s)
    OBVIOUS
  <2>2. "long" \in What /\ "short" \in What /\ 8 \in Nat /\ 2 \in Nat
    BY DEF What
  <2>3. a \in ItemsRead /\ b \in ItemsRead /\ c \in Written /\ d \in Written
    BY <2>1, <2>2, ReadAsType, BytesType DEF Written
  <2>4. PICK q, r : q = Put(b, MessageItems(ms)) /\ r = Put(d, MessageWrites(ms))
    OBVIOUS
  <2>5. q \in Seq(ItemsRead) /\ r \in Seq(Written)
    BY <1>2, <2>3, <2>4, PutProperties
  <2>6. Put(a, q) \in Seq(ItemsRead) /\ Put(c, r) \in Seq(Written)
    BY <2>3, <2>5, PutProperties
  <2>7. CASE AtLong(w, items, values, ms, l, s)
    BY <2>1, <2>4, <2>6, <2>7, Zenon DEF AtLong
  <2>8. CASE AtShort(w, items, values, ms, s)
    BY <2>1, <2>4, <2>5, <2>8, Zenon DEF AtShort
  <2> QED
    BY <1>5, <2>7, <2>8
<1> QED
  BY <1>1, <1>3, <1>4, <1>5, Zenon

(* Something is wanted: the bytes to come begin with it, unless nothing    *)
(* more is to come.                                                        *)
LEMMA WantedComes ==
    ASSUME NEW w, NEW items, NEW values, ToCome(w, items, values), w # <<>>
    PROVE  \/ Follows(w, items, values)
           \/ values = <<>> /\ Head(w).size = 2
<1>1. PICK ms \in Seq(Sendable) :
         \/ AtType(w, items, values, ms)
         \/ \E ps \in Seq(Pairs) :
               \/ AtSize(w, items, values, ms, ps)
               \/ AtPairs(w, items, values, ms, ps)
               \/ \E p \in Pairs :
                     \/ AtLen(w, items, values, ms, ps, p)
                     \/ AtChars(w, items, values, ms, ps, p)
         \/ \E l, s \in Int : AtLong(w, items, values, ms, l, s)
         \/ \E s \in Int : AtShort(w, items, values, ms, s)
  BY DEF ToCome
<1>2. CASE AtType(w, items, values, ms)
  <2>1. CASE ms = <<>>
    <3>1. values = <<>>
      BY <1>2, <2>1, MessageEmpty DEF AtType
    <3>2. PICK i : i = Item("type", 2)
      OBVIOUS
    <3>3. Head(Put(i, <<>>)) = i
      <4>1. i \in {i} /\ <<>> \in Seq({i})
        BY EmptySeq
      <4> QED
        BY <4>1, PutProperties
    <3>4. i.size = 2
      BY <3>2 DEF Item
    <3> QED
      BY <1>2, <3>1, <3>2, <3>3, <3>4, Zenon DEF AtType
  <2> QED
    BY <1>2, <2>1, TypeFollows
<1>3. ASSUME NEW ps \in Seq(Pairs), AtSize(w, items, values, ms, ps)
      PROVE  Follows(w, items, values)
  BY <1>3, SizeFollows
<1>4. ASSUME NEW ps \in Seq(Pairs), AtPairs(w, items, values, ms, ps)
      PROVE  Follows(w, items, values)
  <2>1. ps # <<>>
    <3> SUFFICES ASSUME ps = <<>> PROVE FALSE
      OBVIOUS
    <3>1. Len(<<>>) = 0
      OBVIOUS
    <3> QED
      BY <1>4, <3>1, MapEmpty, Zenon DEF AtPairs
  <2> QED
    BY <1>4, <2>1, PairsFollow
<1>5. ASSUME NEW ps \in Seq(Pairs), NEW p \in Pairs, AtLen(w, items, values, ms, ps, p)
      PROVE  Follows(w, items, values)
  BY <1>5, LenFollows
<1>6. ASSUME NEW ps \in Seq(Pairs), NEW p \in Pairs, AtChars(w, items, values, ms, ps, p)
      PROVE  Follows(w, items, values)
  BY <1>6, CharsFollows
<1>7. ASSUME NEW l \in Int, NEW s \in Int, AtLong(w, items, values, ms, l, s)
      PROVE  Follows(w, items, values)
  BY <1>7, LongFollows
<1>8. ASSUME NEW s \in Int, AtShort(w, items, values, ms, s)
      PROVE  Follows(w, items, values)
  BY <1>8, ShortFollows
<1> QED
  BY <1>1, <1>2, <1>3, <1>4, <1>5, <1>6, <1>7, <1>8, Zenon

(* Nothing is wanted: a message has been read, and Get() may be called. *)
LEMMA NothingWanted ==
    ASSUME NEW items, NEW values, ToCome(<<>>, items, values)
    PROVE  ToCome(GetWants, items, values)
<1>1. PICK ms \in Seq(Sendable) :
         \/ AtType(<<>>, items, values, ms)
         \/ \E ps \in Seq(Pairs) :
               \/ AtSize(<<>>, items, values, ms, ps)
               \/ AtPairs(<<>>, items, values, ms, ps)
               \/ \E p \in Pairs :
                     \/ AtLen(<<>>, items, values, ms, ps, p)
                     \/ AtChars(<<>>, items, values, ms, ps, p)
         \/ \E l, s \in Int : AtLong(<<>>, items, values, ms, l, s)
         \/ \E s \in Int : AtShort(<<>>, items, values, ms, s)
  BY DEF ToCome
<1>2. \A w \in What, n \in Nat : \A s \in Seq(Wanted) : Put(Item(w, n), s) # <<>>
  BY Rows, PutProperties
<1>3. <<>> \in Seq(Wanted)
  BY EmptySeq
<1>4. /\ "type" \in What /\ "size" \in What /\ "len" \in What /\ "chars" \in What
      /\ "long" \in What /\ "short" \in What /\ "key" \in What
      /\ 2 \in Nat /\ 4 \in Nat /\ 8 \in Nat
  BY DEF What
<1>5. ~ AtType(<<>>, items, values, ms)
  BY <1>2, <1>3, <1>4, Zenon DEF AtType
<1>6. \A s \in Int : ~ AtShort(<<>>, items, values, ms, s)
  BY <1>2, <1>3, <1>4, Zenon DEF AtShort
<1>7. \A l, s \in Int : ~ AtLong(<<>>, items, values, ms, l, s)
  <2>1. Put(Item("short", 2), <<>>) \in Seq(Wanted)
    BY <1>3, <1>4, Rows, PutProperties
  <2> QED
    BY <1>2, <1>4, <2>1, Zenon DEF AtLong
<1>8. PICK ps \in Seq(Pairs) :
               \/ AtSize(<<>>, items, values, ms, ps)
               \/ AtPairs(<<>>, items, values, ms, ps)
               \/ \E p \in Pairs :
                     \/ AtLen(<<>>, items, values, ms, ps, p)
                     \/ AtChars(<<>>, items, values, ms, ps, p)
  BY <1>1, <1>5, <1>6, <1>7, Zenon
<1>9. Len(ps) \in Nat /\ MapWants(Len(ps)) \in Seq(Wanted)
  BY LenProperties, MapWantsIs
<1>10. ~ AtSize(<<>>, items, values, ms, ps)
  BY <1>2, <1>3, <1>4, Zenon DEF AtSize
<1>11. ASSUME NEW p \in Pairs
       PROVE  ~ AtLen(<<>>, items, values, ms, ps, p) /\ ~ AtChars(<<>>, items, values, ms, ps, p)
  <2>1. Len(p[2]) \in Nat
    <3>1. p[2] \in Seq(Byte)
      BY PairTypes
    <3> QED
      BY <3>1
  <2> QED
    BY <1>2, <1>4, <1>9, <2>1, Zenon DEF AtLen, AtChars
<1>12. AtPairs(<<>>, items, values, ms, ps)
  BY <1>8, <1>10, <1>11, Zenon
<1>13. ps = <<>>
  <2> SUFFICES ASSUME ps # <<>> PROVE FALSE
    OBVIOUS
  <2>1. PICK n, k : n = Len(ps) /\ k = n - 1 /\ n \in Nat /\ k \in Nat /\ n # 0
    <3>1. Len(ps) \in Nat \ {0}
      BY EmptySeq
    <3>2. Len(ps) - 1 \in Nat
      BY <3>1
    <3> QED
      BY <3>1, <3>2
  <2>2. MapWants(n) = Pair \o MapWants(k) /\ MapWants(k) \in Seq(Wanted)
    BY <2>1, MapWantsIs
  <2>3. PICK a, b, r : a = Item("key", 4) /\ b = Item("len", 4) /\ r = MapWants(k)
    OBVIOUS
  <2>4. a \in Wanted /\ b \in Wanted /\ r \in Seq(Wanted)
    BY <1>4, <2>2, <2>3, Rows
  <2>5. <<a, b>> \o r = Put(a, Put(b, r)) /\ Put(b, r) \in Seq(Wanted)
    <3>1. <<a, b>> \o r = Put(a, Put(b, r))
      BY <2>4, PutTwo
    <3>2. Put(b, r) \in Seq(Wanted)
      BY <2>4, PutProperties
    <3> QED
      BY <3>1, <3>2
  <2>6. Put(a, Put(b, r)) # <<>>
    BY <2>4, <2>5, PutProperties
  <2>7. MapWants(n) = <<>>
    BY <1>12, <2>1, Zenon DEF AtPairs
  <2> QED
    BY <2>2, <2>3, <2>5, <2>6, <2>7, Zenon DEF Pair
<1>14. items = MessageItems(ms) /\ values = MessageWrites(ms)
  <2>1. MessageItems(ms) \in Seq(ItemsRead) /\ MessageWrites(ms) \in Seq(Written)
    BY MessageTypes
  <2>2. <<>> \o MessageItems(ms) = MessageItems(ms) /\ <<>> \o MessageWrites(ms) = MessageWrites(ms)
    BY <2>1, ConcatEmptySeq
  <2> QED
    BY <1>12, <1>13, <2>2, MapEmpty, Zenon DEF AtPairs
<1>15. AtType(GetWants, items, values, ms)
  BY <1>14, GetWantsIs, Zenon DEF AtType
<1> QED
  BY <1>15, ToComeBy

(* What send() passes on is the start of what has not been sent, ...       *)
LEMMA Cuts ==
    ASSUME NEW S, NEW s \in Seq(S), NEW k \in 0 .. Len(s)
    PROVE  /\ SubSeq(s, 1, k) \in Seq(S) /\ SubSeq(s, k + 1, Len(s)) \in Seq(S)
           /\ Len(SubSeq(s, 1, k)) = k
           /\ SubSeq(s, 1, k) \o SubSeq(s, k + 1, Len(s)) = s
<1>0. Len(s) \in Nat /\ k \in Nat
  OBVIOUS
<1>1. SubSeq(s, 1, k) \in Seq(S) /\ Len(SubSeq(s, 1, k)) = k
  <2>1. 1 \in Int /\ k \in Int /\ \A i \in 1 .. k : s[i] \in S
    BY <1>0, ElementOfSeq
  <2>2. /\ SubSeq(s, 1, k) \in Seq(S)
        /\ Len(SubSeq(s, 1, k)) = IF 1 <= k THEN k - 1 + 1 ELSE 0
    BY <2>1, SubSeqProperties
  <2> QED
    BY <1>0, <2>2
<1>2. SubSeq(s, k + 1, Len(s)) \in Seq(S)
  <2>1. k + 1 \in Int /\ Len(s) \in Int /\ \A i \in (k + 1) .. Len(s) : s[i] \in S
    BY <1>0, ElementOfSeq
  <2> QED
    BY <2>1, SubSeqProperties
<1>3. SubSeq(s, 1, k) \o SubSeq(s, k + 1, Len(s)) = s
  <2>1. 1 \in 1 .. Len(s) + 1 /\ k \in (1 - 1) .. Len(s) /\ Len(s) \in k .. Len(s)
    BY <1>0
  <2>2. SubSeq(s, 1, k) \o SubSeq(s, k + 1, Len(s)) = SubSeq(s, 1, Len(s))
    BY <2>1, ConcatAdjacentSubSeq
  <2>3. SubSeq(s, 1, Len(s)) = s
    BY SubSeqFull
  <2> QED
    BY <2>2, <2>3, Zenon
<1> QED
  BY <1>1, <1>2, <1>3, Zenon

(* Associativity, of bytes *)
LEMMA ByteGroups ==
    /\ \A a, b \in Seq(Byte) : a \o b \in Seq(Byte)
    /\ \A a, b, c \in Seq(Byte) : (a \o b) \o c = a \o (b \o c)
<1>1. \A a, b \in Seq(Byte) : a \o b \in Seq(Byte)
  BY ConcatProperties
<1>2. \A a, b, c \in Seq(Byte) : (a \o b) \o c = a \o (b \o c)
  BY ConcatAssociative
<1> QED
  BY <1>1, <1>2

(* A part x of the first value went, and r is the rest. *)
SentPart(w, t, n, rest) ==
    \E x, r \in Seq(Byte) : /\ x = SubSeq(w[1], t + 1, t + n)
                            /\ rest = x \o r
                            /\ SubSeq(w[1], 1, t + n) \o r = FlattenSeq(w)

(* If what has gone of the values to be written and the rest are these     *)
(* values, so are they when one more part has gone, ...                    *)
LEMMA SendGoesOn ==
    ASSUME NEW w \in Seq(Seq(Byte)), NEW t \in Nat, NEW n \in Nat, NEW rest \in Seq(Byte)
    PROVE  /\ w # <<>> /\ n # 0 /\ t + n <= Len(w[1])
           /\ SubSeq(w[1], 1, t) \o rest = FlattenSeq(w)
           => SentPart(w, t, n, rest)
<1>a. \A c, d, e \in Seq(Byte) : (c \o d) \o e = c \o (d \o e)
  BY ByteGroups
<1>b. SUFFICES ASSUME /\ w # <<>> /\ n # 0 /\ t + n <= Len(w[1])
                      /\ SubSeq(w[1], 1, t) \o rest = FlattenSeq(w)
               PROVE  \E x, r \in Seq(Byte) : /\ x = SubSeq(w[1], t + 1, t + n)
                                           /\ rest = x \o r
                                           /\ SubSeq(w[1], 1, t + n) \o r = FlattenSeq(w)
  BY DEF SentPart
<1>1. PICK h, f : h = w[1] /\ h = Head(w) /\ f = FlattenSeq(Tail(w))
  OBVIOUS
<1>2. h \in Seq(Byte) /\ f \in Seq(Byte) /\ FlattenSeq(w) = h \o f
  <2>1. Head(w) \in Seq(Byte) /\ Tail(w) \in Seq(Seq(Byte))
    BY <1>b, HeadTailProperties
  <2>2. FlattenSeq(Tail(w)) \in Seq(Byte)
    BY <2>1, FlattenType
  <2>3. FlattenSeq(w) = Head(w) \o FlattenSeq(Tail(w))
    BY <1>b, FlattenHead
  <2> QED
    BY <1>1, <2>1, <2>2, <2>3, Zenon
<1>3. PICK N, k : N = Len(h) /\ k = t + n
  OBVIOUS
<1>3a. N \in Nat /\ k \in 0 .. N /\ t \in 0 .. N /\ t <= k
  <2>1. Len(h) \in Nat
    BY <1>2
  <2>2. N \in Nat /\ k <= N
    BY <1>b, <1>1, <1>3, <2>1
  <2> QED
    BY <1>3, <2>2
<1>4. PICK a, b, x, y : /\ a = SubSeq(h, 1, t) /\ b = SubSeq(h, 1, k)
                        /\ x = SubSeq(h, t + 1, k) /\ y = SubSeq(h, k + 1, N)
  OBVIOUS
<1>5. b \in Seq(Byte) /\ y \in Seq(Byte) /\ h = b \o y
  <2>1. k \in 0 .. Len(h) /\ y = SubSeq(h, k + 1, Len(h))
    BY <1>3, <1>3a, <1>4, Zenon
  <2>2. h \in Seq(Byte) /\ b = SubSeq(h, 1, k)
    BY <1>2, <1>4
  <2>3. /\ SubSeq(h, 1, k) \in Seq(Byte) /\ SubSeq(h, k + 1, Len(h)) \in Seq(Byte)
        /\ SubSeq(h, 1, k) \o SubSeq(h, k + 1, Len(h)) = h
    BY <2>1, <2>2, Cuts, Zenon
  <2> QED
    BY <2>1, <2>2, <2>3, Zenon
<1>6. a \in Seq(Byte)
  BY <1>2, <1>3, <1>3a, <1>4, Cuts, Zenon
<1>7. x \in Seq(Byte)
  <2>1. t + 1 \in Int /\ k \in Int /\ \A i \in (t + 1) .. k : h[i] \in Byte
    BY <1>2, <1>3, <1>3a, ElementOfSeq
  <2> QED
    BY <1>4, <2>1, SubSeqProperties
<1>8. b = a \o x
  <2>1. 1 \in 1 .. Len(h) + 1 /\ t \in (1 - 1) .. Len(h) /\ k \in t .. Len(h)
    BY <1>3, <1>3a
  <2>2. SubSeq(h, 1, t) \o SubSeq(h, t + 1, k) = SubSeq(h, 1, k)
    BY <1>2, <2>1, ConcatAdjacentSubSeq
  <2> QED
    BY <1>4, <2>2, Zenon
<1>9. a \o rest = h \o f
  BY <1>b, <1>1, <1>2, <1>4, Zenon
<1>10. PICK r : r = y \o f
  OBVIOUS
<1>11. r \in Seq(Byte)
  BY <1>2, <1>5, <1>10, ConcatProperties
<1>12. PICK q : q = x \o r
  OBVIOUS
<1>13. q \in Seq(Byte)
  BY <1>7, <1>11, <1>12, ConcatProperties
<1>14. (b \o y) \o f = b \o (y \o f)
  <2>1. b \in Seq(Byte) /\ y \in Seq(Byte) /\ f \in Seq(Byte)
    BY <1>2, <1>5, Zenon
  <2> QED
    BY <1>a, <2>1, Zenon
<1>15. (a \o x) \o r = a \o (x \o r)
  BY <1>6, <1>7, <1>a, <1>11, Zenon
<1>16. b \o r = h \o f
  BY <1>5, <1>10, <1>14, Zenon
<1>17. a \o rest = a \o q
  BY <1>8, <1>9, <1>12, <1>15, <1>16, Zenon
<1>18. rest = q
  BY <1>6, <1>13, <1>17, ConcatSimplifications
<1> QED
  BY <1>1, <1>2, <1>3, <1>4, <1>7, <1>11, <1>12, <1>16, <1>18, Zenon

(* ... and the rest is the other values when all of the first has gone. *)
LEMMA SendIsOver ==
    ASSUME NEW w \in Seq(Seq(Byte)), w # <<>>, NEW rest \in Seq(Byte),
           SubSeq(w[1], 1, Len(w[1])) \o rest = FlattenSeq(w)
    PROVE  rest = FlattenSeq(Tail(w))
<1>1. PICK h, f : h = w[1] /\ h = Head(w) /\ f = FlattenSeq(Tail(w))
  OBVIOUS
<1>2. h \in Seq(Byte) /\ f \in Seq(Byte) /\ FlattenSeq(w) = h \o f
  <2>1. Head(w) \in Seq(Byte) /\ Tail(w) \in Seq(Seq(Byte))
    BY HeadTailProperties
  <2>2. FlattenSeq(Tail(w)) \in Seq(Byte)
    BY <2>1, FlattenType
  <2>3. FlattenSeq(w) = Head(w) \o FlattenSeq(Tail(w))
    BY FlattenHead
  <2> QED
    BY <1>1, <2>1, <2>2, <2>3, Zenon
<1>3. SubSeq(h, 1, Len(h)) = h
  BY <1>2, SubSeqFull
<1>4. h \o rest = h \o f
  BY <1>1, <1>2, <1>3, Zenon
<1>5. rest = f
  BY <1>2, <1>4, ConcatSimplifications
<1> QED
  BY <1>1, <1>5

(* ... and a buffer as long as the next value is that value.               *)
LEMMA WholeIsRead ==
    ASSUME NEW v \in Seq(Seq(Byte)), v # <<>>,
           NEW b \in Seq(Byte), NEW c \in Seq(Byte), NEW rest \in Seq(Byte),
           Len(b) = Len(Head(v)), (b \o c) \o rest = FlattenSeq(v)
    PROVE  b = Head(v) /\ (<<>> \o c) \o rest = FlattenSeq(Tail(v))
<1>1. PICK h, f : h = Head(v) /\ f = FlattenSeq(Tail(v))
  OBVIOUS
<1>2. h \in Seq(Byte) /\ f \in Seq(Byte) /\ FlattenSeq(v) = h \o f
  <2>1. Head(v) \in Seq(Byte) /\ Tail(v) \in Seq(Seq(Byte))
    BY HeadTailProperties
  <2>2. FlattenSeq(Tail(v)) \in Seq(Byte)
    BY <2>1, FlattenType
  <2>3. FlattenSeq(v) = Head(v) \o FlattenSeq(Tail(v))
    BY FlattenHead
  <2> QED
    BY <1>1, <2>1, <2>2, <2>3, Zenon
<1>3. PICK x, y : x = c \o rest /\ y = b \o c
  OBVIOUS
<1>4. x \in Seq(Byte) /\ y \o rest = b \o x
  <2>1. x \in Seq(Byte)
    BY <1>3, ConcatProperties
  <2>2. y \o rest = b \o x
    BY <1>3, ByteGroups, Zenon
  <2> QED
    BY <2>1, <2>2
<1>5. b \o x = h \o f /\ Len(b) = Len(h)
  BY <1>1, <1>2, <1>3, <1>4, Zenon
<1>6. b = h /\ x = f
  BY <1>2, <1>4, <1>5, SamePrefix
<1>7. <<>> \o c = c
  BY ConcatEmptySeq
<1> QED
  BY <1>1, <1>3, <1>6, <1>7, Zenon

(* What send() has taken of the value being written *)
Gone == IF writes = <<>> THEN <<>> ELSE SubSeq(writes[1], 1, total)

(* The types of what is written, carried and received *)
StreamTypes ==
    /\ writes \in Seq(Written) /\ total \in Nat
    /\ writes # <<>> => total <= Len(writes[1])
    /\ channel \in Seq(Byte) /\ buffer \in Seq(Byte)
    /\ broken \in {"no", "reset", "told"}

(* What was read and the items to come are what is sent; the bytes of what *)
(* is to come are in the buffer, then in the channel, then in the rest,    *)
(* which is what the writer still has to send unless it cannot send.       *)
Place(items, values, rest) ==
    /\ ToCome(wants, items, values)
    /\ got \o items = Sent
    /\ rest \in Seq(Byte)
    /\ (buffer \o channel) \o rest = FlattenSeq(values)
    /\ Reachable => Gone \o rest = FlattenSeq(writes)
InPlace == got \in Seq(ItemsRead) /\ \E items, values, rest : Place(items, values, rest)

(* After a failed recv() nothing is claimed of what was read. *)
StreamInv == StreamTypes /\ (broken # "told" => InPlace)

(* Nothing has gone of a value that was not begun. *)
LEMMA GoneFirst ==
    ASSUME NEW w \in Seq(Written)
    PROVE  (IF w = <<>> THEN <<>> ELSE SubSeq(w[1], 1, 0)) = <<>>
<1>1. CASE w # <<>>
  <2>1. SubSeq(w[1], 1, 0) = <<>>
    BY SubSeqEmpty
  <2> QED
    BY <1>1, <2>1
<1> QED
  BY <1>1

(* The messages are of the two classes, which are registered. *)
LEMMA SentTypes ==
    /\ Messages \in Seq(Sendable)
    /\ Sent = MessageItems(Messages)
  BY MessagesAssumption DEF Sendable, Sent, MessageItems

(* At first all messages are to come, and to be sent. *)
LEMMA Begins == StreamInit => StreamInv
<1>1. SUFFICES ASSUME StreamInit PROVE StreamInv
  OBVIOUS
<1>2. PICK f : f = FlattenSeq(writes)
  OBVIOUS
<1>3. writes = MessageWrites(Messages) /\ writes \in Seq(Written)
  <2>1. writes = MessageWrites(Messages)
    BY <1>1 DEF StreamInit, MessageWrites
  <2> QED
    BY <2>1, SentTypes, MessageTypes
<1>4. Sent \in Seq(ItemsRead)
  BY SentTypes, MessageTypes
<1>5. /\ total = 0 /\ channel = <<>> /\ broken = "no" /\ wants = GetWants
      /\ buffer = <<>> /\ got = <<>>
  BY <1>1 DEF StreamInit
<1>6. <<>> \in Seq(Byte) /\ <<>> \in Seq(ItemsRead)
  BY EmptySeq
<1>7. StreamTypes
  <2>1. writes # <<>> => Len(writes[1]) \in Nat
    <3>1. writes # <<>> => writes[1] \in Written
      BY <1>3, HeadTailProperties
    <3> QED
      BY <3>1 DEF Written
  <2> QED
    BY <1>3, <1>5, <1>6, <2>1 DEF StreamTypes
<1>8. Place(Sent, writes, f)
  <2>1. AtType(wants, Sent, writes, Messages)
    BY <1>3, <1>5, SentTypes, GetWantsIs, Zenon DEF AtType
  <2>2. ToCome(wants, Sent, writes)
    BY <2>1, SentTypes, ToComeBy
  <2>3. got \o Sent = Sent
    BY <1>4, <1>5, ConcatEmptySeq, Zenon
  <2>4. f \in Seq(Byte)
    BY <1>2, <1>3, FlattenType DEF Written
  <2>5. <<>> \o f = f /\ buffer \o channel = <<>>
    <3>1. <<>> \o f = f
      BY <2>4, ConcatEmptySeq
    <3>2. <<>> \o <<>> = <<>>
      BY <1>6, ConcatEmptySeq
    <3> QED
      BY <1>5, <3>1, <3>2, Zenon
  <2>6. Gone = <<>>
    BY <1>3, <1>5, GoneFirst, Zenon DEF Gone
  <2> QED
    BY <1>2, <2>2, <2>3, <2>4, <2>5, <2>6, Zenon DEF Place
<1> QED
  BY <1>5, <1>6, <1>7, <1>8, Zenon DEF StreamInv, InPlace

(* The steps that move no byte: a process ends or is killed. *)
LEMMA NothingMoved ==
    ASSUME StreamInv, UNCHANGED <<writes, total, channel, broken, wants, buffer, got>>,
           Reachable' => Reachable
    PROVE  StreamInv'
<1>1. StreamTypes'
  BY DEF StreamInv, StreamTypes
<1>2. Gone' = Gone
  BY DEF Gone
<1>3. ASSUME NEW items, NEW values, NEW rest, Place(items, values, rest)
      PROVE  Place(items, values, rest)'
  BY <1>2, <1>3 DEF Place
<1> QED
  BY <1>1, <1>3 DEF StreamInv, InPlace

(* A part that send() takes moves from the rest to the end of the channel. *)
LEMMA SendPartKeeps ==
    ASSUME StreamInv, SendPart
    PROVE  StreamInv'
<1>1. PICK n \in 1 .. (Capacity - Len(channel)) :
          /\ total + n <= Len(writes[1])
          /\ channel' = channel \o SubSeq(writes[1], total + 1, total + n)
          /\ total' = total + n
  BY DEF SendPart
<1>2. /\ writes \in Seq(Written) /\ total \in Nat /\ channel \in Seq(Byte) /\ buffer \in Seq(Byte)
      /\ broken \in {"no", "reset", "told"} /\ writes # <<>>
      /\ writes' = writes /\ broken' = broken /\ reader' = reader /\ wants' = wants
      /\ buffer' = buffer /\ got' = got
      /\ broken = "no" /\ reader = "running"
  BY DEF SendPart, StreamInv, StreamTypes, Writing, Reachable, ReaderKept
<1>3. n \in Nat /\ n # 0
  <2>1. Len(channel) \in Nat
    BY <1>2
  <2> QED
    BY <2>1, CapacityAssumption
<1>4. got \in Seq(ItemsRead) /\ \E items, values, rest : Place(items, values, rest)
  BY <1>2 DEF StreamInv, InPlace
<1>5. PICK items, values, rest : Place(items, values, rest)
  BY <1>4
<1>6. /\ rest \in Seq(Byte) /\ SubSeq(writes[1], 1, total) \o rest = FlattenSeq(writes)
      /\ ToCome(wants, items, values) /\ got \o items = Sent
      /\ (buffer \o channel) \o rest = FlattenSeq(values)
  BY <1>2, <1>5, Zenon DEF Place, Gone, Reachable
<1>7. PICK x, r \in Seq(Byte) : /\ x = SubSeq(writes[1], total + 1, total + n)
                               /\ rest = x \o r
                               /\ SubSeq(writes[1], 1, total + n) \o r = FlattenSeq(writes)
  <2>1. writes \in Seq(Seq(Byte))
    BY <1>2 DEF Written
  <2>2. total \in Nat /\ n \in Nat /\ rest \in Seq(Byte)
    BY <1>2, <1>3, <1>6
  <2>3. /\ writes # <<>> /\ n # 0 /\ total + n <= Len(writes[1])
        /\ SubSeq(writes[1], 1, total) \o rest = FlattenSeq(writes)
        => SentPart(writes, total, n, rest)
    <3>1. PICK w, t : w = writes /\ t = total
      OBVIOUS
    <3>2. w \in Seq(Seq(Byte)) /\ t \in Nat /\ n \in Nat
      BY <2>1, <2>2, <3>1, Zenon
    <3>3. /\ w # <<>> /\ n # 0 /\ t + n <= Len(w[1])
          /\ SubSeq(w[1], 1, t) \o rest = FlattenSeq(w)
          => SentPart(w, t, n, rest)
      BY <2>2, <3>2, SendGoesOn
    <3> QED
      BY <3>1, <3>3, Zenon
  <2> QED
    BY <1>1, <1>2, <1>3, <1>6, <2>3, Zenon DEF SentPart
<1>8. channel' = channel \o x /\ channel' \in Seq(Byte)
  <2>1. channel' = channel \o x
    BY <1>1, <1>7, Zenon
  <2>2. channel \o x \in Seq(Byte)
    BY <1>2, <1>7, ConcatProperties
  <2> QED
    BY <2>1, <2>2
<1>9. (buffer \o channel') \o r = FlattenSeq(values)
  <2>1. (buffer \o (channel \o x)) \o r = (buffer \o channel) \o (x \o r)
    <3>1. buffer \o (channel \o x) = (buffer \o channel) \o x
      BY <1>2, <1>7, ByteGroups, Zenon
    <3>2. buffer \o channel \in Seq(Byte)
      BY <1>2, ByteGroups, Zenon
    <3>3. ((buffer \o channel) \o x) \o r = (buffer \o channel) \o (x \o r)
      BY <1>7, <3>2, ByteGroups, Zenon
    <3> QED
      BY <3>1, <3>3, Zenon
  <2> QED
    BY <1>6, <1>7, <1>8, <2>1, Zenon
<1>10. Gone' \o r = FlattenSeq(writes')
  BY <1>1, <1>2, <1>7, Zenon DEF Gone
<1>11. Place(items, values, r)'
  BY <1>2, <1>6, <1>7, <1>9, <1>10, Zenon DEF Place
<1>12. StreamTypes'
  <2>1. total' \in Nat /\ (writes' # <<>> => total' <= Len(writes'[1]))
    BY <1>1, <1>2, <1>3
  <2> QED
    BY <1>2, <1>8, <2>1, Zenon DEF StreamTypes
<1> QED
  BY <1>2, <1>4, <1>11, <1>12, Zenon DEF StreamInv, InPlace

(* A value that was sent is nothing more to send, and the next one not     *)
(* begun.                                                                  *)
LEMMA SendEndsKeeps ==
    ASSUME StreamInv, SendEnds
    PROVE  StreamInv'
<1>1. /\ writes \in Seq(Written) /\ total \in Nat /\ channel \in Seq(Byte) /\ buffer \in Seq(Byte)
      /\ broken \in {"no", "reset", "told"} /\ writes # <<>> /\ total = Len(writes[1])
      /\ writes' = Tail(writes) /\ total' = 0
      /\ channel' = channel /\ broken' = broken /\ reader' = reader /\ wants' = wants
      /\ buffer' = buffer /\ got' = got
  BY DEF SendEnds, StreamInv, StreamTypes, Writing, ReaderKept
<1>2. writes' \in Seq(Written)
  BY <1>1, HeadTailProperties
<1>3. Gone' = <<>>
  BY <1>1, <1>2, GoneFirst, Zenon DEF Gone
<1>4. StreamTypes'
  <2>1. writes' # <<>> => Len(writes'[1]) \in Nat
    <3>1. writes' # <<>> => writes'[1] \in Written
      BY <1>2, HeadTailProperties
    <3> QED
      BY <3>1 DEF Written
  <2>2. total' \in Nat /\ (writes' # <<>> => total' <= Len(writes'[1]))
    BY <1>1, <2>1
  <2> QED
    BY <1>1, <1>2, <2>2, Zenon DEF StreamTypes
<1>5. ASSUME NEW items, NEW values, NEW rest, Place(items, values, rest)
      PROVE  Place(items, values, rest)'
  <2>1. rest \in Seq(Byte)
    BY <1>5 DEF Place
  <2>2. Reachable' => Gone' \o rest = FlattenSeq(writes')
    <3>1. SUFFICES ASSUME Reachable' PROVE Gone' \o rest = FlattenSeq(writes')
      OBVIOUS
    <3>2. Reachable
      BY <1>1, <3>1 DEF Reachable
    <3>3. SubSeq(writes[1], 1, Len(writes[1])) \o rest = FlattenSeq(writes)
      BY <1>1, <1>5, <3>2, Zenon DEF Place, Gone
    <3>4. rest = FlattenSeq(Tail(writes))
      <4>1. writes \in Seq(Seq(Byte))
        BY <1>1 DEF Written
      <4> QED
        BY <1>1, <2>1, <3>3, <4>1, SendIsOver, Zenon
    <3>5. <<>> \o rest = rest
      BY <2>1, ConcatEmptySeq
    <3> QED
      BY <1>1, <1>3, <3>4, <3>5, Zenon
  <2> QED
    BY <1>1, <1>5, <2>2, Zenon DEF Place
<1> QED
  BY <1>1, <1>4, <1>5, Zenon DEF StreamInv, InPlace

(* A failed send() forgets a value, which only an unreachable reader       *)
(* misses.                                                                 *)
LEMMA SendFailsKeeps ==
    ASSUME StreamInv, SendFails
    PROVE  StreamInv'
<1>1. /\ writes \in Seq(Written) /\ channel \in Seq(Byte) /\ buffer \in Seq(Byte)
      /\ broken \in {"no", "reset", "told"} /\ writes # <<>>
      /\ writes' = Tail(writes) /\ total' = 0 /\ ~ Reachable'
      /\ channel' = channel /\ broken' = broken /\ wants' = wants
      /\ buffer' = buffer /\ got' = got
  BY DEF SendFails, StreamInv, StreamTypes, Writing, ReaderKept, Reachable
<1>2. writes' \in Seq(Written)
  BY <1>1, HeadTailProperties
<1>3. StreamTypes'
  <2>1. writes' # <<>> => Len(writes'[1]) \in Nat
    <3>1. writes' # <<>> => writes'[1] \in Written
      BY <1>2, HeadTailProperties
    <3> QED
      BY <3>1 DEF Written
  <2>2. total' \in Nat /\ (writes' # <<>> => total' <= Len(writes'[1]))
    BY <1>1, <2>1
  <2> QED
    BY <1>1, <1>2, <2>2, Zenon DEF StreamTypes
<1>4. ASSUME NEW items, NEW values, NEW rest, Place(items, values, rest)
      PROVE  Place(items, values, rest)'
  BY <1>1, <1>4, Zenon DEF Place
<1> QED
  BY <1>1, <1>3, <1>4, Zenon DEF StreamInv, InPlace

(* recv() moves bytes from the channel to the buffer, which are adjacent. *)
LEMMA RecvPartKeeps ==
    ASSUME StreamInv, RecvPart
    PROVE  StreamInv'
<1>1. PICK n \in 1 .. Len(channel) :
          /\ buffer' = buffer \o SubSeq(channel, 1, n)
          /\ channel' = SubSeq(channel, n + 1, Len(channel))
  BY DEF RecvPart
<1>2. /\ channel \in Seq(Byte) /\ buffer \in Seq(Byte)
      /\ writes' = writes /\ total' = total /\ broken' = broken
      /\ reader' = reader /\ wants' = wants /\ got' = got
  BY DEF RecvPart, StreamInv, StreamTypes, WriterKept
<1>3. PICK x, y : x = SubSeq(channel, 1, n) /\ y = SubSeq(channel, n + 1, Len(channel))
  OBVIOUS
<1>4. x \in Seq(Byte) /\ y \in Seq(Byte) /\ x \o y = channel
  <2>1. n \in 0 .. Len(channel)
    OBVIOUS
  <2> QED
    BY <1>2, <1>3, <2>1, Cuts, Zenon
<1>5. (buffer \o x) \o y = buffer \o channel /\ buffer \o x \in Seq(Byte)
  <2>1. (buffer \o x) \o y = buffer \o (x \o y) /\ buffer \o x \in Seq(Byte)
    <3>1. buffer \in Seq(Byte) /\ x \in Seq(Byte) /\ y \in Seq(Byte)
      BY <1>2, <1>4
    <3> QED
      BY <3>1, ByteGroups
  <2> QED
    BY <1>4, <2>1, Zenon
<1>6. buffer' \in Seq(Byte) /\ channel' \in Seq(Byte) /\ buffer' \o channel' = buffer \o channel
  BY <1>1, <1>3, <1>4, <1>5, Zenon
<1>7. StreamTypes'
  BY <1>2, <1>6, Zenon DEF StreamTypes, StreamInv
<1>8. Reachable' = Reachable /\ Gone' = Gone
  BY <1>2, Zenon DEF Reachable, Gone
<1>9. ASSUME NEW items, NEW values, NEW rest, Place(items, values, rest)
      PROVE  Place(items, values, rest)'
  BY <1>2, <1>6, <1>8, <1>9, Zenon DEF Place
<1> QED
  BY <1>2, <1>7, <1>9, Zenon DEF StreamInv, InPlace

(* A reset cuts the channel: what is lost goes back to the rest, which     *)
(* nobody sends any more.                                                  *)
LEMMA BreakKeeps ==
    ASSUME StreamInv, Break
    PROVE  StreamInv'
<1>1. PICK n \in 0 .. Len(channel) : channel' = SubSeq(channel, 1, n)
  BY DEF Break
<1>2. /\ channel \in Seq(Byte) /\ buffer \in Seq(Byte)
      /\ writes' = writes /\ total' = total /\ broken = "no" /\ broken' = "reset"
      /\ reader' = reader /\ wants' = wants /\ got' = got /\ buffer' = buffer
  BY DEF Break, StreamInv, StreamTypes, WriterKept, ReaderKept
<1>3. PICK x, y : x = SubSeq(channel, 1, n) /\ y = SubSeq(channel, n + 1, Len(channel))
  OBVIOUS
<1>4. x \in Seq(Byte) /\ y \in Seq(Byte) /\ x \o y = channel
  BY <1>2, <1>3, Cuts, Zenon
<1>5. StreamTypes'
  <2>1. channel' \in Seq(Byte) /\ broken' \in {"no", "reset", "told"}
    BY <1>1, <1>2, <1>3, <1>4, Zenon
  <2> QED
    BY <1>2, <2>1, Zenon DEF StreamTypes, StreamInv
<1>6. ~ Reachable'
  BY <1>2 DEF Reachable
<1>7. ASSUME NEW items, NEW values, NEW rest, Place(items, values, rest)
      PROVE  Place(items, values, y \o rest)'
  <2>1. rest \in Seq(Byte)
    BY <1>7 DEF Place
  <2>2. y \o rest \in Seq(Byte)
    BY <1>4, <2>1, ConcatProperties
  <2>3. (buffer \o (x \o y)) \o rest = (buffer \o x) \o (y \o rest)
    <3>1. buffer \o (x \o y) = (buffer \o x) \o y
      BY <1>2, <1>4, ByteGroups, Zenon
    <3>2. buffer \o x \in Seq(Byte)
      BY <1>2, <1>4, ByteGroups, Zenon
    <3>3. ((buffer \o x) \o y) \o rest = (buffer \o x) \o (y \o rest)
      BY <1>4, <2>1, <3>2, ByteGroups, Zenon
    <3> QED
      BY <3>1, <3>3, Zenon
  <2>4. (buffer \o x) \o (y \o rest) = FlattenSeq(values)
    BY <1>4, <1>7, <2>3, Zenon DEF Place
  <2>5. buffer' \o channel' = buffer \o x
    BY <1>1, <1>2, <1>3, Zenon
  <2> QED
    BY <1>2, <1>6, <1>7, <2>2, <2>4, <2>5, Zenon DEF Place
<1>8. InPlace'
  <2>1. got \in Seq(ItemsRead) /\ \E items, values, rest : Place(items, values, rest)
    BY <1>2 DEF StreamInv, InPlace
  <2>2. got' \in Seq(ItemsRead)
    BY <1>2, <2>1
  <2>3. PICK items, values, rest : Place(items, values, rest)
    BY <2>1
  <2>4. Place(items, values, y \o rest)'
    BY <1>7, <2>3
  <2> QED
    BY <2>2, <2>4, Zenon DEF InPlace
<1> QED
  BY <1>5, <1>8 DEF StreamInv

(* An item read goes from the items to come to those that came. *)
LEMMA AppendHead ==
    ASSUME NEW S, NEW g \in Seq(S), NEW q \in Seq(S), q # <<>>
    PROVE  Append(g, Head(q)) \in Seq(S) /\ Append(g, Head(q)) \o Tail(q) = g \o q
<1>1. PICK a, t, o : a = Head(q) /\ t = Tail(q) /\ o = <<a>>
  OBVIOUS
<1>2. a \in S /\ t \in Seq(S)
  BY <1>1, HeadTailProperties
<1>3. o \in Seq(S)
  BY <1>1, <1>2
<1>4. q = o \o t
  BY <1>1, HeadTailProperties
<1>5. Append(g, a) = g \o o
  BY <1>1, AppendIsConcat, <1>2
<1>6. (g \o o) \o t = g \o (o \o t)
  BY <1>2, <1>3, ConcatAssociative
<1>7. g \o o \in Seq(S)
  BY <1>3, ConcatProperties
<1> QED
  BY <1>1, <1>4, <1>5, <1>6, <1>7, Zenon

(* The value is whole: it is the next one *)
LEMMA ReadsNext ==
    ASSUME NEW items, NEW values, NEW rest, Place(items, values, rest), StreamTypes, RecvEnds
    PROVE  /\ Follows(wants, items, values)
           /\ buffer = Head(values)
           /\ (<<>> \o channel) \o rest = FlattenSeq(Tail(values))
<1>1. /\ channel \in Seq(Byte) /\ buffer \in Seq(Byte) /\ wants # <<>>
      /\ Len(buffer) = Head(wants).size
  BY DEF StreamTypes, RecvEnds, Reading, Want
<1>2. /\ rest \in Seq(Byte) /\ ToCome(wants, items, values)
      /\ (buffer \o channel) \o rest = FlattenSeq(values)
  BY DEF Place
<1>3. values \in Seq(Seq(Byte))
  BY <1>2, ToComeTypes DEF Written
<1>4. Follows(wants, items, values)
  <2>1. SUFFICES ASSUME values = <<>>, Head(wants).size = 2 PROVE FALSE
    BY <1>1, <1>2, WantedComes
  <2>2. FlattenSeq(values) = <<>>
    BY <2>1, FlattenEmpty
  <2>3. PICK b, c, x : b = buffer /\ c = channel /\ x = b \o c
    OBVIOUS
  <2>4. b \in Seq(Byte) /\ c \in Seq(Byte) /\ x \in Seq(Byte) /\ Len(x) = Len(b) + Len(c)
    BY <1>1, <2>3, ConcatProperties
  <2>5. Len(x \o rest) = Len(x) + Len(rest)
    BY <1>2, <2>4, ConcatProperties
  <2>6. Len(x \o rest) = 0
    BY <1>2, <2>2, <2>3, Zenon, EmptySeq
  <2>7. Len(b) \in Nat /\ Len(c) \in Nat /\ Len(rest) \in Nat
    BY <1>2, <2>4
  <2>8. Len(b) = 0
    BY <2>4, <2>5, <2>6, <2>7
  <2> QED
    BY <1>1, <2>1, <2>3, <2>8
<1>5. values # <<>> /\ Len(buffer) = Len(Head(values))
  BY <1>1, <1>4, Zenon DEF Follows
<1>6. buffer = Head(values) /\ (<<>> \o channel) \o rest = FlattenSeq(Tail(values))
  BY <1>1, <1>2, <1>3, <1>5, WholeIsRead, Zenon
<1> QED
  BY <1>4, <1>6

(* The buffer, after a value *)
LEMMA ReadsType ==
    ASSUME NEW v, Reads(v), buffer \in Seq(Byte)
    PROVE  buffer' \in Seq(Byte)
<1>1. buffer' = buffer \/ buffer' = <<>>
  BY DEF Reads
<1>2. <<>> \in Seq(Byte)
  BY EmptySeq
<1> QED
  BY <1>1, <1>2

(* A value that came whole is the next one, and what is wanted next is     *)
(* what comes after it.                                                    *)
LEMMA RecvEndsKeeps ==
    ASSUME StreamInv, RecvEnds
    PROVE  StreamInv'
<1>1. /\ writes' = writes /\ total' = total /\ broken' = broken /\ channel' = channel
      /\ buffer \in Seq(Byte) /\ channel \in Seq(Byte) /\ reader = "running"
      /\ Reads(Decoded(Want.what, buffer))
  BY DEF RecvEnds, StreamInv, StreamTypes, WriterKept, Reading
<1>2. StreamTypes'
  <2>1. buffer' \in Seq(Byte)
    BY <1>1, ReadsType
  <2> QED
    BY <1>1, <2>1, Zenon DEF StreamTypes, StreamInv
<1>3. (Reachable' => Reachable) /\ Gone' = Gone
  BY <1>1, Zenon DEF Reachable, Gone
<1>4. CASE Unknown(Decoded(Want.what, buffer))
  <2>1. wants' = wants /\ buffer' = buffer /\ got' = got
    BY <1>1, <1>4 DEF Reads
  <2> QED
    BY <1>1, <1>3, <2>1, NothingMoved
<1>5. CASE ~ Unknown(Decoded(Want.what, buffer))
  <2>1. PICK v : v = Decoded(Want.what, buffer)
    OBVIOUS
  <2>2. /\ got' = Append(got, ReadAs(Want.what, v))
        /\ wants' = After(Want.what, v) \o Tail(wants)
        /\ buffer' = <<>>
    BY <1>1, <1>5, <2>1 DEF Reads, ReadAs
  <2>3. SUFFICES ASSUME broken # "told" PROVE InPlace'
    BY <1>1, <1>2 DEF StreamInv
  <2>4. got \in Seq(ItemsRead) /\ \E items, values, rest : Place(items, values, rest)
    BY <2>3 DEF StreamInv, InPlace
  <2>5. PICK items, values, rest : Place(items, values, rest)
    BY <2>4
  <2>6. /\ Follows(wants, items, values) /\ buffer = Head(values)
        /\ (<<>> \o channel) \o rest = FlattenSeq(Tail(values))
    BY <2>5, ReadsNext DEF StreamInv
  <2>7. /\ rest \in Seq(Byte) /\ got \o items = Sent
        /\ Reachable => Gone \o rest = FlattenSeq(writes)
        /\ items \in Seq(ItemsRead)
    <3>1. ToCome(wants, items, values)
      BY <2>5 DEF Place
    <3>2. items \in Seq(ItemsRead)
      BY <3>1, ToComeTypes
    <3> QED
      BY <2>5, <3>2, Zenon DEF Place
  <2>8. Want = Head(wants)
    BY DEF Want
  <2>9. /\ items # <<>> /\ Head(items) = ReadAs(Want.what, v)
        /\ ToCome(After(Want.what, v) \o Tail(wants), Tail(items), Tail(values))
    BY <2>1, <2>6, <2>8, Zenon DEF Follows
  <2>10. got' \in Seq(ItemsRead) /\ got' \o Tail(items) = Sent
    <3>1. PICK g : g = got
      OBVIOUS
    <3>2. /\ Append(g, Head(items)) \in Seq(ItemsRead)
          /\ Append(g, Head(items)) \o Tail(items) = g \o items
      <4>1. g \in Seq(ItemsRead) /\ items \in Seq(ItemsRead) /\ items # <<>>
        BY <2>4, <2>7, <2>9, <3>1, Zenon
      <4> QED
        BY <4>1, AppendHead, Zenon
    <3> QED
      BY <2>2, <2>7, <2>9, <3>1, <3>2, Zenon
  <2>11. ToCome(wants', Tail(items), Tail(values))
    BY <2>2, <2>9, Zenon
  <2>12. (buffer' \o channel') \o rest = FlattenSeq(Tail(values))
    BY <1>1, <2>2, <2>6, Zenon
  <2>13. Reachable' => Gone' \o rest = FlattenSeq(writes')
    BY <1>1, <1>3, <2>7, Zenon
  <2>14. Place(Tail(items), Tail(values), rest)'
    BY <2>7, <2>10, <2>11, <2>12, <2>13, Zenon DEF Place
  <2> QED
    BY <2>10, <2>14, Zenon DEF InPlace
<1> QED
  BY <1>4, <1>5

(* After a failed recv() only the types are left. *)
LEMMA RecvFailsKeeps ==
    ASSUME StreamInv, RecvFails
    PROVE  StreamInv'
<1>1. PICK v : Reads(v)
  BY DEF RecvFails
<1>2. /\ writes' = writes /\ total' = total /\ broken' = "told" /\ channel' = channel
      /\ buffer \in Seq(Byte)
  BY DEF RecvFails, Ends, StreamInv, StreamTypes, WriterKept
<1>3. buffer' \in Seq(Byte)
  BY <1>1, <1>2, ReadsType
<1>4. StreamTypes'
  BY <1>2, <1>3 DEF StreamTypes, StreamInv
<1> QED
  BY <1>2, <1>4 DEF StreamInv

(* The next Get() begins where the last message ended. *)
LEMMA GetAgainKeeps ==
    ASSUME StreamInv, GetAgain
    PROVE  StreamInv'
<1>1. /\ UNCHANGED <<writes, total, channel, broken, buffer, got>> /\ wants = <<>>
      /\ reader = "running"
  BY DEF GetAgain, WriterKept
<1>2. Reachable' => Reachable
  BY <1>1 DEF Reachable
<1>3. CASE wants' = wants
  BY <1>1, <1>2, <1>3, NothingMoved
<1>4. CASE wants' = GetWants
  <2>1. StreamTypes'
    BY <1>1 DEF StreamInv, StreamTypes
  <2>2. Gone' = Gone
    BY <1>1 DEF Gone
  <2>3. ASSUME NEW items, NEW values, NEW rest, Place(items, values, rest)
        PROVE  Place(items, values, rest)'
    <3>1. ToCome(wants, items, values)
      BY <2>3 DEF Place
    <3>2. ToCome(<<>>, items, values)
      BY <1>1, <3>1, Zenon
    <3>3. ToCome(wants', items, values)
      BY <1>4, <3>2, NothingWanted, Zenon
    <3> QED
      BY <1>1, <1>2, <2>2, <2>3, <3>3 DEF Place
  <2> QED
    BY <1>1, <2>1, <2>3 DEF StreamInv, InPlace
<1> QED
  BY <1>3, <1>4 DEF GetAgain

(* The invariant is inductive, ... *)
LEMMA StreamKeeps == StreamInv /\ [StreamNext]_streamVars => StreamInv'
<1> SUFFICES ASSUME StreamInv, [StreamNext]_streamVars PROVE StreamInv'
  OBVIOUS
<1>1. CASE SendPart
  BY <1>1, SendPartKeeps
<1>2. CASE SendEnds
  BY <1>2, SendEndsKeeps
<1>3. CASE SendFails
  BY <1>3, SendFailsKeeps
<1>4. CASE WriterDone
  BY <1>4, NothingMoved DEF WriterDone, ReaderKept, Reachable
<1>5. CASE RecvPart
  BY <1>5, RecvPartKeeps
<1>6. CASE RecvEnds
  BY <1>6, RecvEndsKeeps
<1>7. CASE RecvFails
  BY <1>7, RecvFailsKeeps
<1>8. CASE GetAgain
  BY <1>8, GetAgainKeeps
<1>9. CASE Kill
  <2>1. Reachable' => Reachable
    BY <1>9 DEF Kill, Reachable
  <2> QED
    BY <1>9, <2>1, NothingMoved DEF Kill
<1>10. CASE Break
  BY <1>10, BreakKeeps
<1>11. CASE UNCHANGED streamVars
  <2>1. UNCHANGED <<writes, total, channel, broken, wants, buffer, got>> /\ reader' = reader
    BY <1>11 DEF streamVars
  <2>2. Reachable' => Reachable
    BY <2>1 DEF Reachable
  <2> QED
    BY <2>1, <2>2, NothingMoved
<1> QED
  BY <1>1, <1>2, <1>3, <1>4, <1>5, <1>6, <1>7, <1>8, <1>9, <1>10, <1>11
     DEF StreamNext, SendStep, RecvStep

(* What two sequences make up begins with the first one. *)
LEMMA PrefixIsRight ==
    ASSUME NEW S, NEW g \in Seq(S), NEW q \in Seq(S), NEW s, s = g \o q
    PROVE  \A i \in 1 .. Len(g) : i <= Len(s) /\ g[i] = s[i]
<1>1. /\ Len(s) = Len(g) + Len(q)
      /\ \A i \in 1 .. Len(g) + Len(q) : s[i] = IF i <= Len(g) THEN g[i] ELSE q[i - Len(g)]
  BY ConcatProperties
<1>2. Len(g) \in Nat /\ Len(q) \in Nat
  OBVIOUS
<1> QED
  BY <1>1, <1>2

(* ... and implies what is claimed. *)
LEMMA StreamInvRight == StreamInv => ReadIsWritten
<1>1. SUFFICES ASSUME StreamInv, broken # "told" PROVE \A i \in 1 .. Len(got) : Right(i)
  BY DEF ReadIsWritten
<1>2. got \in Seq(ItemsRead) /\ \E items, values, rest : Place(items, values, rest)
  BY <1>1 DEF StreamInv, InPlace
<1>3. PICK items, values, rest : Place(items, values, rest)
  BY <1>2
<1>4. got \o items = Sent /\ ToCome(wants, items, values)
  BY <1>3 DEF Place
<1>5. items \in Seq(ItemsRead)
  BY <1>4, ToComeTypes
<1>6. PICK g, s : g = got /\ s = Sent
  OBVIOUS
<1>7. \A i \in 1 .. Len(g) : i <= Len(s) /\ g[i] = s[i]
  <2>1. g \in Seq(ItemsRead) /\ s = g \o items
    BY <1>2, <1>4, <1>6, Zenon
  <2> QED
    BY <1>5, <2>1, PrefixIsRight
<1>8. \A i \in 1 .. Len(got) : i <= Len(Sent) /\ got[i] = Sent[i]
  BY <1>6, <1>7, Zenon
<1> QED
  BY <1>8, Zenon DEF Right

(* Whatever send() and recv() cut, and whatever happens to the processes   *)
(* and to the connection, the values read are those that were written, in  *)
(* their order and whole, until a recv() fails.                            *)
THEOREM ReadCorrect == StreamSpec => []ReadIsWritten
<1>1. StreamInv /\ [StreamNext]_streamVars => StreamInv'
  BY StreamKeeps
<1> QED
  BY <1>1, Begins, StreamInvRight, PTL DEF StreamSpec

-----------------------------------------------------------------------------
(* Octets are numbers. *)
LEMMA OctetFact == \A x \in Octets : x \in Nat /\ x \in Int /\ x \in 0 .. 255
  BY DEF Octets

(* What is read of a packet is an octet, and zero after its end. *)
LEMMA OctetType ==
    ASSUME NEW r \in Seq(Octets), NEW l \in Nat
    PROVE  /\ Octet(r, l) \in Octets /\ Octet(r, l) \in Nat /\ Octet(r, l) \in 0 .. 255
           /\ Char(r, l) \in Int
           /\ Char(r, l) = IF Octet(r, l) < 128 THEN Octet(r, l) ELSE Octet(r, l) - 256
           /\ l >= Len(r) => Octet(r, l) = 0
           /\ l < Len(r) => Octet(r, l) = r[l + 1]
<1>1. Len(r) \in Nat
  OBVIOUS
<1>2. Octet(r, l) \in Octets
  <2>1. l < Len(r) => l + 1 \in 1 .. Len(r)
    BY <1>1
  <2>2. l < Len(r) => r[l + 1] \in Octets
    BY <2>1
  <2> QED
    BY <2>2 DEF Octet, Octets
<1>3. Octet(r, l) \in Int /\ Octet(r, l) \in Nat /\ Octet(r, l) \in 0 .. 255
  BY <1>2, OctetFact, Zenon
<1>4. /\ l >= Len(r) => Octet(r, l) = 0
      /\ l < Len(r) => Octet(r, l) = r[l + 1]
  BY <1>1 DEF Octet
<1> QED
  BY <1>2, <1>3, <1>4 DEF Char

(* The two bytes of a number, the low one first; what is borrowed of the   *)
(* second by a first one of 128 or more.                                   *)
LEMMA SwapIs ==
    \A b \in 0 .. 255, h \in 0 .. 255 : Swap(b * 256 + h) = h * 256 + b
<1> TAKE b \in 0 .. 255, h \in 0 .. 255
<1>1. PICK v : v = b * 256 + h
  OBVIOUS
<1>2. v \div 256 = b /\ v % 256 = h
  BY <1>1
<1> QED
  BY <1>1, <1>2 DEF Swap

(* What was sent with its high byte zero.                                  *)
LEMMA SwapLow == \A n \in 0 .. 255 : Swap(n * 256 + 0) = 0 * 256 + n
<1>1. 0 \in 0 .. 255
  OBVIOUS
<1> QED
  BY <1>1, SwapIs, Zenon

(* A number below 256 is its second byte. *)
LEMMA SmallNumber ==
    ASSUME NEW r \in Seq(Octets), NEW l \in Nat, Octet(r, l) = 0
    PROVE  atoi16(r, l) = Octet(r, l + 1)
<1>1. PICK n : n = Octet(r, l + 1)
  OBVIOUS
<1>0. l + 1 \in Nat
  OBVIOUS
<1>2. n \in 0 .. 255
  BY <1>0, <1>1, OctetType
<1>3. Char(r, l) = 0
  BY OctetType
<1>4. Char(r, l + 1) = IF n < 128 THEN n ELSE n - 256
  BY <1>1, Zenon DEF Char
<1>5. (Char(r, l) + Char(r, l + 1) * 256) % 65536 = n * 256 + 0
  BY <1>2, <1>3, <1>4
<1>6. Swap(n * 256 + 0) = 0 * 256 + n
  BY <1>2, SwapLow
<1> QED
  BY <1>1, <1>2, <1>5, <1>6 DEF atoi16

(* A byte before a zero, read as a number, is not four. *)
LEMMA NotFour ==
    ASSUME NEW r \in Seq(Octets), NEW l \in Nat, Octet(r, l + 1) = 0
    PROVE  atoi16(r, l) \in Nat /\ atoi16(r, l) # 4
<1>1. PICK n : n = Octet(r, l)
  OBVIOUS
<1>2. n \in 0 .. 255
  BY <1>1, OctetType
<1>3. Char(r, l + 1) = 0
  BY OctetType
<1>4. Char(r, l) = IF n < 128 THEN n ELSE n - 256
  BY <1>1, OctetType
<1>5. CASE n < 128
  <2>1. (Char(r, l) + Char(r, l + 1) * 256) % 65536 = 0 * 256 + n
    BY <1>2, <1>3, <1>4, <1>5
  <2>2. Swap(0 * 256 + n) = n * 256 + 0
    <3>1. 0 \in 0 .. 255
      OBVIOUS
    <3> QED
      BY <1>2, <3>1, SwapIs, Zenon
  <2> QED
    BY <1>2, <2>1, <2>2 DEF atoi16
<1>6. CASE ~ (n < 128)
  <2>1. (Char(r, l) + Char(r, l + 1) * 256) % 65536 = 255 * 256 + n
    BY <1>2, <1>3, <1>4, <1>6
  <2>2. Swap(255 * 256 + n) = n * 256 + 255
    <3>1. 255 \in 0 .. 255
      OBVIOUS
    <3> QED
      BY <1>2, <3>1, SwapIs
  <2> QED
    BY <1>2, <2>1, <2>2 DEF atoi16
<1> QED
  BY <1>5, <1>6

(* A number that atoi16() reads is no less than zero.                       *)
LEMMA SwapType == \A v \in Int : Swap(v % 65536) \in Nat
<1>1. \A v \in 0 .. 65535 : (v % 256) * 256 + v \div 256 \in Nat
  <2>1. \A v \in 0 .. 65535 : v % 256 \in Nat /\ v \div 256 \in Nat
    OBVIOUS
  <2>2. \A a, b \in Nat : a * 256 + b \in Nat
    OBVIOUS
  <2> QED
    BY <2>1, <2>2
<1>2. \A v \in Int : v % 65536 \in 0 .. 65535
  OBVIOUS
<1> QED
  BY <1>1, <1>2 DEF Swap

(* Two bytes of a packet are a number, and where they point is one.        *)
LEMMA NumberType ==
    ASSUME NEW r \in Seq(Octets), NEW l \in Nat
    PROVE  atoi16(r, l) \in Nat /\ Pointed(r, l) \in Nat
<1>1. Char(r, l) \in Int /\ Char(r, l + 1) \in Int
  <2>1. l + 1 \in Nat
    OBVIOUS
  <2> QED
    BY <2>1, OctetType, Zenon
<1>2. PICK v : v = Char(r, l) + Char(r, l + 1) * 256
  OBVIOUS
<1>3. v \in Int
  BY <1>1, <1>2
<1>4. Swap(v % 65536) \in Nat
  BY <1>3, SwapType
<1>5. PICK a : a = atoi16(r, l)
  OBVIOUS
<1>6. a = Swap(v % 65536)
  BY <1>2, <1>5 DEF atoi16
<1>7. a \in Nat
  BY <1>4, <1>6
<1>8. (a + 1) % 64 \in Nat
  BY <1>7
<1> QED
  BY <1>5, <1>7, <1>8 DEF Pointed

(* A pointer to one of the first 64 bytes is followed to where it points:  *)
(* the 1 that is given back is the one that was borrowed.                  *)
LEMMA PointedIs ==
    ASSUME NEW r \in Seq(Octets), NEW l \in Nat, Octet(r, l) >= 192,
           (Octet(r, l) - 192) * 256 + Octet(r, l + 1) < 64
    PROVE  Pointed(r, l) = (Octet(r, l) - 192) * 256 + Octet(r, l + 1)
<1>1. PICK n : n = Octet(r, l + 1)
  OBVIOUS
<1>0. l + 1 \in Nat
  OBVIOUS
<1>2. n \in 0 .. 255 /\ Octet(r, l) \in 0 .. 255
  BY <1>0, <1>1, OctetType
<1>3. Octet(r, l) = 192 /\ n < 64
  <2>1. PICK h : h = Octet(r, l)
    OBVIOUS
  <2>2. h \in 192 .. 255 /\ (h - 192) * 256 + n < 64
    <3>1. h \in 0 .. 255 /\ h >= 192
      BY <1>2, <2>1
    <3>2. (h - 192) * 256 + n < 64
      BY <1>1, <2>1, Zenon
    <3> QED
      BY <3>1, <3>2
  <2>3. h = 192 /\ n < 64
    BY <1>2, <2>2
  <2> QED
    BY <2>1, <2>3
<1>4. Char(r, l) = -64 /\ Char(r, l + 1) = n
  BY <1>1, <1>2, <1>3, OctetType
<1>5. CASE n = 0
  <2>1. (Char(r, l) + Char(r, l + 1) * 256) % 65536 = 255 * 256 + 192
    BY <1>4, <1>5
  <2>2. Swap(255 * 256 + 192) = 192 * 256 + 255
    <3>1. 255 \in 0 .. 255 /\ 192 \in 0 .. 255
      OBVIOUS
    <3> QED
      BY <3>1, SwapIs
  <2>3. atoi16(r, l) = 192 * 256 + 255
    BY <2>1, <2>2 DEF atoi16
  <2> QED
    BY <1>1, <1>3, <1>5, <2>3 DEF Pointed
<1>6. CASE n # 0
  <2>1. (Char(r, l) + Char(r, l + 1) * 256) % 65536 = (n - 1) * 256 + 192
    BY <1>2, <1>3, <1>4, <1>6
  <2>2. Swap((n - 1) * 256 + 192) = 192 * 256 + (n - 1)
    <3>1. n - 1 \in 0 .. 255 /\ 192 \in 0 .. 255
      BY <1>2, <1>6
    <3> QED
      BY <3>1, SwapIs
  <2>3. atoi16(r, l) = 192 * 256 + (n - 1)
    BY <2>1, <2>2 DEF atoi16
  <2>4. (192 * 256 + (n - 1) + 1) % 64 = n
    BY <1>2, <1>3
  <2> QED
    BY <1>1, <1>2, <1>3, <1>6, <2>3, <2>4 DEF Pointed
<1> QED
  BY <1>5, <1>6

(* Places in a packet *)
LEMMA Places ==
    \A l \in Nat, n \in 0 .. 255 :
        l + 1 \in Nat /\ l + 2 \in Nat /\ l + n \in Nat /\ l + 1 + n \in Nat
  OBVIOUS

(* An octet ends a name, begins a label, or begins a pointer. *)
LEMMA OctetCases ==
    \A n \in 0 .. 255 :
        /\ n >= 192 => n # 0
        /\ n < 192 => ~ (n >= 192)
        /\ n = 0 \/ n >= 192 \/ (n # 0 /\ n < 192)
        /\ \A m \in Nat : n >= 192 => (n - 192) * 256 + m \in Nat
  OBVIOUS

(* What recParse() returns, and what a server means *)
NameRead == [text : Seq(Seq(Octets)), location : Nat, end : {"ok", "overrun", "loop"}]
NameMeant == [text : Seq(Seq(Octets)), pointers : SUBSET Nat]

(* A label is as long as its first byte says.                              *)
LEMMA LabelType ==
    ASSUME NEW r \in Seq(Octets), NEW l \in Nat
    PROVE  Label(r, l) \in Seq(Octets) /\ Len(Label(r, l)) = Octet(r, l)
<1>1. PICK n : n = Octet(r, l)
  OBVIOUS
<1>2. n \in Nat
  BY <1>1, OctetType
<1>3. \A i \in 1 .. n : Octet(r, l + i) \in Octets
  <2> TAKE i \in 1 .. n
  <2>1. l + i \in Nat
    BY <1>2
  <2> QED
    BY <2>1, OctetType
<1>4. PICK s : s = [i \in 1 .. n |-> Octet(r, l + i)]
  OBVIOUS
<1>5. s \in Seq(Octets) /\ Len(s) = n
  BY <1>2, <1>3, <1>4
<1> QED
  BY <1>1, <1>4, <1>5 DEF Label

(* One more label, and where it was read. *)
LEMMA PutLabel ==
    \A a \in Seq(Octets), t \in Seq(Seq(Octets)) : <<a>> \o t \in Seq(Seq(Octets))
<1> TAKE a \in Seq(Octets), t \in Seq(Seq(Octets))
<1>1. PICK S : S = Seq(Octets)
  OBVIOUS
<1>2. a \in S /\ t \in Seq(S)
  BY <1>1
<1>3. <<a>> \in Seq(S)
  BY <1>2
<1>4. <<a>> \o t \in Seq(S)
  BY <1>2, <1>3, ConcatProperties
<1> QED
  BY <1>1, <1>4

(* The fields of a name that is read, and of one with a field replaced.    *)
LEMMA ReadRows ==
    \A x \in NameRead, a \in Seq(Octets), n \in Nat :
        /\ x.text \in Seq(Seq(Octets)) /\ x.location \in Nat /\ x.end \in {"ok", "overrun", "loop"}
        /\ [x EXCEPT !.location = n] \in NameRead
        /\ [x EXCEPT !.location = n].text = x.text
        /\ [x EXCEPT !.location = n].location = n
        /\ [x EXCEPT !.location = n].end = x.end
        /\ [x EXCEPT !.text = <<a>> \o @] \in NameRead
        /\ [x EXCEPT !.text = <<a>> \o @].text = <<a>> \o x.text
        /\ [x EXCEPT !.text = <<a>> \o @].location = x.location
        /\ [x EXCEPT !.text = <<a>> \o @].end = x.end
<1> TAKE x \in NameRead, a \in Seq(Octets), n \in Nat
<1>1. PICK T : T = Seq(Seq(Octets))
  OBVIOUS
<1>2. x \in [text : T, location : Nat, end : {"ok", "overrun", "loop"}]
  BY <1>1 DEF NameRead
<1>3. x.text \in T /\ x.location \in Nat /\ x.end \in {"ok", "overrun", "loop"}
  BY <1>2
<1>4. PICK t : t = <<a>> \o x.text
  OBVIOUS
<1>5. t \in T
  BY <1>1, <1>3, <1>4, PutLabel
<1>6. [x EXCEPT !.text = <<a>> \o @] = [x EXCEPT !.text = t]
  BY <1>4
<1>7. /\ [x EXCEPT !.text = t] \in [text : T, location : Nat, end : {"ok", "overrun", "loop"}]
      /\ [x EXCEPT !.text = t].text = t
      /\ [x EXCEPT !.text = t].location = x.location
      /\ [x EXCEPT !.text = t].end = x.end
  BY <1>2, <1>5
<1>8. /\ [x EXCEPT !.location = n] \in [text : T, location : Nat, end : {"ok", "overrun", "loop"}]
      /\ [x EXCEPT !.location = n].text = x.text
      /\ [x EXCEPT !.location = n].location = n
      /\ [x EXCEPT !.location = n].end = x.end
  BY <1>2
<1>9. [text : T, location : Nat, end : {"ok", "overrun", "loop"}] = NameRead
  BY <1>1 DEF NameRead
<1> QED
  BY <1>1, <1>3, <1>4, <1>6, <1>7, <1>8, <1>9, Zenon

(* The same of a name as a server means it.                                *)
LEMMA MeantRows ==
    \A x \in NameMeant, a \in Seq(Octets), n \in Nat :
        /\ x.text \in Seq(Seq(Octets)) /\ x.pointers \in SUBSET Nat
        /\ [x EXCEPT !.pointers = @ \cup {n}] \in NameMeant
        /\ [x EXCEPT !.pointers = @ \cup {n}].text = x.text
        /\ [x EXCEPT !.pointers = @ \cup {n}].pointers = x.pointers \cup {n}
        /\ [x EXCEPT !.text = <<a>> \o @] \in NameMeant
        /\ [x EXCEPT !.text = <<a>> \o @].text = <<a>> \o x.text
        /\ [x EXCEPT !.text = <<a>> \o @].pointers = x.pointers
<1> TAKE x \in NameMeant, a \in Seq(Octets), n \in Nat
<1>1. PICK T : T = Seq(Seq(Octets))
  OBVIOUS
<1>2. x \in [text : T, pointers : SUBSET Nat]
  BY <1>1 DEF NameMeant
<1>3. x.text \in T /\ x.pointers \in SUBSET Nat
  BY <1>2
<1>4. PICK t, p : t = <<a>> \o x.text /\ p = x.pointers \cup {n}
  OBVIOUS
<1>5. t \in T
  BY <1>1, <1>3, <1>4, PutLabel
<1>6. p \in SUBSET Nat
  BY <1>3, <1>4
<1>7. /\ [x EXCEPT !.text = <<a>> \o @] = [x EXCEPT !.text = t]
      /\ [x EXCEPT !.pointers = @ \cup {n}] = [x EXCEPT !.pointers = p]
  BY <1>4
<1>8. /\ [x EXCEPT !.text = t] \in [text : T, pointers : SUBSET Nat]
      /\ [x EXCEPT !.text = t].text = t
      /\ [x EXCEPT !.text = t].pointers = x.pointers
  BY <1>2, <1>5
<1>9. /\ [x EXCEPT !.pointers = p] \in [text : T, pointers : SUBSET Nat]
      /\ [x EXCEPT !.pointers = p].text = x.text
      /\ [x EXCEPT !.pointers = p].pointers = p
  BY <1>2, <1>6
<1>10. [text : T, pointers : SUBSET Nat] = NameMeant
  BY <1>1 DEF NameMeant
<1> QED
  BY <1>1, <1>3, <1>4, <1>7, <1>8, <1>9, <1>10, Zenon

(* The ends of a name: its zero byte, the end of the packet, too many hops. *)
LEMMA ReadEmpty ==
    /\ \A l \in Nat : /\ [text |-> <<>>, location |-> l, end |-> "ok"] \in NameRead
                      /\ [text |-> <<>>, location |-> l, end |-> "ok"].end = "ok"
                      /\ [text |-> <<>>, location |-> l, end |-> "ok"].location = l
                      /\ [text |-> <<>>, location |-> l, end |-> "ok"].text = <<>>
    /\ Bad("overrun") \in NameRead /\ Bad("loop") \in NameRead
    /\ Bad("overrun").end = "overrun" /\ Bad("loop").end = "loop"
    /\ [text |-> <<>>, pointers |-> {}] \in NameMeant
    /\ [text |-> <<>>, pointers |-> {}].text = <<>>
<1>1. <<>> \in Seq(Seq(Octets))
  OBVIOUS
<1>2. PICK T : T = Seq(Seq(Octets))
  OBVIOUS
<1>3. <<>> \in T
  BY <1>1, <1>2
<1>4. PICK e : e = <<>> /\ e \in T
  BY <1>3
<1>5. /\ \A l \in Nat : [text |-> e, location |-> l, end |-> "ok"]
                            \in [text : T, location : Nat, end : {"ok", "overrun", "loop"}]
      /\ [text |-> e, location |-> 0, end |-> "overrun"] \in [text : T, location : Nat, end : {"ok", "overrun", "loop"}]
      /\ [text |-> e, location |-> 0, end |-> "loop"] \in [text : T, location : Nat, end : {"ok", "overrun", "loop"}]
      /\ [text |-> e, pointers |-> {}] \in [text : T, pointers : SUBSET Nat]
  BY <1>4
<1>6. /\ \A l \in Nat : [text |-> e, location |-> l, end |-> "ok"] \in NameRead
      /\ [text |-> e, location |-> 0, end |-> "overrun"] \in NameRead
      /\ [text |-> e, location |-> 0, end |-> "loop"] \in NameRead
      /\ [text |-> e, pointers |-> {}] \in NameMeant
  BY <1>2, <1>5 DEF NameRead, NameMeant
<1> QED
  BY <1>4, <1>6 DEF Bad

(* One call of recParse(), by what it finds. *)
LEMMA HopIs ==
    ASSUME NEW r \in Seq(Octets), NEW l \in Nat, NEW rest \in [Nat -> NameRead]
    PROVE  /\ ~ Inside(r, l) => Hop(r, l, rest) = Bad("overrun")
           /\ Inside(r, l) /\ Octet(r, l) = 0 =>
                 Hop(r, l, rest) = [text |-> <<>>, location |-> l, end |-> "ok"]
           /\ Inside(r, l) /\ Octet(r, l) >= 192 =>
                 Hop(r, l, rest) = [rest[Pointed(r, l)] EXCEPT !.location = l + 2]
           /\ Inside(r, l) /\ Octet(r, l) # 0 /\ Octet(r, l) < 192 /\ ~ Inside(r, l + Octet(r, l)) =>
                 Hop(r, l, rest) = Bad("overrun")
           /\ Inside(r, l) /\ Octet(r, l) # 0 /\ Octet(r, l) < 192 /\ Inside(r, l + Octet(r, l)) =>
                 Hop(r, l, rest) = [rest[l + 1 + Octet(r, l)] EXCEPT !.text = <<Label(r, l)>> \o @]
           /\ Octet(r, l) \in 0 .. 255
           /\ Pointed(r, l) \in Nat /\ l + 2 \in Nat /\ l + 1 + Octet(r, l) \in Nat
           /\ rest[Pointed(r, l)] \in NameRead /\ rest[l + 1 + Octet(r, l)] \in NameRead
           /\ Label(r, l) \in Seq(Octets)
<1>1. Octet(r, l) \in 0 .. 255
  BY OctetType
<1>2. Pointed(r, l) \in Nat
  BY NumberType, Zenon
<1>3. l + 2 \in Nat /\ l + 1 + Octet(r, l) \in Nat
  BY <1>1, Places, Zenon
<1>4. Label(r, l) \in Seq(Octets)
  BY LabelType
<1>5. rest[Pointed(r, l)] \in NameRead /\ rest[l + 1 + Octet(r, l)] \in NameRead
  BY <1>2, <1>3
<1>6. ~ Inside(r, l) => Hop(r, l, rest) = Bad("overrun")
  BY DEF Hop
<1>7. Inside(r, l) /\ Octet(r, l) = 0 => Hop(r, l, rest) = [text |-> <<>>, location |-> l, end |-> "ok"]
  BY DEF Hop
<1>8. Inside(r, l) /\ Octet(r, l) >= 192 =>
          Hop(r, l, rest) = [rest[Pointed(r, l)] EXCEPT !.location = l + 2]
  <2>1. Octet(r, l) >= 192 => Octet(r, l) # 0
    BY <1>1, OctetCases, Zenon
  <2> QED
    BY <2>1, Zenon DEF Hop
<1>9. Inside(r, l) /\ Octet(r, l) # 0 /\ Octet(r, l) < 192 =>
          Hop(r, l, rest) = IF ~ Inside(r, l + Octet(r, l)) THEN Bad("overrun")
                            ELSE [rest[l + 1 + Octet(r, l)] EXCEPT !.text = <<Label(r, l)>> \o @]
  <2>1. Octet(r, l) < 192 => ~ (Octet(r, l) >= 192)
    BY <1>1, OctetCases, Zenon
  <2> QED
    BY <2>1, Zenon DEF Hop
<1> QED
  BY <1>1, <1>2, <1>3, <1>4, <1>5, <1>6, <1>7, <1>8, <1>9, Zenon

(* A call of recParse() returns a name if the calls within it do.          *)
LEMMA HopType ==
    ASSUME NEW r \in Seq(Octets), NEW l \in Nat, NEW rest \in [Nat -> NameRead]
    PROVE  Hop(r, l, rest) \in NameRead
<1>1. /\ Octet(r, l) \in 0 .. 255 /\ Label(r, l) \in Seq(Octets) /\ l + 2 \in Nat
      /\ rest[Pointed(r, l)] \in NameRead /\ rest[l + 1 + Octet(r, l)] \in NameRead
  BY HopIs, Zenon
<1>2. PICK a, b : a = Bad("overrun") /\ b = [text |-> <<>>, location |-> l, end |-> "ok"]
  OBVIOUS
<1>3. a \in NameRead /\ b \in NameRead
  BY <1>2, ReadEmpty, Zenon
<1>4. PICK c : c = [rest[Pointed(r, l)] EXCEPT !.location = l + 2]
  OBVIOUS
<1>5. PICK d : d = [rest[l + 1 + Octet(r, l)] EXCEPT !.text = <<Label(r, l)>> \o @]
  OBVIOUS
<1>6. c \in NameRead /\ d \in NameRead
  <2>1. PICK x, y, t : x = rest[Pointed(r, l)] /\ y = rest[l + 1 + Octet(r, l)] /\ t = Label(r, l)
    OBVIOUS
  <2>2. x \in NameRead /\ y \in NameRead /\ t \in Seq(Octets)
    BY <1>1, <2>1
  <2>3. [x EXCEPT !.location = l + 2] \in NameRead /\ [y EXCEPT !.text = <<t>> \o @] \in NameRead
    BY <1>1, <2>2, ReadRows
  <2> QED
    BY <1>4, <1>5, <2>1, <2>3, Zenon
<1>7. Hop(r, l, rest) \in {a, b, c, d}
  <2>1. Hop(r, l, rest) = a \/ Hop(r, l, rest) = b \/ Hop(r, l, rest) = c \/ Hop(r, l, rest) = d
    <3>1. ~ Inside(r, l) => Hop(r, l, rest) = a
      BY <1>2, Zenon DEF Hop
    <3>2. Inside(r, l) /\ Octet(r, l) = 0 => Hop(r, l, rest) = b
      BY <1>2 DEF Hop
    <3>3. Inside(r, l) /\ Octet(r, l) >= 192 => Hop(r, l, rest) = c
      BY <1>4, HopIs, Zenon
    <3>4. Inside(r, l) /\ Octet(r, l) # 0 /\ Octet(r, l) < 192 /\ ~ Inside(r, l + Octet(r, l))
             => Hop(r, l, rest) = a
      BY <1>2, HopIs, Zenon
    <3>5. Inside(r, l) /\ Octet(r, l) # 0 /\ Octet(r, l) < 192 /\ Inside(r, l + Octet(r, l))
             => Hop(r, l, rest) = d
      BY <1>5, HopIs, Zenon
    <3>6. Octet(r, l) = 0 \/ Octet(r, l) >= 192 \/ (Octet(r, l) # 0 /\ Octet(r, l) < 192)
      BY <1>1, OctetCases, Zenon
    <3> QED
      BY <3>1, <3>2, <3>3, <3>4, <3>5, <3>6, Zenon
  <2> QED
    BY <2>1
<1> QED
  BY <1>3, <1>6, <1>7

(* Where a pointer points, all 14 bits of it *)
Target(r, l) == (Octet(r, l) - 192) * 256 + Octet(r, l + 1)

(* The same of what a server means. *)
LEMMA MeantHopIs ==
    ASSUME NEW r \in Seq(Octets), NEW l \in Nat, NEW rest \in [Nat -> NameMeant]
    PROVE  /\ Octet(r, l) = 0 => MeantHop(r, l, rest) = [text |-> <<>>, pointers |-> {}]
           /\ Octet(r, l) >= 192 =>
                 MeantHop(r, l, rest) = [rest[Target(r, l)] EXCEPT !.pointers = @ \cup {Target(r, l)}]
           /\ Octet(r, l) # 0 /\ Octet(r, l) < 192 =>
                 MeantHop(r, l, rest) = [rest[l + 1 + Octet(r, l)] EXCEPT !.text = <<Label(r, l)>> \o @]
           /\ Octet(r, l) \in 0 .. 255
           /\ Octet(r, l) >= 192 => Target(r, l) \in Nat /\ rest[Target(r, l)] \in NameMeant
           /\ l + 1 + Octet(r, l) \in Nat /\ rest[l + 1 + Octet(r, l)] \in NameMeant
           /\ Label(r, l) \in Seq(Octets)
<1>1. Octet(r, l) \in 0 .. 255
  BY OctetType
<1>2. Octet(r, l + 1) \in Nat
  <2>1. l + 1 \in Nat
    OBVIOUS
  <2> QED
    BY <2>1, OctetType
<1>3. Octet(r, l) >= 192 => Target(r, l) \in Nat
  BY <1>1, <1>2, OctetCases, Zenon DEF Target
<1>4. l + 1 + Octet(r, l) \in Nat
  BY <1>1, Places, Zenon
<1>5. Label(r, l) \in Seq(Octets)
  BY LabelType
<1>6. /\ Octet(r, l) >= 192 => rest[Target(r, l)] \in NameMeant
      /\ rest[l + 1 + Octet(r, l)] \in NameMeant
  BY <1>3, <1>4
<1>7. Octet(r, l) = 0 => MeantHop(r, l, rest) = [text |-> <<>>, pointers |-> {}]
  BY DEF MeantHop
<1>8. Octet(r, l) >= 192 =>
          MeantHop(r, l, rest) = [rest[Target(r, l)] EXCEPT !.pointers = @ \cup {Target(r, l)}]
  <2>1. Octet(r, l) >= 192 => Octet(r, l) # 0
    BY <1>1
  <2> QED
    BY <2>1, Zenon DEF MeantHop, Target
<1>9. Octet(r, l) # 0 /\ Octet(r, l) < 192 =>
          MeantHop(r, l, rest) = [rest[l + 1 + Octet(r, l)] EXCEPT !.text = <<Label(r, l)>> \o @]
  <2>1. Octet(r, l) < 192 => ~ (Octet(r, l) >= 192)
    BY <1>1, OctetCases, Zenon
  <2> QED
    BY <2>1, Zenon DEF MeantHop
<1> QED
  BY <1>1, <1>3, <1>4, <1>5, <1>6, <1>7, <1>8, <1>9, Zenon

(* The same of what a server means.                                        *)
LEMMA MeantHopType ==
    ASSUME NEW r \in Seq(Octets), NEW l \in Nat, NEW rest \in [Nat -> NameMeant]
    PROVE  MeantHop(r, l, rest) \in NameMeant
<1>1. Octet(r, l) \in 0 .. 255 /\ Label(r, l) \in Seq(Octets)
  BY MeantHopIs, Zenon
<1>2. CASE Octet(r, l) = 0
  <2>1. MeantHop(r, l, rest) = [text |-> <<>>, pointers |-> {}]
    BY <1>2 DEF MeantHop
  <2> QED
    BY <2>1, ReadEmpty, Zenon
<1>3. CASE Octet(r, l) >= 192
  <2>1. Target(r, l) \in Nat /\ rest[Target(r, l)] \in NameMeant
    BY <1>3, MeantHopIs, Zenon
  <2>2. MeantHop(r, l, rest) = [rest[Target(r, l)] EXCEPT !.pointers = @ \cup {Target(r, l)}]
    BY <1>3, MeantHopIs, Zenon
  <2>3. [rest[Target(r, l)] EXCEPT !.pointers = @ \cup {Target(r, l)}] \in NameMeant
    BY <1>1, <2>1, MeantRows, Zenon
  <2> QED
    BY <2>2, <2>3, Zenon
<1>4. CASE Octet(r, l) # 0 /\ Octet(r, l) < 192
  <2>1. rest[l + 1 + Octet(r, l)] \in NameMeant
    BY MeantHopIs, Zenon
  <2>2. MeantHop(r, l, rest) = [rest[l + 1 + Octet(r, l)] EXCEPT !.text = <<Label(r, l)>> \o @]
    BY <1>4, MeantHopIs, Zenon
  <2>3. [rest[l + 1 + Octet(r, l)] EXCEPT !.text = <<Label(r, l)>> \o @] \in NameMeant
    <3>1. 0 \in Nat
      OBVIOUS
    <3> QED
      BY <1>1, <2>1, <3>1, MeantRows, Zenon
  <2> QED
    BY <2>2, <2>3, Zenon
<1> QED
  BY <1>1, <1>2, <1>3, <1>4, OctetCases, Zenon

(* The calls of recParse() that a name takes, MaxHops of them at most *)
LEMMA WalkIs ==
    ASSUME NEW r \in Seq(Octets)
    PROVE  /\ \A k \in 0 .. MaxHops : Walk(r)[k] \in [Nat -> NameRead]
           /\ \A l \in Nat : Walk(r)[0][l] = Bad("loop")
           /\ \A k \in 1 .. MaxHops : \A l \in Nat : Walk(r)[k][l] = Hop(r, l, Walk(r)[k - 1])
<1>0. MaxHops \in Nat
  BY HopsAssumption
<1> DEFINE S == [Nat -> NameRead]
           base == [l \in Nat |-> Bad("loop")]
           step == [p \in (1 .. MaxHops) \X S |-> [l \in Nat |-> Hop(r, l, p[2])]]
           Is(q) == q = [k \in 0 .. MaxHops |-> IF k = 0 THEN base
                                                 ELSE [l \in Nat |-> Hop(r, l, q[k - 1])]]
<1>1. base \in S
  BY ReadEmpty
<1>2. step \in [(1 .. MaxHops) \X S -> S]
  <2>1. ASSUME NEW p \in (1 .. MaxHops) \X S
        PROVE  [l \in Nat |-> Hop(r, l, p[2])] \in S
    <3>1. p[2] \in [Nat -> NameRead]
      OBVIOUS
    <3>2. \A l \in Nat : Hop(r, l, p[2]) \in NameRead
      BY <3>1, HopType
    <3> QED
      BY <3>2
  <2> QED
    BY <2>1
<1>3. \A k \in 1 .. MaxHops : \A x \in S : step[<<k, x>>] = [l \in Nat |-> Hop(r, l, x)]
  OBVIOUS
<1> HIDE DEF step
<1>4. PICK f : Recursive(f, MaxHops, S, base, step)
  <2> HIDE DEF S, base
  <2> QED
    BY <1>0, <1>1, <1>2, Recursion
<1>5. /\ f \in [0 .. MaxHops -> S] /\ f[0] = base
      /\ \A k \in 1 .. MaxHops : f[k] = step[<<k, f[k - 1]>>]
  BY <1>4, Zenon DEF Recursive
<1> HIDE DEF S, base
<1>6. ASSUME NEW k \in 1 .. MaxHops PROVE f[k] = [l \in Nat |-> Hop(r, l, f[k - 1])]
  <2>1. k - 1 \in 0 .. MaxHops
    BY <1>0
  <2>2. f[k - 1] \in S
    BY <1>5, <2>1
  <2> QED
    BY <1>3, <1>5, <2>2
<1>7. Is(f)
  <2>1. ASSUME NEW k \in 0 .. MaxHops
        PROVE  f[k] = IF k = 0 THEN base ELSE [l \in Nat |-> Hop(r, l, f[k - 1])]
    <3>1. k = 0 \/ k \in 1 .. MaxHops
      BY <1>0
    <3>2. CASE k = 0
      BY <1>5, <3>2
    <3>3. CASE k \in 1 .. MaxHops
      <4>1. k # 0
        BY <1>0, <3>3
      <4> QED
        BY <1>6, <3>3, <4>1
    <3> QED
      BY <3>1, <3>2, <3>3
  <2>2. f = [k \in 0 .. MaxHops |-> f[k]]
    BY <1>5
  <2> QED
    BY <2>1, <2>2
<1>8. PICK q : q = (CHOOSE x : Is(x)) /\ Walk(r) = q
  BY DEF Walk, base
<1>9. Is(q)
  BY <1>7, <1>8
<1>10. \A k \in 0 .. MaxHops : q[k] = IF k = 0 THEN base ELSE [l \in Nat |-> Hop(r, l, q[k - 1])]
  BY <1>9
<1>11. \A k \in 1 .. MaxHops : f[k - 1] = q[k - 1] => f[k] = q[k]
  <2> TAKE k \in 1 .. MaxHops
  <2>1. k \in 0 .. MaxHops /\ k # 0
    BY <1>0
  <2> QED
    BY <1>6, <1>10, <2>1
<1>12. f[0] = q[0]
  <2>1. 0 \in 0 .. MaxHops
    BY <1>0
  <2> QED
    BY <1>5, <1>10, <2>1
<1>13. \A k \in 0 .. MaxHops : f[k] = q[k]
  BY <1>0, <1>11, <1>12, SameSteps, Zenon
<1>14. ASSUME NEW k \in 0 .. MaxHops PROVE q[k] \in [Nat -> NameRead]
  BY <1>5, <1>13 DEF S
<1>15. ASSUME NEW l \in Nat PROVE q[0][l] = Bad("loop")
  BY <1>5, <1>12 DEF base
<1>16. ASSUME NEW k \in 1 .. MaxHops, NEW l \in Nat PROVE q[k][l] = Hop(r, l, q[k - 1])
  <2>1. k \in 0 .. MaxHops /\ k # 0
    BY <1>0
  <2>2. q[k] = [j \in Nat |-> Hop(r, j, q[k - 1])]
    BY <1>10, <2>1
  <2> QED
    BY <2>2
<1> QED
  BY <1>8, <1>14, <1>15, <1>16

(* The same of what a server means *)
LEMMA MeantWalkIs ==
    ASSUME NEW r \in Seq(Octets)
    PROVE  /\ \A k \in 0 .. MaxHops : MeantWalk(r)[k] \in [Nat -> NameMeant]
           /\ \A l \in Nat : MeantWalk(r)[0][l] = [text |-> <<>>, pointers |-> {}]
           /\ \A k \in 1 .. MaxHops : \A l \in Nat : MeantWalk(r)[k][l] = MeantHop(r, l, MeantWalk(r)[k - 1])
<1>0. MaxHops \in Nat
  BY HopsAssumption
<1> DEFINE S == [Nat -> NameMeant]
           base == [l \in Nat |-> [text |-> <<>>, pointers |-> {}]]
           step == [p \in (1 .. MaxHops) \X S |-> [l \in Nat |-> MeantHop(r, l, p[2])]]
           Is(q) == q = [k \in 0 .. MaxHops |-> IF k = 0 THEN base
                                                 ELSE [l \in Nat |-> MeantHop(r, l, q[k - 1])]]
<1>1. base \in S
  BY ReadEmpty
<1>2. step \in [(1 .. MaxHops) \X S -> S]
  <2>1. ASSUME NEW p \in (1 .. MaxHops) \X S
        PROVE  [l \in Nat |-> MeantHop(r, l, p[2])] \in S
    <3>1. p[2] \in [Nat -> NameMeant]
      OBVIOUS
    <3>2. \A l \in Nat : MeantHop(r, l, p[2]) \in NameMeant
      BY <3>1, MeantHopType
    <3> QED
      BY <3>2
  <2> QED
    BY <2>1
<1>3. \A k \in 1 .. MaxHops : \A x \in S : step[<<k, x>>] = [l \in Nat |-> MeantHop(r, l, x)]
  OBVIOUS
<1> HIDE DEF step
<1>4. PICK f : Recursive(f, MaxHops, S, base, step)
  <2> HIDE DEF S, base
  <2> QED
    BY <1>0, <1>1, <1>2, Recursion
<1>5. /\ f \in [0 .. MaxHops -> S] /\ f[0] = base
      /\ \A k \in 1 .. MaxHops : f[k] = step[<<k, f[k - 1]>>]
  BY <1>4, Zenon DEF Recursive
<1> HIDE DEF S, base
<1>6. ASSUME NEW k \in 1 .. MaxHops PROVE f[k] = [l \in Nat |-> MeantHop(r, l, f[k - 1])]
  <2>1. k - 1 \in 0 .. MaxHops
    BY <1>0
  <2>2. f[k - 1] \in S
    BY <1>5, <2>1
  <2> QED
    BY <1>3, <1>5, <2>2
<1>7. Is(f)
  <2>1. ASSUME NEW k \in 0 .. MaxHops
        PROVE  f[k] = IF k = 0 THEN base ELSE [l \in Nat |-> MeantHop(r, l, f[k - 1])]
    <3>1. k = 0 \/ k \in 1 .. MaxHops
      BY <1>0
    <3>2. CASE k = 0
      BY <1>5, <3>2
    <3>3. CASE k \in 1 .. MaxHops
      <4>1. k # 0
        BY <1>0, <3>3
      <4> QED
        BY <1>6, <3>3, <4>1
    <3> QED
      BY <3>1, <3>2, <3>3
  <2>2. f = [k \in 0 .. MaxHops |-> f[k]]
    BY <1>5
  <2> QED
    BY <2>1, <2>2
<1>8. PICK q : q = (CHOOSE x : Is(x)) /\ MeantWalk(r) = q
  BY DEF MeantWalk, base
<1>9. Is(q)
  BY <1>7, <1>8
<1>10. \A k \in 0 .. MaxHops : q[k] = IF k = 0 THEN base ELSE [l \in Nat |-> MeantHop(r, l, q[k - 1])]
  BY <1>9
<1>11. \A k \in 1 .. MaxHops : f[k - 1] = q[k - 1] => f[k] = q[k]
  <2> TAKE k \in 1 .. MaxHops
  <2>1. k \in 0 .. MaxHops /\ k # 0
    BY <1>0
  <2> QED
    BY <1>6, <1>10, <2>1
<1>12. f[0] = q[0]
  <2>1. 0 \in 0 .. MaxHops
    BY <1>0
  <2> QED
    BY <1>5, <1>10, <2>1
<1>13. \A k \in 0 .. MaxHops : f[k] = q[k]
  BY <1>0, <1>11, <1>12, SameSteps
<1>14. ASSUME NEW k \in 0 .. MaxHops PROVE q[k] \in [Nat -> NameMeant]
  BY <1>5, <1>13 DEF S
<1>15. ASSUME NEW l \in Nat PROVE q[0][l] = [text |-> <<>>, pointers |-> {}]
  BY <1>5, <1>12 DEF base
<1>16. ASSUME NEW k \in 1 .. MaxHops, NEW l \in Nat PROVE q[k][l] = MeantHop(r, l, q[k - 1])
  <2>1. k \in 0 .. MaxHops /\ k # 0
    BY <1>0
  <2>2. q[k] = [j \in Nat |-> MeantHop(r, j, q[k - 1])]
    BY <1>10, <2>1
  <2> QED
    BY <2>2
<1> QED
  BY <1>8, <1>14, <1>15, <1>16

(* A name that is read to its end, and whose pointers all point to one of  *)
(* the first 64 bytes, is read as it is meant.                             *)
Near(x) == \A p \in x.pointers : p < 64
SameText(r, k, l) ==
    Walk(r)[k][l].end = "ok" /\ Near(MeantWalk(r)[k][l]) =>
        Walk(r)[k][l].text = MeantWalk(r)[k][l].text

(* What one call returns, field by field *)
LEMMA HopFields ==
    ASSUME NEW r \in Seq(Octets), NEW l \in Nat, NEW f \in [Nat -> NameRead]
    PROVE  /\ ~ Inside(r, l) => Hop(r, l, f).end # "ok"
           /\ Inside(r, l) /\ Octet(r, l) = 0 =>
                 /\ Hop(r, l, f).text = <<>> /\ Hop(r, l, f).end = "ok"
                 /\ Hop(r, l, f).location = l
           /\ Inside(r, l) /\ Octet(r, l) >= 192 =>
                 /\ Hop(r, l, f).text = f[Pointed(r, l)].text
                 /\ Hop(r, l, f).end = f[Pointed(r, l)].end
                 /\ Hop(r, l, f).location = l + 2
           /\ Inside(r, l) /\ Octet(r, l) # 0 /\ Octet(r, l) < 192 =>
                 /\ ~ Inside(r, l + Octet(r, l)) => Hop(r, l, f).end # "ok"
                 /\ Inside(r, l + Octet(r, l)) =>
                       /\ Hop(r, l, f).text = <<Label(r, l)>> \o f[l + 1 + Octet(r, l)].text
                       /\ Hop(r, l, f).end = f[l + 1 + Octet(r, l)].end
                       /\ Hop(r, l, f).location = f[l + 1 + Octet(r, l)].location
<1>0. /\ Octet(r, l) \in 0 .. 255 /\ Label(r, l) \in Seq(Octets) /\ l + 2 \in Nat
      /\ f[Pointed(r, l)] \in NameRead /\ f[l + 1 + Octet(r, l)] \in NameRead
  BY HopIs, Zenon
<1>1. PICK b : b = Bad("overrun")
  OBVIOUS
<1>2. b.end # "ok"
  <2>1. b.end = "overrun"
    BY <1>1, ReadEmpty, Zenon
  <2> QED
    BY <2>1
<1>3. ~ Inside(r, l) => Hop(r, l, f).end # "ok"
  <2>1. ~ Inside(r, l) => Hop(r, l, f) = b
    BY <1>1, Zenon DEF Hop
  <2> QED
    BY <1>2, <2>1, Zenon
<1>4. ASSUME Inside(r, l), Octet(r, l) # 0, Octet(r, l) < 192, ~ Inside(r, l + Octet(r, l))
      PROVE  Hop(r, l, f).end # "ok"
  <2>1. ~ (Octet(r, l) >= 192)
    BY <1>0, <1>4, OctetCases, Zenon
  <2>2. Hop(r, l, f) = b
    BY <1>1, <1>4, <2>1, Zenon DEF Hop
  <2> QED
    BY <1>2, <2>2, Zenon
<1>5. ASSUME Inside(r, l), Octet(r, l) = 0
      PROVE  /\ Hop(r, l, f).text = <<>> /\ Hop(r, l, f).end = "ok"
             /\ Hop(r, l, f).location = l
  <2>1. Hop(r, l, f) = [text |-> <<>>, location |-> l, end |-> "ok"]
    BY <1>5, HopIs, Zenon
  <2> QED
    BY <2>1, ReadEmpty, Zenon
<1>6. ASSUME Inside(r, l), Octet(r, l) >= 192
      PROVE  /\ Hop(r, l, f).text = f[Pointed(r, l)].text
             /\ Hop(r, l, f).end = f[Pointed(r, l)].end
             /\ Hop(r, l, f).location = l + 2
  <2>1. Hop(r, l, f) = [f[Pointed(r, l)] EXCEPT !.location = l + 2]
    BY <1>6, HopIs, Zenon
  <2>2. PICK x, n : x = f[Pointed(r, l)] /\ n = l + 2
    OBVIOUS
  <2>3. x \in NameRead /\ n \in Nat
    BY <1>0, <2>2
  <2>4. /\ [x EXCEPT !.location = n].text = x.text
        /\ [x EXCEPT !.location = n].location = n
        /\ [x EXCEPT !.location = n].end = x.end
    BY <1>0, <2>3, ReadRows
  <2> QED
    BY <2>1, <2>2, <2>4, Zenon
<1>7. ASSUME Inside(r, l), Octet(r, l) # 0, Octet(r, l) < 192, Inside(r, l + Octet(r, l))
      PROVE  /\ Hop(r, l, f).text = <<Label(r, l)>> \o f[l + 1 + Octet(r, l)].text
             /\ Hop(r, l, f).end = f[l + 1 + Octet(r, l)].end
             /\ Hop(r, l, f).location = f[l + 1 + Octet(r, l)].location
  <2>1. Hop(r, l, f) = [f[l + 1 + Octet(r, l)] EXCEPT !.text = <<Label(r, l)>> \o @]
    BY <1>7, HopIs, Zenon
  <2>2. PICK x, a : x = f[l + 1 + Octet(r, l)] /\ a = Label(r, l)
    OBVIOUS
  <2>3. x \in NameRead /\ a \in Seq(Octets)
    BY <1>0, <2>2
  <2>4. /\ [x EXCEPT !.text = <<a>> \o @].text = <<a>> \o x.text
        /\ [x EXCEPT !.text = <<a>> \o @].location = x.location
        /\ [x EXCEPT !.text = <<a>> \o @].end = x.end
    BY <1>0, <2>3, ReadRows
  <2> QED
    BY <2>1, <2>2, <2>4, Zenon
<1> QED
  BY <1>3, <1>4, <1>5, <1>6, <1>7, Zenon

(* The same of what a server means, field by field.                        *)
LEMMA MeantFields ==
    ASSUME NEW r \in Seq(Octets), NEW l \in Nat, NEW g \in [Nat -> NameMeant]
    PROVE  /\ Octet(r, l) = 0 => MeantHop(r, l, g).text = <<>>
           /\ Octet(r, l) >= 192 =>
                 /\ MeantHop(r, l, g).text = g[Target(r, l)].text
                 /\ MeantHop(r, l, g).pointers = g[Target(r, l)].pointers \cup {Target(r, l)}
                 /\ Target(r, l) \in Nat
           /\ Octet(r, l) # 0 /\ Octet(r, l) < 192 =>
                 /\ MeantHop(r, l, g).text = <<Label(r, l)>> \o g[l + 1 + Octet(r, l)].text
                 /\ MeantHop(r, l, g).pointers = g[l + 1 + Octet(r, l)].pointers
<1>0. /\ Octet(r, l) \in 0 .. 255 /\ Label(r, l) \in Seq(Octets)
      /\ g[l + 1 + Octet(r, l)] \in NameMeant
  BY MeantHopIs, Zenon
<1>1. ASSUME Octet(r, l) = 0 PROVE MeantHop(r, l, g).text = <<>>
  <2>1. MeantHop(r, l, g) = [text |-> <<>>, pointers |-> {}]
    BY <1>1 DEF MeantHop
  <2> QED
    BY <2>1, ReadEmpty, Zenon
<1>2. ASSUME Octet(r, l) >= 192
      PROVE  /\ MeantHop(r, l, g).text = g[Target(r, l)].text
             /\ MeantHop(r, l, g).pointers = g[Target(r, l)].pointers \cup {Target(r, l)}
             /\ Target(r, l) \in Nat
  <2>1. /\ MeantHop(r, l, g) = [g[Target(r, l)] EXCEPT !.pointers = @ \cup {Target(r, l)}]
        /\ Target(r, l) \in Nat /\ g[Target(r, l)] \in NameMeant
    BY <1>2, MeantHopIs, Zenon
  <2>2. PICK x, n : x = g[Target(r, l)] /\ n = Target(r, l)
    OBVIOUS
  <2>3. x \in NameMeant /\ n \in Nat
    BY <2>1, <2>2
  <2>4. /\ [x EXCEPT !.pointers = @ \cup {n}].text = x.text
        /\ [x EXCEPT !.pointers = @ \cup {n}].pointers = x.pointers \cup {n}
    BY <1>0, <2>3, MeantRows
  <2> QED
    BY <2>1, <2>2, <2>4, Zenon
<1>3. ASSUME Octet(r, l) # 0, Octet(r, l) < 192
      PROVE  /\ MeantHop(r, l, g).text = <<Label(r, l)>> \o g[l + 1 + Octet(r, l)].text
             /\ MeantHop(r, l, g).pointers = g[l + 1 + Octet(r, l)].pointers
  <2>1. MeantHop(r, l, g) = [g[l + 1 + Octet(r, l)] EXCEPT !.text = <<Label(r, l)>> \o @]
    BY <1>3, MeantHopIs, Zenon
  <2>2. PICK x, a : x = g[l + 1 + Octet(r, l)] /\ a = Label(r, l)
    OBVIOUS
  <2>3. x \in NameMeant /\ a \in Seq(Octets)
    BY <1>0, <2>2
  <2>4. /\ [x EXCEPT !.text = <<a>> \o @].text = <<a>> \o x.text
        /\ [x EXCEPT !.text = <<a>> \o @].pointers = x.pointers
    BY <1>0, <2>3, MeantRows
  <2> QED
    BY <2>1, <2>2, <2>4, Zenon
<1> QED
  BY <1>1, <1>2, <1>3, Zenon

(* One hop reads what is meant if the hops after it do, as far as every    *)
(* pointer is to one of the first 64 bytes.                                *)
LEMMA HopSame ==
    ASSUME NEW r \in Seq(Octets), NEW l \in Nat,
           NEW f \in [Nat -> NameRead], NEW g \in [Nat -> NameMeant]
    PROVE  (\A j \in Nat : f[j].end = "ok" /\ Near(g[j]) => f[j].text = g[j].text)
           => (Hop(r, l, f).end = "ok" /\ Near(MeantHop(r, l, g))
               => Hop(r, l, f).text = MeantHop(r, l, g).text)
<1>1. /\ Octet(r, l) \in 0 .. 255 /\ l + 1 + Octet(r, l) \in Nat
      /\ Octet(r, l) >= 192 => Target(r, l) \in Nat
  BY MeantHopIs, Zenon
<1>2. Octet(r, l) >= 192 /\ Target(r, l) < 64 => Pointed(r, l) = Target(r, l)
  BY PointedIs, Zenon DEF Target
<1>3. CASE Octet(r, l) = 0
  <2>1. MeantHop(r, l, g).text = <<>>
    BY <1>3, MeantFields, Zenon
  <2>2. Hop(r, l, f).end = "ok" => Hop(r, l, f).text = <<>>
    BY <1>3, HopFields, Zenon
  <2> QED
    BY <2>1, <2>2, Zenon
<1>4. CASE Octet(r, l) >= 192
  <2>1. /\ MeantHop(r, l, g).text = g[Target(r, l)].text
        /\ MeantHop(r, l, g).pointers = g[Target(r, l)].pointers \cup {Target(r, l)}
    BY <1>4, MeantFields, Zenon
  <2>2. Near(MeantHop(r, l, g)) => Target(r, l) < 64 /\ Near(g[Target(r, l)])
    BY <2>1, Zenon DEF Near
  <2>3. Hop(r, l, f).end = "ok" => /\ Hop(r, l, f).text = f[Pointed(r, l)].text
                                   /\ f[Pointed(r, l)].end = "ok"
    BY <1>4, HopFields, Zenon
  <2> QED
    BY <1>1, <1>2, <1>4, <2>1, <2>2, <2>3, Zenon
<1>5. CASE Octet(r, l) # 0 /\ Octet(r, l) < 192
  <2>1. /\ MeantHop(r, l, g).text = <<Label(r, l)>> \o g[l + 1 + Octet(r, l)].text
        /\ MeantHop(r, l, g).pointers = g[l + 1 + Octet(r, l)].pointers
    BY <1>5, MeantFields, Zenon
  <2>2. Near(MeantHop(r, l, g)) => Near(g[l + 1 + Octet(r, l)])
    BY <2>1, Zenon DEF Near
  <2>3. Hop(r, l, f).end = "ok" =>
            /\ Hop(r, l, f).text = <<Label(r, l)>> \o f[l + 1 + Octet(r, l)].text
            /\ f[l + 1 + Octet(r, l)].end = "ok"
    BY <1>5, HopFields, Zenon
  <2> QED
    BY <1>1, <2>1, <2>2, <2>3, Zenon
<1> QED
  BY <1>1, <1>3, <1>4, <1>5, OctetCases, Zenon

(* By induction on the hops, recParse() reads what is meant wherever it    *)
(* begins.                                                                 *)
LEMMA ReadAsMeant ==
    ASSUME NEW r \in Seq(Octets)
    PROVE  \A k \in 0 .. MaxHops : \A l \in Nat : SameText(r, k, l)
<1>0. MaxHops \in Nat
  BY HopsAssumption
<1> DEFINE bad == {k \in 0 .. MaxHops : ~ \A l \in Nat : SameText(r, k, l)}
<1> SUFFICES ASSUME bad # {} PROVE FALSE
  OBVIOUS
<1>1. bad \in SUBSET Nat
  BY <1>0
<1> HIDE DEF bad
<1>2. PICK m \in bad : \A n \in bad : m <= n
  BY <1>1, Least
<1>3. m \in 0 .. MaxHops /\ ~ \A l \in Nat : SameText(r, m, l)
  BY <1>2 DEF bad
<1>4. PICK l \in Nat : ~ SameText(r, m, l)
  BY <1>3
<1>5. CASE m = 0
  <2>1. Walk(r)[m][l] = Bad("loop")
    BY <1>5, WalkIs, Zenon
  <2>2. Walk(r)[m][l].end = "loop"
    BY <2>1, ReadEmpty, Zenon
  <2> QED
    BY <1>4, <2>2 DEF SameText
<1>6. CASE m # 0
  <2>1. m \in 1 .. MaxHops /\ m - 1 \in 0 .. MaxHops /\ ~ (m <= m - 1)
    BY <1>0, <1>3, <1>6
  <2>2. m - 1 \notin bad
    BY <1>2, <2>1, Zenon
  <2>3. \A j \in Nat : SameText(r, m - 1, j)
    BY <2>1, <2>2, Zenon DEF bad
  <2>4. PICK f, g : f = Walk(r)[m - 1] /\ g = MeantWalk(r)[m - 1]
    OBVIOUS
  <2>5. f \in [Nat -> NameRead] /\ g \in [Nat -> NameMeant]
    BY <2>1, <2>4, WalkIs, MeantWalkIs, Zenon
  <2>6. Walk(r)[m][l] = Hop(r, l, f) /\ MeantWalk(r)[m][l] = MeantHop(r, l, g)
    BY <2>1, <2>4, WalkIs, MeantWalkIs, Zenon
  <2>7. \A j \in Nat : f[j].end = "ok" /\ Near(g[j]) => f[j].text = g[j].text
    BY <2>3, <2>4, Zenon DEF SameText
  <2>8. Hop(r, l, f).end = "ok" /\ Near(MeantHop(r, l, g))
           => Hop(r, l, f).text = MeantHop(r, l, g).text
    BY <2>5, <2>7, HopSame, Zenon
  <2> QED
    BY <1>4, <2>6, <2>8, Zenon DEF SameText
<1> QED
  BY <1>5, <1>6

(* s stands in r after the first l octets. *)
StandsAt(r, l, s) ==
    /\ l + Len(s) <= Len(r)
    /\ \A i \in 1 .. Len(s) : Octet(r, l + i - 1) = s[i]

(* Where a sequence stands its parts stand one after the other.            *)
LEMMA HoldsParts ==
    ASSUME NEW r \in Seq(Octets), NEW l \in Nat, NEW a \in Seq(Octets), NEW b \in Seq(Octets),
           NEW s, s = a \o b, StandsAt(r, l, s)
    PROVE  StandsAt(r, l, a) /\ StandsAt(r, l + Len(a), b)
<1>1. /\ Len(a) \in Nat /\ Len(b) \in Nat /\ Len(r) \in Nat
      /\ Len(s) = Len(a) + Len(b)
      /\ \A i \in 1 .. Len(a) + Len(b) : s[i] = IF i <= Len(a) THEN a[i] ELSE b[i - Len(a)]
  BY ConcatProperties
<1>2. /\ l + Len(s) <= Len(r)
      /\ \A i \in 1 .. Len(s) : Octet(r, l + i - 1) = s[i]
  BY DEF StandsAt
<1> DEFINE O(j) == Octet(r, j)
<1>3. \A i \in 1 .. Len(s) : O(l + i - 1) = s[i]
  BY <1>2
<1> HIDE DEF O
<1>4. ASSUME NEW i \in 1 .. Len(a) PROVE O(l + i - 1) = a[i]
  <2>1. i \in 1 .. Len(s) /\ i \in 1 .. Len(a) + Len(b) /\ i <= Len(a)
    BY <1>1
  <2> QED
    BY <1>1, <1>3, <2>1
<1>5. ASSUME NEW i \in 1 .. Len(b) PROVE O(l + Len(a) + i - 1) = b[i]
  <2>1. PICK j : j = Len(a) + i
    OBVIOUS
  <2>2. /\ j \in 1 .. Len(s) /\ j \in 1 .. Len(a) + Len(b) /\ ~ (j <= Len(a)) /\ j - Len(a) = i
        /\ l + j - 1 = l + Len(a) + i - 1
    BY <1>1, <2>1
  <2>3. s[j] = b[i]
    BY <1>1, <2>2
  <2>4. O(l + j - 1) = s[j]
    BY <1>3, <2>2
  <2> QED
    BY <2>2, <2>3, <2>4
<1>6. l + Len(a) <= Len(r) /\ l + Len(a) + Len(b) <= Len(r)
  BY <1>1, <1>2
<1> QED
  BY <1>4, <1>5, <1>6 DEF StandsAt, O

(* Pairs of octets, and one alone *)
LEMMA FewOctets ==
    \A a, b \in Octets :
        /\ <<a>> \in Seq(Octets) /\ Len(<<a>>) = 1 /\ (<<a>>)[1] = a
        /\ <<a, b>> \in Seq(Octets) /\ Len(<<a, b>>) = 2 /\ (<<a, b>>)[1] = a /\ (<<a, b>>)[2] = b
  OBVIOUS

(* The label of a name as it is sent *)
SentAs(w) == <<Len(w)>> \o w
(* A label is sent as its length and its octets.                           *)
LEMMA SentLabel ==
    \A w \in Seq(Octets) : Len(w) \in 1 .. 63 =>
        SentAs(w) \in Seq(Octets) /\ Len(SentAs(w)) = 1 + Len(w) /\ SentAs(w)[1] = Len(w)
<1> SUFFICES ASSUME NEW w \in Seq(Octets), Len(w) \in 1 .. 63
             PROVE  SentAs(w) \in Seq(Octets) /\ Len(SentAs(w)) = 1 + Len(w) /\ SentAs(w)[1] = Len(w)
  OBVIOUS
<1>1. Len(w) \in Octets
  BY DEF Octets
<1>2. PICK a : a = <<Len(w)>>
  OBVIOUS
<1>3. a \in Seq(Octets) /\ Len(a) = 1 /\ a[1] = Len(w)
  BY <1>1, <1>2, FewOctets
<1>4. PICK s : s = a \o w
  OBVIOUS
<1>5. s \in Seq(Octets) /\ Len(s) = 1 + Len(w) /\ s[1] = Len(w)
  <2>1. /\ s \in Seq(Octets) /\ Len(s) = Len(a) + Len(w)
        /\ \A i \in 1 .. Len(a) + Len(w) : s[i] = IF i <= Len(a) THEN a[i] ELSE w[i - Len(a)]
    BY <1>3, <1>4, ConcatProperties
  <2> QED
    BY <1>3, <2>1
<1> QED
  BY <1>2, <1>4, <1>5 DEF SentAs

(* The first byte of a pointer is 192 or more.                             *)
LEMMA PointerBytes ==
    \A p \in PointedTo :
        192 + p \div 256 \in Octets /\ p % 256 \in Octets /\ 192 + p \div 256 >= 192
<1> TAKE p \in PointedTo
<1>0. p \in Int /\ 0 <= p /\ p <= 16383
  BY DEF PointedTo
<1>1. PICK a : a = p \div 256
  OBVIOUS
<1>2. a \in 0 .. 63
  <2>1. a \in Int
    BY <1>0, <1>1
  <2>2. 256 * a <= p /\ p < 256 * a + 256
    BY <1>0, <1>1
  <2> QED
    BY <1>0, <2>1, <2>2
<1>3. 192 + a \in Octets /\ 192 + a >= 192
  BY <1>2 DEF Octets
<1>4. p % 256 \in Octets
  BY DEF Octets, PointedTo
<1> QED
  BY <1>1, <1>3, <1>4, Zenon

(* What ends a name: a zero, or a pointer *)
Ending(p) == IF p = NoPointer THEN <<0>> ELSE <<192 + p \div 256, p % 256>>
(* A name ends in a zero byte or in a pointer.                             *)
LEMMA EndingIs ==
    \A p \in {NoPointer} \cup PointedTo :
        /\ Ending(p) \in Seq(Octets)
        /\ p = NoPointer => Len(Ending(p)) = 1 /\ Ending(p)[1] = 0
        /\ p # NoPointer => Len(Ending(p)) = 2 /\ Ending(p)[1] >= 192
<1> TAKE p \in {NoPointer} \cup PointedTo
<1>1. CASE p = NoPointer
  <2>1. 0 \in Octets
    BY DEF Octets
  <2>2. Ending(p) = <<0>>
    BY <1>1 DEF Ending
  <2> QED
    BY <1>1, <2>1, <2>2, FewOctets
<1>2. CASE p # NoPointer
  <2>1. p \in PointedTo
    BY <1>2
  <2>2. PICK a : a = 192 + p \div 256
    OBVIOUS
  <2>3. PICK b : b = p % 256
    OBVIOUS
  <2>4. a \in Octets /\ b \in Octets /\ a >= 192
    BY <2>1, <2>2, <2>3, PointerBytes, Zenon
  <2>5. Ending(p) = <<a, b>>
    BY <1>2, <2>2, <2>3, Zenon DEF Ending
  <2>6. <<a, b>> \in Seq(Octets) /\ Len(<<a, b>>) = 2 /\ (<<a, b>>)[1] = a
    BY <2>4, FewOctets, Zenon
  <2>7. Ending(p) \in Seq(Octets) /\ Len(Ending(p)) = 2 /\ Ending(p)[1] >= 192
    BY <2>4, <2>5, <2>6, Zenon
  <2> QED
    BY <1>2, <2>7, Zenon
<1> QED
  BY <1>1, <1>2

(* A name as it is sent: its labels one after the other, and the ending *)
Labels(ws) == FlattenSeq([k \in 1 .. Len(ws) |-> SentAs(ws[k])])

(* A name is its labels and its ending.                                    *)
LEMMA OwnerIs ==
    \A n \in OwnerNames : Owner(n) = Labels(n.labels) \o Ending(n.pointer)
  BY DEF Owner, Labels, SentAs, Ending

(* The labels of a name are octets.                                        *)
LEMMA LabelSequences ==
    ASSUME NEW ws \in Seq(OwnerLabels), NEW q, q = [k \in 1 .. Len(ws) |-> SentAs(ws[k])]
    PROVE  q \in Seq(Seq(Octets)) /\ Len(q) = Len(ws)
<1>1. ASSUME NEW i \in 1 .. Len(ws)
      PROVE  SentAs(ws[i]) \in Seq(Octets)
  <2>1. PICK w : w = ws[i] /\ w \in OwnerLabels
    BY ElementOfSeq
  <2>2. w \in Seq(Octets) /\ Len(w) \in 1 .. 63
    BY <2>1 DEF OwnerLabels
  <2>3. SentAs(w) \in Seq(Octets)
    BY <2>2, SentLabel, Zenon
  <2> QED
    BY <2>1, <2>3
<1>2. PICK n, A : n = Len(ws) /\ n \in Nat /\ A = Seq(Octets)
  OBVIOUS
<1>3. q \in [1 .. n -> A]
  BY <1>1, <1>2
<1>4. q \in Seq(A) /\ Len(q) = n
  BY <1>2, <1>3
<1> QED
  BY <1>2, <1>4

(* A name may have no labels.                                              *)
LEMMA LabelsEmpty == Labels(<<>>) = <<>>
<1>1. [k \in 1 .. Len(<<>>) |-> SentAs((<<>>)[k])] = <<>>
  OBVIOUS
<1> QED
  BY <1>1, FlattenEmpty DEF Labels

(* Labels are sent as octets.                                              *)
LEMMA LabelsType ==
    ASSUME NEW ws \in Seq(OwnerLabels)
    PROVE  Labels(ws) \in Seq(Octets)
<1>1. PICK q : q = [k \in 1 .. Len(ws) |-> SentAs(ws[k])]
  OBVIOUS
<1>2. q \in Seq(Seq(Octets))
  BY <1>1, LabelSequences
<1>3. FlattenSeq(q) \in Seq(Octets)
  BY <1>2, FlattenType
<1> QED
  BY <1>1, <1>3 DEF Labels

(* The first label of a name and the ones after it.                        *)
LEMMA LabelsFirst ==
    ASSUME NEW ws \in Seq(OwnerLabels), ws # <<>>
    PROVE  /\ Head(ws) \in OwnerLabels /\ Tail(ws) \in Seq(OwnerLabels)
           /\ Labels(ws) = SentAs(Head(ws)) \o Labels(Tail(ws))
<1>1. PICK h, t : h = Head(ws) /\ t = Tail(ws)
  OBVIOUS
<1>2. /\ h \in OwnerLabels /\ h = ws[1] /\ t \in Seq(OwnerLabels) /\ Len(ws) = Len(t) + 1 /\ Len(t) \in Nat
      /\ \A i \in 1 .. Len(t) : t[i] = ws[i + 1]
  BY <1>1, HeadTailProperties
<1>3. PICK q, u : /\ q = [k \in 1 .. Len(ws) |-> SentAs(ws[k])]
                  /\ u = [k \in 1 .. Len(t) |-> SentAs(t[k])]
  OBVIOUS
<1>4. q \in Seq(Seq(Octets)) /\ Len(q) = Len(ws)
  BY <1>3, LabelSequences
<1>5. u \in Seq(Seq(Octets)) /\ Len(u) = Len(t)
  BY <1>2, <1>3, LabelSequences
<1>6. Len(q) = Len(u) + 1
  BY <1>2, <1>4, <1>5
<1>7. \A i \in 1 .. Len(u) : u[i] = q[i + 1]
  <2> TAKE i \in 1 .. Len(u)
  <2>1. i \in 1 .. Len(t) /\ i + 1 \in 1 .. Len(ws)
    BY <1>2, <1>5
  <2> QED
    BY <1>2, <1>3, <2>1
<1>8. q[1] = SentAs(h)
  BY <1>2, <1>3
<1>9. FlattenSeq(q) = q[1] \o FlattenSeq(u)
  BY <1>4, <1>5, <1>6, <1>7, FlattenFirst
<1>10. Labels(ws) = SentAs(h) \o Labels(t)
  BY <1>3, <1>8, <1>9 DEF Labels
<1> QED
  BY <1>1, <1>2, <1>10

(* A name is sent as octets.                                               *)
LEMMA OwnerType ==
    \A n \in OwnerNames :
        /\ n.labels \in Seq(OwnerLabels) /\ n.pointer \in {NoPointer} \cup PointedTo
        /\ Owner(n) \in Seq(Octets)
<1> TAKE n \in OwnerNames
<1>1. n.labels \in Seq(OwnerLabels) /\ n.pointer \in {NoPointer} \cup PointedTo
  BY DEF OwnerNames
<1>2. PICK a, b : a = Labels(n.labels) /\ b = Ending(n.pointer)
  OBVIOUS
<1>3. a \in Seq(Octets) /\ b \in Seq(Octets)
  BY <1>1, <1>2, LabelsType, EndingIs, Zenon
<1>4. a \o b \in Seq(Octets)
  BY <1>3, ConcatProperties
<1> QED
  BY <1>1, <1>2, <1>4, OwnerIs

(* A name without labels, and one with *)
LEMMA OwnerEnds ==
    \A n \in OwnerNames : n.labels = <<>> => Owner(n) = Ending(n.pointer)
<1> TAKE n \in OwnerNames
<1>1. PICK b : b = Ending(n.pointer) /\ b \in Seq(Octets)
  BY OwnerType, EndingIs
<1>2. <<>> \o b = b
  BY <1>1
<1> QED
  BY <1>1, <1>2, OwnerIs, LabelsEmpty

Shorter(n) == [n EXCEPT !.labels = Tail(@)]
(* A name is its first label and a shorter name.                           *)
LEMMA OwnerFirst ==
    \A n \in OwnerNames : n.labels # <<>> =>
        /\ Shorter(n) \in OwnerNames /\ Shorter(n).pointer = n.pointer
        /\ Head(n.labels) \in Seq(Octets) /\ Len(Head(n.labels)) \in 1 .. 63
        /\ Owner(n) = SentAs(Head(n.labels)) \o Owner(Shorter(n))
<1> TAKE n \in OwnerNames
<1> SUFFICES ASSUME n.labels # <<>>
             PROVE  /\ Shorter(n) \in OwnerNames /\ Shorter(n).pointer = n.pointer
                    /\ Head(n.labels) \in Seq(Octets) /\ Len(Head(n.labels)) \in 1 .. 63
                    /\ Owner(n) = SentAs(Head(n.labels)) \o Owner(Shorter(n))
  OBVIOUS
<1>1. PICK ws, h, t, p : ws = n.labels /\ h = Head(ws) /\ t = Tail(ws) /\ p = n.pointer
  OBVIOUS
<1>2. ws \in Seq(OwnerLabels) /\ ws # <<>> /\ p \in {NoPointer} \cup PointedTo
  BY <1>1, OwnerType, Zenon
<1>3. h \in OwnerLabels /\ t \in Seq(OwnerLabels) /\ Labels(ws) = SentAs(h) \o Labels(t)
  BY <1>1, <1>2, LabelsFirst, Zenon
<1>4. h \in Seq(Octets) /\ Len(h) \in 1 .. 63
  BY <1>3 DEF OwnerLabels
<1>5. /\ Shorter(n) \in OwnerNames /\ Shorter(n).labels = t /\ Shorter(n).pointer = p
  <2>1. Shorter(n) = [n EXCEPT !.labels = t]
    BY <1>1 DEF Shorter
  <2>2. PICK L, P : L = Seq(OwnerLabels) /\ P = {NoPointer} \cup PointedTo
    OBVIOUS
  <2>3. n \in [labels : L, pointer : P] /\ t \in L
    BY <1>3, <2>2 DEF OwnerNames
  <2>4. /\ [n EXCEPT !.labels = t] \in [labels : L, pointer : P]
        /\ [n EXCEPT !.labels = t].labels = t /\ [n EXCEPT !.labels = t].pointer = n.pointer
    BY <2>3
  <2> QED
    BY <1>1, <2>1, <2>2, <2>4, Zenon DEF OwnerNames
<1>6. PICK a, b, c : a = SentAs(h) /\ b = Labels(t) /\ c = Ending(p)
  OBVIOUS
<1>7. a \in Seq(Octets) /\ b \in Seq(Octets) /\ c \in Seq(Octets)
  BY <1>2, <1>3, <1>4, <1>6, SentLabel, LabelsType, EndingIs, Zenon
<1>8. (a \o b) \o c = a \o (b \o c)
  BY <1>7, ConcatAssociative
<1>9. Owner(n) = (a \o b) \o c
  BY <1>1, <1>3, <1>6, OwnerIs, Zenon
<1>10. Owner(Shorter(n)) = b \o c
  BY <1>5, <1>6, OwnerIs, Zenon
<1>11. Owner(n) = a \o Owner(Shorter(n))
  BY <1>8, <1>9, <1>10, Zenon
<1> QED
  BY <1>1, <1>4, <1>5, <1>6, <1>11, Zenon

(* How far `location' gets over an owner name: to its end, or onto the     *)
(* zero that ends it                                                       *)
Over(n) == Len(Owner(n)) - (IF n.pointer = NoPointer THEN 1 ELSE 0)
LeftAt(r, f) ==
    \A n \in OwnerNames, l \in Nat :
        StandsAt(r, l, Owner(n)) /\ f[l].end = "ok" => f[l].location = l + Over(n)

(* What stands at the beginning of a name *)
LEMMA HoldsFirst ==
    ASSUME NEW r \in Seq(Octets), NEW l \in Nat, NEW s \in Seq(Octets), StandsAt(r, l, s), Len(s) >= 1
    PROVE  Octet(r, l) = s[1] /\ Inside(r, l) /\ l + Len(s) <= Len(r)
<1>1. Len(s) \in Nat /\ Len(r) \in Nat
  OBVIOUS
<1>2. 1 \in 1 .. Len(s) /\ l + 1 - 1 = l
  BY <1>1
<1>3. Octet(r, l + 1 - 1) = s[1]
  BY <1>2 DEF StandsAt
<1>4. l + Len(s) <= Len(r)
  BY DEF StandsAt
<1>5. l <= Len(r)
  BY <1>1, <1>4
<1> QED
  BY <1>2, <1>3, <1>4, <1>5 DEF Inside

(* One hop leaves the parser behind the name, or on its zero byte, if the  *)
(* hops after it do.                                                       *)
LEMMA HopLeaves ==
    ASSUME NEW r \in Seq(Octets), NEW f \in [Nat -> NameRead],
           NEW n \in OwnerNames, NEW l \in Nat, StandsAt(r, l, Owner(n))
    PROVE  LeftAt(r, f) /\ Hop(r, l, f).end = "ok" => Hop(r, l, f).location = l + Over(n)
<1>0. /\ n.labels \in Seq(OwnerLabels) /\ n.pointer \in {NoPointer} \cup PointedTo
      /\ Owner(n) \in Seq(Octets)
  BY OwnerType
<1>1. CASE n.labels = <<>>
  <2>1. PICK s : s = Owner(n) /\ s = Ending(n.pointer) /\ s \in Seq(Octets)
    BY <1>0, <1>1, OwnerEnds
  <2>2. CASE n.pointer = NoPointer
    <3>1. Len(s) = 1 /\ s[1] = 0
      BY <1>0, <2>1, <2>2, EndingIs, Zenon
    <3>2. Over(n) = 0
      BY <2>1, <2>2, <3>1 DEF Over
    <3>3. Len(s) >= 1 /\ l + 0 = l
      BY <3>1
    <3>4. Octet(r, l) = 0 /\ Inside(r, l)
      BY <2>1, <3>1, <3>3, HoldsFirst, Zenon
    <3>5. Hop(r, l, f).location = l
      BY <3>4, HopFields, Zenon
    <3> QED
      BY <3>2, <3>3, <3>5, Zenon
  <2>3. CASE n.pointer # NoPointer
    <3>1. Len(s) = 2 /\ s[1] >= 192
      BY <1>0, <2>1, <2>3, EndingIs, Zenon
    <3>2. Over(n) = 2
      BY <2>1, <2>3, <3>1 DEF Over
    <3>3. Len(s) >= 1
      BY <3>1
    <3>4. Octet(r, l) >= 192 /\ Inside(r, l)
      BY <2>1, <3>1, <3>3, HoldsFirst, Zenon
    <3>5. Hop(r, l, f).location = l + 2
      BY <3>4, HopFields, Zenon
    <3> QED
      BY <3>2, <3>5, Zenon
  <2> QED
    BY <2>2, <2>3, Zenon
<1>2. CASE n.labels # <<>>
  <2>1. PICK h, m : h = Head(n.labels) /\ m = Shorter(n)
    OBVIOUS
  <2>2. /\ m \in OwnerNames /\ m.pointer = n.pointer
        /\ h \in Seq(Octets) /\ Len(h) \in 1 .. 63
        /\ Owner(n) = SentAs(h) \o Owner(m)
    BY <1>2, <2>1, OwnerFirst, Zenon
  <2>3. PICK a, b : a = SentAs(h) /\ b = Owner(m)
    OBVIOUS
  <2>4. a \in Seq(Octets) /\ Len(a) = 1 + Len(h) /\ a[1] = Len(h) /\ b \in Seq(Octets)
    BY <2>2, <2>3, SentLabel, OwnerType, Zenon
  <2>5. Owner(n) = a \o b
    BY <2>2, <2>3, Zenon
  <2>6. StandsAt(r, l, a) /\ StandsAt(r, l + Len(a), b)
    BY <2>4, <2>5, HoldsParts, Zenon
  <2>7. Len(h) # 0 /\ Len(h) < 192 /\ Len(a) >= 1 /\ l + Len(a) = l + 1 + Len(h)
    <3>1. PICK x, y : x = Len(h) /\ y = Len(a)
      OBVIOUS
    <3>2. x \in 1 .. 63 /\ y = 1 + x
      BY <2>2, <2>4, <3>1, Zenon
    <3>3. x # 0 /\ x < 192 /\ y >= 1 /\ l + y = l + 1 + x
      BY <3>2
    <3> QED
      BY <3>1, <3>3, Zenon
  <2>8. Octet(r, l) = Len(h) /\ Inside(r, l)
    BY <2>4, <2>6, <2>7, HoldsFirst, Zenon
  <2>9. Hop(r, l, f).end = "ok" =>
           /\ Hop(r, l, f).location = f[l + 1 + Len(h)].location
           /\ f[l + 1 + Len(h)].end = "ok"
    <3>1. Octet(r, l) # 0 /\ Octet(r, l) < 192
      BY <2>7, <2>8, Zenon
    <3>2. Hop(r, l, f).end = "ok" =>
             /\ Hop(r, l, f).location = f[l + 1 + Octet(r, l)].location
             /\ f[l + 1 + Octet(r, l)].end = "ok"
      BY <2>8, <3>1, HopFields, Zenon
    <3> QED
      BY <2>8, <3>2, Zenon
  <2>10. PICK j : j = l + 1 + Len(h)
    OBVIOUS
  <2>11. j \in Nat
    BY <2>2, <2>10
  <2>12. StandsAt(r, j, Owner(m))
    BY <2>3, <2>6, <2>7, <2>10, Zenon
  <2>13. LeftAt(r, f) /\ f[j].end = "ok" => f[j].location = j + Over(m)
    BY <2>2, <2>11, <2>12, Zenon DEF LeftAt
  <2>14. j + Over(m) = l + Over(n)
    <3>1. Len(Owner(n)) = Len(a) + Len(b) /\ Len(a) \in Nat /\ Len(b) \in Nat
      <4>1. PICK s : s = a \o b
        OBVIOUS
      <4>2. a \in Seq(Octets) /\ b \in Seq(Octets)
        BY <2>4, Zenon
      <4>3. Len(s) = Len(a) + Len(b) /\ Len(a) \in Nat /\ Len(b) \in Nat
        BY <4>1, <4>2, ConcatProperties
      <4> QED
        BY <2>5, <4>1, <4>3, Zenon
    <3>2. PICK x : x = IF n.pointer = NoPointer THEN 1 ELSE 0
      OBVIOUS
    <3>3. x \in Nat /\ Over(n) = Len(Owner(n)) - x /\ Over(m) = Len(b) - x
      BY <2>2, <2>3, <3>2 DEF Over
    <3> QED
      BY <2>2, <2>4, <2>10, <3>1, <3>3
  <2> QED
    BY <2>9, <2>10, <2>13, <2>14, Zenon
<1> QED
  BY <1>1, <1>2, Zenon

(* By induction on the hops, so does recParse().                           *)
LEMMA WalkLeaves ==
    ASSUME NEW r \in Seq(Octets)
    PROVE  \A k \in 0 .. MaxHops : LeftAt(r, Walk(r)[k])
<1>0. MaxHops \in Nat
  BY HopsAssumption
<1> DEFINE bad == {k \in 0 .. MaxHops : ~ LeftAt(r, Walk(r)[k])}
<1> SUFFICES ASSUME bad # {} PROVE FALSE
  OBVIOUS
<1>1. bad \in SUBSET Nat
  BY <1>0
<1> HIDE DEF bad
<1>2. PICK m \in bad : \A n \in bad : m <= n
  BY <1>1, Least
<1>3. m \in 0 .. MaxHops /\ ~ LeftAt(r, Walk(r)[m])
  BY <1>2 DEF bad
<1>4. PICK n \in OwnerNames, l \in Nat :
          /\ StandsAt(r, l, Owner(n)) /\ Walk(r)[m][l].end = "ok"
          /\ Walk(r)[m][l].location # l + Over(n)
  BY <1>3 DEF LeftAt
<1>5. CASE m = 0
  <2>1. Walk(r)[m][l] = Bad("loop")
    BY <1>5, WalkIs, Zenon
  <2>2. Walk(r)[m][l].end = "loop"
    BY <2>1, ReadEmpty, Zenon
  <2> QED
    BY <1>4, <2>2
<1>6. CASE m # 0
  <2>1. m \in 1 .. MaxHops /\ m - 1 \in 0 .. MaxHops /\ ~ (m <= m - 1)
    BY <1>0, <1>3, <1>6
  <2>2. m - 1 \notin bad
    BY <1>2, <2>1, Zenon
  <2>3. LeftAt(r, Walk(r)[m - 1])
    BY <2>1, <2>2, Zenon DEF bad
  <2>4. PICK f : f = Walk(r)[m - 1]
    OBVIOUS
  <2>5. f \in [Nat -> NameRead]
    BY <2>1, <2>4, WalkIs, Zenon
  <2>6. Walk(r)[m][l] = Hop(r, l, f)
    BY <2>1, <2>4, WalkIs, Zenon
  <2>7. LeftAt(r, f) /\ Hop(r, l, f).end = "ok" => Hop(r, l, f).location = l + Over(n)
    BY <1>4, <2>5, HopLeaves, Zenon
  <2> QED
    BY <1>4, <2>3, <2>4, <2>6, <2>7, Zenon
<1> QED
  BY <1>5, <1>6

(* recParse(): where it leaves `location', and what it reads *)
LEMMA ParsedName ==
    ASSUME NEW r \in Seq(Octets), NEW l \in Nat
    PROVE  /\ recParse(r, l) \in NameRead
           /\ recParse(r, l).end = "ok" /\ Near(MeantWalk(r)[MaxHops][l])
                 => recParse(r, l).text = MeantWalk(r)[MaxHops][l].text
           /\ \A n \in OwnerNames : recParse(r, l).end = "ok" /\ StandsAt(r, l, Owner(n))
                 => recParse(r, l).location = l + Over(n)
<1>1. MaxHops \in 0 .. MaxHops
  BY HopsAssumption
<1>2. Walk(r)[MaxHops] \in [Nat -> NameRead]
  BY <1>1, WalkIs, Zenon
<1>3. recParse(r, l) \in NameRead
  BY <1>2 DEF recParse
<1>4. SameText(r, MaxHops, l)
  BY <1>1, ReadAsMeant, Zenon
<1>5. LeftAt(r, Walk(r)[MaxHops])
  BY <1>1, WalkLeaves, Zenon
<1> QED
  BY <1>3, <1>4, <1>5, Zenon DEF recParse, SameText, LeftAt

(* Where a zero stands, a name ends. *)
LEMMA ZeroEnds ==
    ASSUME NEW r \in Seq(Octets), NEW l \in Nat, Octet(r, l) = 0, recParse(r, l).end = "ok"
    PROVE  recParse(r, l).location = l
<1>0. MaxHops \in Nat
  BY HopsAssumption
<1>1. CASE MaxHops = 0
  <2>1. Walk(r)[MaxHops][l] = Bad("loop")
    BY <1>1, WalkIs, Zenon
  <2>2. recParse(r, l).end = "loop"
    BY <2>1, ReadEmpty, Zenon DEF recParse
  <2> QED
    BY <2>2
<1>2. CASE MaxHops # 0
  <2>1. MaxHops \in 1 .. MaxHops /\ MaxHops - 1 \in 0 .. MaxHops
    BY <1>0, <1>2
  <2>2. PICK f : f = Walk(r)[MaxHops - 1]
    OBVIOUS
  <2>3. f \in [Nat -> NameRead]
    BY <2>1, <2>2, WalkIs, Zenon
  <2>4. recParse(r, l) = Hop(r, l, f)
    BY <2>1, <2>2, WalkIs, Zenon DEF recParse
  <2>5. Inside(r, l) => Hop(r, l, f).location = l
    BY <2>3, HopFields, Zenon
  <2>6. ~ Inside(r, l) => Hop(r, l, f).end # "ok"
    BY <2>3, HopFields, Zenon
  <2> QED
    BY <2>4, <2>5, <2>6, Zenon
<1> QED
  BY <1>1, <1>2

(* Octets joined are octets.                                               *)
LEMMA Joined ==
    \A a, b \in Seq(Octets) : a \o b \in Seq(Octets) /\ Len(a \o b) = Len(a) + Len(b)
<1> TAKE a, b \in Seq(Octets)
<1>1. PICK s : s = a \o b
  OBVIOUS
<1>2. s \in Seq(Octets) /\ Len(s) = Len(a) + Len(b)
  BY <1>1, ConcatProperties
<1> QED
  BY <1>1, <1>2

(* Four octets.                                                            *)
LEMMA FourOctets ==
    \A a, b, c, d \in Octets :
        /\ <<a, b, c, d>> \in Seq(Octets) /\ Len(<<a, b, c, d>>) = 4 /\ (<<a, b, c, d>>)[1] = a
  OBVIOUS

(* The parts of a record, as it is sent *)
LEMMA RecordParts ==
    ASSUME NEW x \in ServerRecords
    PROVE  /\ x.name \in OwnerNames /\ x.type \in Octets
           /\ x.ttl \in Seq(Octets) /\ Len(x.ttl) = 4
           /\ x.rdata \in Seq(Octets) /\ Len(x.rdata) \in Octets
           /\ Owner(x.name) \in Seq(Octets)
           /\ <<0, x.type, 0, 1>> \in Seq(Octets) /\ Len(<<0, x.type, 0, 1>>) = 4
           /\ <<0, Len(x.rdata)>> \in Seq(Octets) /\ Len(<<0, Len(x.rdata)>>) = 2
<1>1. x \in [name : OwnerNames, type : Octets, ttl : Seq(Octets), rdata : Seq(Octets)]
  BY Zenon DEF ServerRecords
<1>2. Len(x.ttl) = 4 /\ Len(x.rdata) \in Octets
  BY Zenon DEF ServerRecords
<1>3. x.name \in OwnerNames /\ x.type \in Octets /\ x.ttl \in Seq(Octets) /\ x.rdata \in Seq(Octets)
  <2>1. PICK T : T = Seq(Octets)
    OBVIOUS
  <2>2. x \in [name : OwnerNames, type : Octets, ttl : T, rdata : T]
    BY <1>1, <2>1, Zenon
  <2>3. x.name \in OwnerNames /\ x.type \in Octets /\ x.ttl \in T /\ x.rdata \in T
    BY <2>2
  <2> QED
    BY <2>1, <2>3, Zenon
<1>4. 0 \in Octets /\ 1 \in Octets
  BY DEF Octets
<1>5. Owner(x.name) \in Seq(Octets)
  BY <1>3, OwnerType, Zenon
<1> QED
  BY <1>2, <1>3, <1>4, <1>5, FourOctets, FewOctets, Zenon

(* How many octets a record is sent as.                                    *)
LEMMA RecordType ==
    \A x \in ServerRecords :
        /\ RecordBytes(x) \in Seq(Octets)
        /\ Len(RecordBytes(x)) = Len(Owner(x.name)) + 10 + Len(x.rdata)
<1> TAKE x \in ServerRecords
<1>1. PICK o, f, t, l, d : /\ o = Owner(x.name) /\ f = <<0, x.type, 0, 1>> /\ t = x.ttl
                           /\ l = <<0, Len(x.rdata)>> /\ d = x.rdata
  OBVIOUS
<1>2. /\ o \in Seq(Octets) /\ f \in Seq(Octets) /\ t \in Seq(Octets) /\ l \in Seq(Octets)
      /\ d \in Seq(Octets) /\ Len(f) = 4 /\ Len(t) = 4 /\ Len(l) = 2
  BY <1>1, RecordParts, Zenon
<1>3. PICK p1, p2, p3, p4 : p1 = o \o f /\ p2 = p1 \o t /\ p3 = p2 \o l /\ p4 = p3 \o d
  OBVIOUS
<1>4. p1 \in Seq(Octets) /\ Len(p1) = Len(o) + Len(f)
  BY <1>2, <1>3, Joined, Zenon
<1>5. p2 \in Seq(Octets) /\ Len(p2) = Len(p1) + Len(t)
  BY <1>2, <1>3, <1>4, Joined, Zenon
<1>6. p3 \in Seq(Octets) /\ Len(p3) = Len(p2) + Len(l)
  BY <1>2, <1>3, <1>5, Joined, Zenon
<1>7. p4 \in Seq(Octets) /\ Len(p4) = Len(p3) + Len(d)
  BY <1>2, <1>3, <1>6, Joined, Zenon
<1>8. p4 = RecordBytes(x)
  BY <1>1, <1>3, Zenon DEF RecordBytes
<1>9. Len(p4) = Len(o) + 10 + Len(d)
  <2>1. Len(o) \in Nat /\ Len(d) \in Nat
    BY <1>2
  <2> QED
    BY <1>2, <1>4, <1>5, <1>6, <1>7, <2>1
<1> QED
  BY <1>1, <1>7, <1>8, <1>9, Zenon

(* What is read where a record stands: a zero before its type, another     *)
(* before the length of its data, and that length, and its data.           *)
LEMMA RecordHolds ==
    ASSUME NEW r \in Seq(Octets), NEW l \in Nat, NEW x \in ServerRecords,
           StandsAt(r, l, RecordBytes(x)), NEW m, m = l + Len(Owner(x.name))
    PROVE  /\ m \in Nat
           /\ StandsAt(r, l, Owner(x.name))
           /\ StandsAt(r, m + 8, <<0, Len(x.rdata)>>)
           /\ StandsAt(r, m + 10, x.rdata)
<1>1. PICK o, f, t, c, d : /\ o = Owner(x.name) /\ f = <<0, x.type, 0, 1>> /\ t = x.ttl
                           /\ c = <<0, Len(x.rdata)>> /\ d = x.rdata
  OBVIOUS
<1>2. /\ o \in Seq(Octets) /\ f \in Seq(Octets) /\ t \in Seq(Octets) /\ c \in Seq(Octets)
      /\ d \in Seq(Octets) /\ Len(f) = 4 /\ Len(t) = 4 /\ Len(c) = 2
  BY <1>1, RecordParts, Zenon
<1>3. PICK p1, p2, p3, p4 : p1 = o \o f /\ p2 = p1 \o t /\ p3 = p2 \o c /\ p4 = p3 \o d
  OBVIOUS
<1>4. p1 \in Seq(Octets) /\ Len(p1) = Len(o) + Len(f)
  BY <1>2, <1>3, Joined, Zenon
<1>5. p2 \in Seq(Octets) /\ Len(p2) = Len(p1) + Len(t)
  BY <1>2, <1>3, <1>4, Joined, Zenon
<1>6. p3 \in Seq(Octets) /\ Len(p3) = Len(p2) + Len(c)
  BY <1>2, <1>3, <1>5, Joined, Zenon
<1>7. p4 = RecordBytes(x)
  BY <1>1, <1>3, Zenon DEF RecordBytes
<1>8. StandsAt(r, l, p4)
  BY <1>7, Zenon
<1>9. StandsAt(r, l, p3) /\ StandsAt(r, l + Len(p3), d)
  BY <1>2, <1>3, <1>6, <1>8, HoldsParts, Zenon
<1>10. StandsAt(r, l, p2) /\ StandsAt(r, l + Len(p2), c)
  BY <1>2, <1>3, <1>5, <1>9, HoldsParts, Zenon
<1>11. StandsAt(r, l, p1)
  BY <1>2, <1>3, <1>4, <1>10, HoldsParts, Zenon
<1>12. StandsAt(r, l, o)
  BY <1>2, <1>3, <1>11, HoldsParts, Zenon
<1>13. m \in Nat /\ l + Len(p2) = m + 8 /\ l + Len(p3) = m + 10
  <2>1. Len(o) \in Nat
    BY <1>2
  <2>2. m = l + Len(o)
    BY <1>1, Zenon
  <2>3. \A u \in Nat : /\ l + u \in Nat /\ l + ((u + 4) + 4) = (l + u) + 8
                       /\ l + (((u + 4) + 4) + 2) = (l + u) + 10
    OBVIOUS
  <2>4. Len(p2) = (Len(o) + 4) + 4 /\ Len(p3) = ((Len(o) + 4) + 4) + 2
    BY <1>2, <1>4, <1>5, <1>6, Zenon
  <2> QED
    BY <2>1, <2>2, <2>3, <2>4, Zenon
<1> QED
  BY <1>1, <1>9, <1>10, <1>12, <1>13, Zenon

(* The least of two numbers *)
LEMMA LesserOf ==
    \A a, b \in Int : a <= b => Min({a, b}) = a
<1> TAKE a, b \in Int
<1> SUFFICES ASSUME a <= b PROVE Min({a, b}) = a
  OBVIOUS
<1>1. PICK c : c = Min({a, b})
  OBVIOUS
<1>2. c \in {a, b} /\ \A y \in {a, b} : c <= y
  <2>1. \E u \in {a, b} : \A y \in {a, b} : u <= y
    <3>1. a \in {a, b} /\ \A y \in {a, b} : a <= y
      OBVIOUS
    <3> QED
      BY <3>1
  <2>2. c = CHOOSE u \in {a, b} : \A y \in {a, b} : u <= y
    BY <1>1 DEF Min
  <2> QED
    BY <2>1, <2>2
<1> QED
  BY <1>1, <1>2

(* What is cut out of a packet *)
LEMMA CutIs ==
    ASSUME NEW r \in Seq(Octets), NEW l \in Nat, NEW d \in Seq(Octets), StandsAt(r, l, d)
    PROVE  SubSeq(r, l + 1, Min({l + Len(d), Len(r)})) = d
<1>1. Len(d) \in Nat /\ Len(r) \in Nat /\ l + Len(d) <= Len(r)
  BY DEF StandsAt
<1>2. l + Len(d) \in Int /\ Len(r) \in Int
  BY <1>1
<1>3. Min({l + Len(d), Len(r)}) = l + Len(d)
  BY <1>1, <1>2, LesserOf, Zenon
<1>4. PICK m, n : m = l + 1 /\ n = l + Len(d)
  OBVIOUS
<1>5. PICK s : s = SubSeq(r, m, n)
  OBVIOUS
<1>6. m \in Int /\ n \in Int /\ \A i \in m .. n : r[i] \in Octets
  <2>1. m \in Int /\ n \in Int /\ m >= 1 /\ n <= Len(r)
    BY <1>1, <1>4
  <2>2. \A i \in m .. n : i \in 1 .. Len(r)
    BY <1>1, <2>1
  <2> QED
    BY <2>1, <2>2
<1>7. /\ s \in Seq(Octets) /\ Len(s) = (IF m <= n THEN n - m + 1 ELSE 0)
      /\ \A i \in 1 .. n - m + 1 : s[i] = r[m + i - 1]
  BY <1>5, <1>6, SubSeqProperties
<1>8. Len(s) = Len(d)
  BY <1>1, <1>4, <1>7
<1>9. \A i \in 1 .. Len(d) : s[i] = d[i]
  <2> TAKE i \in 1 .. Len(d)
  <2>1. PICK j : j = l + i - 1
    OBVIOUS
  <2>2. j \in Nat /\ j < Len(r) /\ j + 1 = m + i - 1 /\ i \in 1 .. n - m + 1
    BY <1>1, <1>4, <2>1
  <2>3. s[i] = r[j + 1]
    BY <1>7, <2>2
  <2>4. Octet(r, j) = d[i]
    BY <2>1 DEF StandsAt
  <2>5. Octet(r, j) = r[j + 1]
    BY <2>2, OctetType
  <2> QED
    BY <2>3, <2>4, <2>5
<1>10. s = d
  BY <1>7, <1>8, <1>9, SeqEqual
<1> QED
  BY <1>3, <1>4, <1>5, <1>10, Zenon

(* Where the fields of a record are, once its name is read.                *)
LEMMA FixedFields ==
    ASSUME NEW r, NEW l
    PROVE  /\ Fixed(r, l).name = recParse(r, l)
           /\ Fixed(r, l).rdlength = atoi16(r, recParse(r, l).location + 8)
           /\ Fixed(r, l).rdata = recParse(r, l).location + 10
  BY DEF Fixed

(* Two octets that stand somewhere *)
LEMMA HoldsTwo ==
    ASSUME NEW r \in Seq(Octets), NEW l \in Nat, NEW a \in Octets, NEW b \in Octets,
           StandsAt(r, l, <<a, b>>)
    PROVE  Octet(r, l) = a /\ Octet(r, l + 1) = b /\ l + 2 <= Len(r)
<1>1. PICK s : s = <<a, b>>
  OBVIOUS
<1>2. Len(s) = 2 /\ s[1] = a /\ s[2] = b
  BY <1>1, FewOctets, Zenon
<1>3. StandsAt(r, l, s)
  BY <1>1, Zenon
<1>4. \A i \in 1 .. 2 : Octet(r, l + i - 1) = s[i]
  BY <1>2, <1>3, Zenon DEF StandsAt
<1>5. Octet(r, l + 1 - 1) = a /\ Octet(r, l + 2 - 1) = b
  BY <1>2, <1>4
<1>6. l + 1 - 1 = l /\ l + 2 - 1 = l + 1
  OBVIOUS
<1>7. l + 2 <= Len(r)
  BY <1>2, <1>3, Zenon DEF StandsAt
<1> QED
  BY <1>5, <1>6, <1>7, Zenon

(* A record whose name ends in a pointer is read as it was sent, ...       *)
LEMMA ReadsRecord ==
    ASSUME NEW r \in Seq(Octets), NEW l \in Nat, NEW x \in ServerRecords,
           StandsAt(r, l, RecordBytes(x)), NEW f, f = Fixed(r, l), f.name.end = "ok",
           x.name.pointer # NoPointer
    PROVE  /\ f.rdlength = Len(x.rdata)
           /\ f.rdata + f.rdlength = l + Len(RecordBytes(x))
           /\ SubSeq(r, f.rdata + 1, Min({f.rdata + f.rdlength, Len(r)})) = x.rdata
<1>1. PICK m, n : m = l + Len(Owner(x.name)) /\ n = Len(x.rdata)
  OBVIOUS
<1>2. /\ m \in Nat /\ StandsAt(r, l, Owner(x.name)) /\ StandsAt(r, m + 8, <<0, n>>)
      /\ StandsAt(r, m + 10, x.rdata)
  BY <1>1, RecordHolds, Zenon
<1>3. /\ x.name \in OwnerNames /\ x.rdata \in Seq(Octets) /\ n \in Octets
      /\ Owner(x.name) \in Seq(Octets)
  BY <1>1, RecordParts, Zenon
<1>4. recParse(r, l).end = "ok"
  BY FixedFields, Zenon
<1>5. recParse(r, l).location = l + Over(x.name)
  BY <1>2, <1>3, <1>4, ParsedName, Zenon
<1>6. l + Over(x.name) = m
  <2>1. Len(Owner(x.name)) \in Nat
    BY <1>3
  <2>2. Over(x.name) = Len(Owner(x.name)) - 0
    BY Zenon DEF Over
  <2> QED
    BY <1>1, <2>1, <2>2
<1>7. f.rdlength = atoi16(r, m + 8) /\ f.rdata = m + 10
  BY <1>5, <1>6, FixedFields, Zenon
<1>8. m + 8 \in Nat /\ m + 10 \in Nat /\ (m + 8) + 1 \in Nat
  BY <1>2
<1>9. atoi16(r, m + 8) = n
  <2>1. 0 \in Octets
    BY DEF Octets
  <2>2. Octet(r, m + 8) = 0 /\ Octet(r, (m + 8) + 1) = n
    BY <1>2, <1>3, <1>8, <2>1, HoldsTwo, Zenon
  <2> QED
    BY <1>8, <2>2, SmallNumber, Zenon
<1>10. SubSeq(r, (m + 10) + 1, Min({(m + 10) + n, Len(r)})) = x.rdata
  BY <1>1, <1>2, <1>3, <1>8, CutIs, Zenon
<1>11. (m + 10) + n = l + Len(RecordBytes(x))
  <2>1. Len(RecordBytes(x)) = Len(Owner(x.name)) + 10 + n
    BY <1>1, RecordType, Zenon
  <2>2. PICK o : o = Len(Owner(x.name)) /\ o \in Nat
    BY <1>3
  <2>3. n \in Nat
    BY <1>3, OctetFact, Zenon
  <2>4. (l + o + 10) + n = l + (o + 10 + n)
    BY <2>2, <2>3
  <2>5. m = l + o
    BY <1>1, <2>2, Zenon
  <2> QED
    BY <2>1, <2>2, <2>4, <2>5, Zenon
<1> QED
  BY <1>1, <1>7, <1>9, <1>10, <1>11, Zenon

(* ... and one whose name ends in a zero, and without data, too early by   *)
(* one: what is taken for the length of its data is not four.              *)
LEMMA ReadsEarly ==
    ASSUME NEW r \in Seq(Octets), NEW l \in Nat, NEW x \in ServerRecords,
           StandsAt(r, l, RecordBytes(x)), NEW f, f = Fixed(r, l), f.name.end = "ok",
           x.name.pointer = NoPointer, x.rdata = <<>>
    PROVE  /\ f.rdlength \in Nat /\ f.rdlength # 4
           /\ f.rdata + 1 = l + Len(RecordBytes(x))
           /\ f.rdata \in Nat
           /\ Octet(r, f.rdata) = 0
<1>1. PICK m, n : m = l + Len(Owner(x.name)) /\ n = Len(x.rdata)
  OBVIOUS
<1>2. m \in Nat /\ StandsAt(r, l, Owner(x.name)) /\ StandsAt(r, m + 8, <<0, n>>)
  BY <1>1, RecordHolds, Zenon
<1>3. x.name \in OwnerNames /\ n = 0 /\ n \in Octets /\ Owner(x.name) \in Seq(Octets)
  <2>1. n = 0
    BY <1>1
  <2> QED
    BY <1>1, <2>1, RecordParts, Zenon
<1>4. recParse(r, l).end = "ok"
  BY FixedFields, Zenon
<1>5. recParse(r, l).location = l + Over(x.name)
  BY <1>2, <1>3, <1>4, ParsedName, Zenon
<1>6. PICK o : o = Len(Owner(x.name)) /\ o \in Nat
  BY <1>3
<1>7. Over(x.name) = o - 1
  BY <1>6, Zenon DEF Over
<1>9. PICK k : k = m + 7
  OBVIOUS
<1>10. /\ k \in Nat /\ k + 1 = m + 8 /\ k + 2 = (m + 8) + 1
       /\ (l + (o - 1)) + 8 = k /\ (l + (o - 1)) + 10 = k + 2
  <2>1. m = l + o
    BY <1>1, <1>6, Zenon
  <2> QED
    BY <1>2, <1>6, <1>9, <2>1
<1>11. f.rdlength = atoi16(r, k) /\ f.rdata = k + 2
  BY <1>5, <1>7, <1>10, FixedFields, Zenon
<1>12. Octet(r, k + 1) = 0 /\ Octet(r, k + 2) = 0
  <2>1. m + 8 \in Nat
    BY <1>2
  <2>2. Octet(r, m + 8) = 0 /\ Octet(r, (m + 8) + 1) = 0
    BY <1>2, <1>3, <2>1, HoldsTwo, Zenon
  <2> QED
    BY <1>10, <2>2, Zenon
<1>13. atoi16(r, k) \in Nat /\ atoi16(r, k) # 4
  BY <1>10, <1>12, NotFour, Zenon
<1>14. (k + 2) + 1 = l + Len(RecordBytes(x))
  <2>1. Len(RecordBytes(x)) = o + 10 + n
    BY <1>1, <1>6, RecordType, Zenon
  <2>2. m = l + o
    BY <1>1, <1>6, Zenon
  <2>3. (l + o + 7 + 2) + 1 = l + (o + 10 + 0)
    BY <1>6
  <2> QED
    BY <1>3, <1>9, <2>1, <2>2, <2>3, Zenon
<1>15. k + 2 \in Nat
  BY <1>10
<1> QED
  BY <1>11, <1>12, <1>13, <1>14, <1>15, Zenon

(* At the end of the packet, where a zero stands, no record is read. *)
LEMMA NothingThere ==
    ASSUME NEW r \in Seq(Octets), NEW l \in Nat, l + 1 >= Len(r), Octet(r, l) = 0
    PROVE  ~ CanRead(r, Fixed(r, l)) /\ ~ CanCut(r, Fixed(r, l))
<1> SUFFICES ASSUME CanRead(r, Fixed(r, l)) PROVE FALSE
  BY DEF CanCut
<1>1. /\ recParse(r, l).end = "ok" /\ Inside(r, Fixed(r, l).rdata - 1)
      /\ Fixed(r, l).rdata = recParse(r, l).location + 10
  BY FixedFields, Zenon DEF CanRead
<1>2. recParse(r, l).location = l
  BY <1>1, ZeroEnds, Zenon
<1>3. Inside(r, (l + 10) - 1)
  BY <1>1, <1>2, Zenon
<1>4. (l + 10) - 1 <= Len(r)
  BY <1>3 DEF Inside
<1>5. Len(r) \in Nat
  OBVIOUS
<1> QED
  BY <1>4, <1>5

(* A prefix, flattened *)
LEMMA FlattenPrefix ==
    ASSUME NEW S, NEW q \in Seq(Seq(S)), NEW f, Flattens(f, q, S),
           NEW k \in 0 .. Len(q), NEW p \in Seq(Seq(S)), Len(p) = k,
           \A i \in 1 .. k : p[i] = q[i]
    PROVE  FlattenSeq(p) = f[k]
<1>0. Len(q) \in Nat /\ k \in Nat
  OBVIOUS
<1> DEFINE g == [i \in 0 .. k |-> f[i]]
<1>1. f \in [0 .. Len(q) -> Seq(S)] /\ f[0] = <<>> /\ \A i \in 1 .. Len(q) : f[i] = f[i - 1] \o q[i]
  BY DEF Flattens
<1>2. g \in [0 .. k -> Seq(S)] /\ g[0] = <<>> /\ g[k] = f[k]
  <2>1. 0 \in 0 .. k /\ k \in 0 .. k
    BY <1>0
  <2>2. \A i \in 0 .. k : i \in 0 .. Len(q)
    BY <1>0
  <2>3. PICK A : A = Seq(S)
    OBVIOUS
  <2>4. \A i \in 0 .. k : f[i] \in A
    BY <1>1, <2>2, <2>3
  <2>5. g \in [0 .. k -> A]
    BY <2>4
  <2>6. g[0] = f[0] /\ g[k] = f[k]
    BY <2>1
  <2> QED
    BY <1>1, <2>3, <2>5, <2>6, Zenon
<1>3. ASSUME NEW i \in 1 .. k PROVE g[i] = g[i - 1] \o p[i]
  <2>1. i \in 1 .. Len(q) /\ i \in 0 .. k /\ i - 1 \in 0 .. k
    BY <1>0
  <2>2. g[i] = f[i] /\ g[i - 1] = f[i - 1] /\ p[i] = q[i]
    BY <2>1
  <2>3. f[i] = f[i - 1] \o q[i]
    BY <1>1, <2>1
  <2> QED
    BY <2>2, <2>3, Zenon
<1> HIDE DEF g
<1>4. Flattens(g, p, S)
  BY <1>2, <1>3 DEF Flattens
<1>5. FlattenSeq(p) = g[Len(p)]
  BY <1>4, FlattenIs
<1> QED
  BY <1>2, <1>5

(* Records are sent as octets.                                             *)
LEMMA RecordSequences ==
    ASSUME NEW s \in Seq(ServerRecords), NEW q, q = [k \in 1 .. Len(s) |-> RecordBytes(s[k])]
    PROVE  q \in Seq(Seq(Octets)) /\ Len(q) = Len(s)
<1>1. ASSUME NEW i \in 1 .. Len(s)
      PROVE  RecordBytes(s[i]) \in Seq(Octets)
  <2>1. PICK w : w = s[i] /\ w \in ServerRecords
    BY ElementOfSeq
  <2>2. RecordBytes(w) \in Seq(Octets)
    BY <2>1, RecordType, Zenon
  <2> QED
    BY <2>1, <2>2
<1>2. PICK n, A : n = Len(s) /\ n \in Nat /\ A = Seq(Octets)
  OBVIOUS
<1>3. q \in [1 .. n -> A]
  BY <1>1, <1>2
<1>4. q \in Seq(A) /\ Len(q) = n
  BY <1>2, <1>3
<1> QED
  BY <1>2, <1>4

(* The first k records of s, and their bytes *)
First(s, k) == AllBytes(SubSeq(s, 1, k))

(* The octets of the first k records are those of a prefix.                *)
LEMMA FirstIs ==
    ASSUME NEW s \in Seq(ServerRecords), NEW q \in Seq(Seq(Octets)), Len(q) = Len(s),
           \A i \in 1 .. Len(s) : q[i] = RecordBytes(s[i]),
           NEW f, Flattens(f, q, Octets)
    PROVE  \A k \in 0 .. Len(s) : First(s, k) = f[k]
<1> TAKE k \in 0 .. Len(s)
<1>1. Flattens(f, q, Octets)
  OBVIOUS
<1>2. PICK t : t = SubSeq(s, 1, k)
  OBVIOUS
<1>3. Len(s) \in Nat /\ k \in Nat
  OBVIOUS
<1>4. t \in Seq(ServerRecords) /\ Len(t) = k /\ \A i \in 1 .. k : t[i] = s[i]
  <2>1. \A i \in 1 .. k : s[i] \in ServerRecords
    BY <1>3
  <2>2. 1 \in Int /\ k \in Int
    BY <1>3
  <2>3. /\ t \in Seq(ServerRecords) /\ Len(t) = (IF 1 <= k THEN k - 1 + 1 ELSE 0)
        /\ \A i \in 1 .. k - 1 + 1 : t[i] = s[1 + i - 1]
    BY <1>2, <2>1, <2>2, SubSeqProperties
  <2> QED
    BY <1>3, <2>3
<1>5. PICK p : p = [i \in 1 .. Len(t) |-> RecordBytes(t[i])]
  OBVIOUS
<1>6. p \in Seq(Seq(Octets)) /\ Len(p) = k
  BY <1>4, <1>5, RecordSequences
<1>7. \A i \in 1 .. k : p[i] = q[i]
  <2> TAKE i \in 1 .. k
  <2>1. i \in 1 .. Len(t) /\ i \in 1 .. Len(s) /\ t[i] = s[i]
    BY <1>3, <1>4
  <2> QED
    BY <1>5, <2>1
<1>8. k \in 0 .. Len(q)
  OBVIOUS
<1>9. FlattenSeq(p) = f[k]
  BY <1>1, <1>6, <1>7, <1>8, FlattenPrefix, Zenon
<1>10. First(s, k) = FlattenSeq(p)
  BY <1>2, <1>5, Zenon DEF First, AllBytes
<1> QED
  BY <1>9, <1>10

(* The records of a packet stand one after the other. *)
LEMMA RecordsStand ==
    ASSUME NEW s \in Seq(ServerRecords), NEW r \in Seq(Octets), NEW l \in Nat,
           StandsAt(r, l, AllBytes(s))
    PROVE  /\ First(s, 0) = <<>> /\ First(s, Len(s)) = AllBytes(s)
           /\ AllBytes(s) \in Seq(Octets)
           /\ \A k \in 1 .. Len(s) :
                 /\ First(s, k - 1) \in Seq(Octets)
                 /\ First(s, k) \in Seq(Octets)
                 /\ Len(First(s, k)) = Len(First(s, k - 1)) + Len(RecordBytes(s[k]))
                 /\ StandsAt(r, l + Len(First(s, k - 1)), RecordBytes(s[k]))
<1>1. PICK q : q = [k \in 1 .. Len(s) |-> RecordBytes(s[k])]
  OBVIOUS
<1>2. q \in Seq(Seq(Octets)) /\ Len(q) = Len(s) /\ Len(s) \in Nat
  BY <1>1, RecordSequences
<1>3. PICK f : Flattens(f, q, Octets)
  BY <1>2, Flattening
<1>4. /\ f \in [0 .. Len(s) -> Seq(Octets)] /\ f[0] = <<>>
      /\ \A i \in 1 .. Len(s) : f[i] = f[i - 1] \o q[i]
  BY <1>2, <1>3 DEF Flattens
<1>5. \A k \in 0 .. Len(s) : First(s, k) = f[k]
  <2>1. \A i \in 1 .. Len(s) : q[i] = RecordBytes(s[i])
    BY <1>1
  <2> QED
    BY <1>2, <1>3, <2>1, FirstIs, Zenon
<1>6. First(s, Len(s)) = AllBytes(s)
  <2>1. SubSeq(s, 1, Len(s)) = s
    BY SubSeqFull
  <2> QED
    BY <2>1, Zenon DEF First
<1>7. StandsAt(r, l, f[Len(s)])
  <2>1. f[Len(s)] = AllBytes(s)
    BY <1>2, <1>5, <1>6
  <2> QED
    BY <2>1
<1>8. ASSUME NEW k \in 1 .. Len(s)
      PROVE  /\ f[k] \in Seq(Octets) /\ f[k - 1] \in Seq(Octets) /\ q[k] \in Seq(Octets)
             /\ q[k] = RecordBytes(s[k]) /\ f[k] = f[k - 1] \o q[k]
             /\ Len(f[k]) = Len(f[k - 1]) + Len(q[k])
             /\ k - 1 \in 0 .. Len(s) /\ k \in 0 .. Len(s)
  <2>1. k - 1 \in 0 .. Len(s) /\ k \in 0 .. Len(s) /\ k \in 1 .. Len(q)
    BY <1>2
  <2>2. PICK a, b, c : a = f[k - 1] /\ b = q[k] /\ c = f[k]
    OBVIOUS
  <2>3. a \in Seq(Octets) /\ c \in Seq(Octets)
    BY <1>4, <2>1, <2>2
  <2>4. b \in Seq(Octets)
    BY <1>2, <2>1, <2>2, ElementOfSeq
  <2>5. c = a \o b
    BY <1>4, <2>2
  <2>6. Len(a \o b) = Len(a) + Len(b)
    BY <2>3, <2>4, Joined, Zenon
  <2>7. q[k] = RecordBytes(s[k])
    BY <1>1
  <2> QED
    BY <2>1, <2>2, <2>3, <2>4, <2>5, <2>6, <2>7, Zenon
<1>9. \A k \in 0 .. Len(s) : StandsAt(r, l, f[k])
  <2> DEFINE bad == {j \in 0 .. Len(s) : ~ StandsAt(r, l, f[Len(s) - j])}
  <2>1. ASSUME bad # {} PROVE FALSE
    <3>1. bad \in SUBSET Nat
      BY <1>2
    <3> HIDE DEF bad
    <3>2. PICK m \in bad : \A n \in bad : m <= n
      BY <2>1, <3>1, Least
    <3>3. m \in 0 .. Len(s) /\ ~ StandsAt(r, l, f[Len(s) - m])
      BY <3>2 DEF bad
    <3>4. m # 0
      <4>1. m = 0 => Len(s) - m = Len(s)
        BY <1>2
      <4> QED
        BY <1>7, <3>3, <4>1
    <3>5. m - 1 \in 0 .. Len(s) /\ ~ (m <= m - 1)
      BY <1>2, <3>3, <3>4
    <3>6. m - 1 \notin bad
      BY <3>2, <3>5, Zenon
    <3>7. StandsAt(r, l, f[Len(s) - (m - 1)])
      BY <3>5, <3>6, Zenon DEF bad
    <3>8. PICK k : k = Len(s) - (m - 1)
      OBVIOUS
    <3>9. k \in 1 .. Len(s) /\ k - 1 = Len(s) - m
      BY <1>2, <3>3, <3>4, <3>8
    <3>10. StandsAt(r, l, f[k])
      BY <3>7, <3>8, Zenon
    <3>11. StandsAt(r, l, f[k - 1])
      BY <1>8, <3>9, <3>10, HoldsParts, Zenon
    <3> QED
      BY <3>3, <3>9, <3>11, Zenon
  <2>2. ASSUME NEW k \in 0 .. Len(s) PROVE StandsAt(r, l, f[k])
    <3>1. PICK j : j = Len(s) - k
      OBVIOUS
    <3>2. j \in 0 .. Len(s) /\ Len(s) - j = k
      BY <1>2, <3>1
    <3>3. j \notin bad
      BY <2>1
    <3>4. StandsAt(r, l, f[Len(s) - j])
      BY <3>2, <3>3
    <3> QED
      BY <3>2, <3>4, Zenon
  <2> QED
    BY <2>2
<1>10. ASSUME NEW k \in 1 .. Len(s)
       PROVE  StandsAt(r, l + Len(f[k - 1]), q[k])
  <2>1. StandsAt(r, l, f[k])
    BY <1>8, <1>9, Zenon
  <2> QED
    BY <1>8, <2>1, HoldsParts, Zenon
<1>11. 0 \in 0 .. Len(s) /\ Len(s) \in 0 .. Len(s)
  BY <1>2
<1>12. AllBytes(s) \in Seq(Octets)
  BY <1>4, <1>5, <1>6, <1>11
<1>13. First(s, 0) = <<>>
  BY <1>4, <1>5, <1>11, Zenon
<1>14. ASSUME NEW k \in 1 .. Len(s)
       PROVE  /\ First(s, k - 1) \in Seq(Octets)
              /\ First(s, k) \in Seq(Octets)
              /\ Len(First(s, k)) = Len(First(s, k - 1)) + Len(RecordBytes(s[k]))
              /\ StandsAt(r, l + Len(First(s, k - 1)), RecordBytes(s[k]))
  <2>1. First(s, k - 1) = f[k - 1] /\ First(s, k) = f[k]
    BY <1>5, <1>8, Zenon
  <2> QED
    BY <1>8, <1>10, <2>1, Zenon
<1> QED
  BY <1>6, <1>12, <1>13, <1>14, Zenon

(* The bytes of the header that parse() looks at.                          *)
LEMMA HeaderIs ==
    \A a, b, c, d, e \in Octets :
        /\ Header(a, b, c, d, e) \in Seq(Octets) /\ Len(Header(a, b, c, d, e)) = 12
        /\ Header(a, b, c, d, e)[4] = b /\ Header(a, b, c, d, e)[8] = c
        /\ Header(a, b, c, d, e)[10] = d /\ Header(a, b, c, d, e)[12] = e
<1> TAKE a, b, c, d, e \in Octets
<1>1. PICK h : h = <<0, 0, a, b, 0, 1, 0, c, 0, d, 0, e>>
  OBVIOUS
<1>2. 0 \in Octets /\ 1 \in Octets
  BY DEF Octets
<1>3. Len(h) = 12 /\ h[4] = b /\ h[8] = c /\ h[10] = d /\ h[12] = e
  BY <1>1
<1>4. h \in Seq(Octets)
  BY <1>1, <1>2
<1>5. h = Header(a, b, c, d, e)
  BY <1>1 DEF Header
<1> QED
  BY <1>3, <1>4, <1>5, Zenon

(* The question is octets.                                                 *)
LEMMA QuestionIs ==
    \A q \in QueryNames :
        /\ Question(q, Len(QNAME(q))) \in Seq(Octets)
        /\ Len(Question(q, Len(QNAME(q)))) \in Nat
<1> TAKE q \in QueryNames
<1>1. PICK w : w = QNAME(q) /\ w \in Seq(Octets)
  BY QueryNamesAssumption
<1>2. PICK b : b = [i \in 1 .. Len(w) |-> IF i <= Len(w) THEN w[i] ELSE 0]
  OBVIOUS
<1>3. b \in Seq(Octets)
  <2>1. \A i \in 1 .. Len(w) : (IF i <= Len(w) THEN w[i] ELSE 0) \in Octets
    BY <1>1, ElementOfSeq
  <2>2. Len(w) \in Nat
    BY <1>1
  <2> QED
    BY <1>2, <2>1, <2>2
<1>4. PICK c : c = <<0, 0, 28, 0, 1>>
  OBVIOUS
<1>5. c \in Seq(Octets)
  <2>1. 0 \in Octets /\ 28 \in Octets /\ 1 \in Octets
    BY DEF Octets
  <2> QED
    BY <1>4, <2>1
<1>6. b \o c \in Seq(Octets)
  BY <1>3, <1>5, Joined, Zenon
<1>7. Question(q, Len(QNAME(q))) = b \o c
  BY <1>1, <1>2, <1>4, Zenon DEF Question
<1>8. Len(b \o c) \in Nat
  <2>1. PICK s : s = b \o c /\ s \in Seq(Octets)
    BY <1>6
  <2>2. Len(s) \in Nat
    BY <2>1
  <2> QED
    BY <2>1, <2>2
<1> QED
  BY <1>6, <1>7, <1>8, Zenon

(* The parts of a reply.                                                   *)
LEMMA ReplyParts ==
    \A m \in ServerReplies :
        /\ m.answers \in Seq(ServerRecords) /\ m.authority \in Seq(ServerRecords)
        /\ m.additional \in Seq(ServerRecords)
        /\ Len(m.answers) \in Octets /\ Len(m.authority) \in Octets /\ Len(m.additional) \in Octets
        /\ m.RCODE \in Octets /\ m.RCODE \in 0 .. 15 /\ 128 + 4 * m.AA \in Octets
<1> TAKE m \in ServerReplies
<1>1. /\ m \in [AA : {0, 1}, RCODE : 0 .. 15, answers : Seq(ServerRecords),
                authority : Seq(ServerRecords), additional : Seq(ServerRecords)]
      /\ Len(m.answers) \in Octets /\ Len(m.authority) \in Octets /\ Len(m.additional) \in Octets
  BY Zenon DEF ServerReplies
<1>2. PICK T : T = Seq(ServerRecords)
  OBVIOUS
<1>3. m \in [AA : {0, 1}, RCODE : 0 .. 15, answers : T, authority : T, additional : T]
  BY <1>1, <1>2, Zenon
<1>4. /\ m.AA \in {0, 1} /\ m.RCODE \in 0 .. 15
      /\ m.answers \in T /\ m.authority \in T /\ m.additional \in T
  BY <1>3
<1>5. 128 + 4 * m.AA \in Octets /\ m.RCODE \in Octets
  BY <1>4 DEF Octets
<1> QED
  BY <1>1, <1>2, <1>4, <1>5, Zenon

(* The additional records are the last ones.                               *)
LEMMA AllRecordsIs ==
    \A m \in ServerReplies :
        /\ AllRecords(m) \in Seq(ServerRecords)
        /\ Len(AllRecords(m)) = Len(m.answers) + Len(m.authority) + Len(m.additional)
        /\ \A i \in 1 .. Len(m.additional) :
              AllRecords(m)[Len(m.answers) + Len(m.authority) + i] = m.additional[i]
<1> TAKE m \in ServerReplies
<1>1. PICK a, b, c : a = m.answers /\ b = m.authority /\ c = m.additional
  OBVIOUS
<1>2. a \in Seq(ServerRecords) /\ b \in Seq(ServerRecords) /\ c \in Seq(ServerRecords)
  BY <1>1, ReplyParts, Zenon
<1>3. PICK d, e : d = a \o b /\ e = d \o c
  OBVIOUS
<1>4. d \in Seq(ServerRecords) /\ Len(d) = Len(a) + Len(b)
  BY <1>2, <1>3, ConcatProperties
<1>5. /\ e \in Seq(ServerRecords) /\ Len(e) = Len(d) + Len(c)
      /\ \A i \in 1 .. Len(d) + Len(c) : e[i] = IF i <= Len(d) THEN d[i] ELSE c[i - Len(d)]
  BY <1>2, <1>3, <1>4, ConcatProperties
<1>6. Len(a) \in Nat /\ Len(b) \in Nat /\ Len(c) \in Nat
  BY <1>2
<1>7. \A i \in 1 .. Len(c) : e[Len(a) + Len(b) + i] = c[i]
  <2> TAKE i \in 1 .. Len(c)
  <2>1. PICK j : j = Len(d) + i
    OBVIOUS
  <2>2. j \in 1 .. Len(d) + Len(c) /\ ~ (j <= Len(d)) /\ j - Len(d) = i
    BY <1>4, <1>6, <2>1
  <2>3. e[j] = c[i]
    BY <1>5, <2>2
  <2> QED
    BY <1>4, <2>1, <2>3
<1>8. e = AllRecords(m)
  BY <1>1, <1>3, Zenon DEF AllRecords
<1>9. Len(e) = Len(a) + Len(b) + Len(c)
  BY <1>4, <1>5
<1> QED
  BY <1>1, <1>5, <1>7, <1>8, <1>9, Zenon

(* A packet stands in itself, from its first byte.                         *)
LEMMA HoldsAll ==
    \A r \in Seq(Octets) : StandsAt(r, 0, r)
<1> TAKE r \in Seq(Octets)
<1>1. Len(r) \in Nat
  OBVIOUS
<1>2. ASSUME NEW i \in 1 .. Len(r) PROVE Octet(r, 0 + i - 1) = r[i]
  <2>1. PICK j : j = 0 + i - 1
    OBVIOUS
  <2>2. j \in Nat /\ j < Len(r) /\ j + 1 = i
    BY <1>1, <2>1
  <2>3. Octet(r, j) = r[j + 1]
    BY <2>2, OctetType
  <2> QED
    BY <2>1, <2>2, <2>3
<1> QED
  BY <1>1, <1>2 DEF StandsAt

(* A reply as bytes: its header, its question and its records *)
LEMMA EncodedIs ==
    ASSUME NEW q \in QueryNames, NEW m \in ServerReplies, NEW e, e = Encoded(q, m),
           NEW start, start = 12 + Len(Question(q, Len(QNAME(q))))
    PROVE  /\ e \in Seq(Octets) /\ start \in Nat
           /\ Octet(e, 3) = m.RCODE /\ Octet(e, 7) = Len(m.answers)
           /\ Octet(e, 9) = Len(m.authority) /\ Octet(e, 11) = Len(m.additional)
           /\ StandsAt(e, start, AllBytes(AllRecords(m)))
           /\ Len(e) = start + Len(AllBytes(AllRecords(m)))
<1>1. PICK h : h = Header(128 + 4 * m.AA, m.RCODE, Len(m.answers), Len(m.authority), Len(m.additional))
  OBVIOUS
<1>2. /\ h \in Seq(Octets) /\ Len(h) = 12 /\ h[4] = m.RCODE /\ h[8] = Len(m.answers)
      /\ h[10] = Len(m.authority) /\ h[12] = Len(m.additional)
  <2>1. /\ 128 + 4 * m.AA \in Octets /\ m.RCODE \in Octets /\ Len(m.answers) \in Octets
        /\ Len(m.authority) \in Octets /\ Len(m.additional) \in Octets
    BY ReplyParts, Zenon
  <2>2. PICK a : a = 128 + 4 * m.AA
    OBVIOUS
  <2>3. PICK c, d, f, g : c = m.RCODE /\ d = Len(m.answers) /\ f = Len(m.authority) /\ g = Len(m.additional)
    OBVIOUS
  <2>4. a \in Octets /\ c \in Octets /\ d \in Octets /\ f \in Octets /\ g \in Octets
    BY <2>1, <2>2, <2>3, Zenon
  <2>5. h = Header(a, c, d, f, g)
    BY <1>1, <2>2, <2>3, Zenon
  <2>6. /\ Header(a, c, d, f, g) \in Seq(Octets) /\ Len(Header(a, c, d, f, g)) = 12
        /\ Header(a, c, d, f, g)[4] = c /\ Header(a, c, d, f, g)[8] = d
        /\ Header(a, c, d, f, g)[10] = f /\ Header(a, c, d, f, g)[12] = g
    BY <2>4, HeaderIs
  <2> QED
    BY <2>3, <2>5, <2>6, Zenon
<1>3. PICK u, b : u = Question(q, Len(QNAME(q))) /\ b = AllBytes(AllRecords(m))
  OBVIOUS
<1>4. u \in Seq(Octets) /\ Len(u) \in Nat
  BY <1>3, QuestionIs, Zenon
<1>5. b \in Seq(Octets)
  <2>1. PICK s : s = AllRecords(m) /\ s \in Seq(ServerRecords)
    BY AllRecordsIs
  <2>2. PICK k : k = [i \in 1 .. Len(s) |-> RecordBytes(s[i])]
    OBVIOUS
  <2>3. k \in Seq(Seq(Octets))
    BY <2>1, <2>2, RecordSequences, Zenon
  <2>4. FlattenSeq(k) \in Seq(Octets)
    BY <2>3, FlattenType
  <2> QED
    BY <1>3, <2>1, <2>2, <2>4, Zenon DEF AllBytes
<1>6. PICK p : p = h \o u
  OBVIOUS
<1>7. p \in Seq(Octets) /\ Len(p) = 12 + Len(u)
  BY <1>2, <1>4, <1>6, Joined, Zenon
<1>8. PICK w : w = p \o b
  OBVIOUS
<1>9. w \in Seq(Octets) /\ Len(w) = Len(p) + Len(b)
  BY <1>5, <1>7, <1>8, Joined, Zenon
<1>10. e = w
  BY <1>1, <1>3, <1>6, <1>8, Zenon DEF Encoded
<1>11. StandsAt(w, 0, w) /\ 0 \in Nat
  BY <1>9, HoldsAll
<1>12. StandsAt(w, 0, p) /\ StandsAt(w, 0 + Len(p), b)
  BY <1>5, <1>7, <1>8, <1>9, <1>11, HoldsParts, Zenon
<1>13. StandsAt(w, 0, h)
  BY <1>2, <1>4, <1>6, <1>9, <1>11, <1>12, HoldsParts, Zenon
<1>14. \A i \in 1 .. 12 : Octet(w, 0 + i - 1) = h[i]
  BY <1>2, <1>13, Zenon DEF StandsAt
<1>15. Octet(w, 3) = h[4] /\ Octet(w, 7) = h[8] /\ Octet(w, 9) = h[10] /\ Octet(w, 11) = h[12]
  <2>1. /\ 4 \in 1 .. 12 /\ 8 \in 1 .. 12 /\ 10 \in 1 .. 12 /\ 12 \in 1 .. 12
        /\ 0 + 4 - 1 = 3 /\ 0 + 8 - 1 = 7 /\ 0 + 10 - 1 = 9 /\ 0 + 12 - 1 = 11
    OBVIOUS
  <2>2. /\ Octet(w, 0 + 4 - 1) = h[4] /\ Octet(w, 0 + 8 - 1) = h[8]
        /\ Octet(w, 0 + 10 - 1) = h[10] /\ Octet(w, 0 + 12 - 1) = h[12]
    BY <1>14, <2>1, Zenon
  <2> QED
    BY <2>1, <2>2, Zenon
<1>16. start = Len(p) /\ start \in Nat /\ 0 + Len(p) = Len(p)
  <2>1. 12 + Len(u) \in Nat /\ 0 + (12 + Len(u)) = 12 + Len(u)
    BY <1>4
  <2> QED
    BY <1>3, <1>7, <2>1, Zenon
<1> QED
  BY <1>2, <1>3, <1>9, <1>10, <1>12, <1>15, <1>16, Zenon

(* The records s stand in the packet e from st on, up to its end. *)
Arrived(e, st, s) ==
    /\ e \in Seq(Octets) /\ st \in Nat /\ s \in Seq(ServerRecords)
    /\ StandsAt(e, st, AllBytes(s))
    /\ Len(e) = st + Len(AllBytes(s))
RecordAt(st, s, k) == st + Len(First(s, k - 1))

(* Where they stand *)
LEMMA Standing ==
    ASSUME NEW e, NEW st, NEW s, Arrived(e, st, s)
    PROVE  /\ Len(s) \in Nat
           /\ RecordAt(st, s, 1) = st
           /\ RecordAt(st, s, Len(s) + 1) = Len(e)
           /\ \A k \in 1 .. Len(s) :
                 /\ s[k] \in ServerRecords
                 /\ RecordAt(st, s, k) \in Nat
                 /\ RecordAt(st, s, k + 1) = RecordAt(st, s, k) + Len(RecordBytes(s[k]))
                 /\ StandsAt(e, RecordAt(st, s, k), RecordBytes(s[k]))
<1>1. /\ e \in Seq(Octets) /\ st \in Nat /\ s \in Seq(ServerRecords)
      /\ StandsAt(e, st, AllBytes(s)) /\ Len(e) = st + Len(AllBytes(s))
  BY DEF Arrived
<1>2. /\ First(s, 0) = <<>> /\ First(s, Len(s)) = AllBytes(s)
      /\ \A k \in 1 .. Len(s) :
            /\ First(s, k - 1) \in Seq(Octets)
            /\ First(s, k) \in Seq(Octets)
            /\ Len(First(s, k)) = Len(First(s, k - 1)) + Len(RecordBytes(s[k]))
            /\ StandsAt(e, st + Len(First(s, k - 1)), RecordBytes(s[k]))
  BY <1>1, RecordsStand, Zenon
<1>3. Len(s) \in Nat
  BY <1>1
<1>4. RecordAt(st, s, 1) = st
  <2>1. 1 - 1 = 0 /\ Len(<<>>) = 0 /\ st + 0 = st
    BY <1>1
  <2> QED
    BY <1>2, <2>1, Zenon DEF RecordAt
<1>5. RecordAt(st, s, Len(s) + 1) = Len(e)
  <2>1. (Len(s) + 1) - 1 = Len(s)
    BY <1>3
  <2> QED
    BY <1>1, <1>2, <2>1, Zenon DEF RecordAt
<1>6. ASSUME NEW k \in 1 .. Len(s)
      PROVE  /\ s[k] \in ServerRecords
             /\ RecordAt(st, s, k) \in Nat
             /\ RecordAt(st, s, k + 1) = RecordAt(st, s, k) + Len(RecordBytes(s[k]))
             /\ StandsAt(e, RecordAt(st, s, k), RecordBytes(s[k]))
  <2>1. s[k] \in ServerRecords
    BY <1>1, ElementOfSeq
  <2>2. PICK a, b : a = First(s, k - 1) /\ b = RecordBytes(s[k])
    OBVIOUS
  <2>3. a \in Seq(Octets) /\ b \in Seq(Octets)
    BY <1>2, <2>1, <2>2, RecordType, Zenon
  <2>4. Len(a) \in Nat /\ Len(b) \in Nat
    BY <2>3
  <2>5. (k + 1) - 1 = k
    BY <1>3
  <2>6. Len(First(s, (k + 1) - 1)) = Len(a) + Len(b)
    BY <1>2, <2>2, <2>5, Zenon
  <2>7. st + (Len(a) + Len(b)) = (st + Len(a)) + Len(b) /\ st + Len(a) \in Nat
    BY <1>1, <2>4
  <2> QED
    BY <1>2, <2>1, <2>2, <2>6, <2>7, Zenon DEF RecordAt
<1> QED
  BY <1>3, <1>4, <1>5, <1>6, Zenon

(* What Fixed() finds are numbers. *)
LEMMA FixedType ==
    ASSUME NEW r \in Seq(Octets), NEW l \in Nat
    PROVE  /\ Fixed(r, l).name \in NameRead /\ Fixed(r, l).name.text \in Seq(Seq(Octets))
           /\ Fixed(r, l).rdlength \in Nat /\ Fixed(r, l).rdata \in Nat
           /\ Fixed(r, l).rdata + Fixed(r, l).rdlength \in Nat
<1>1. PICK n : n = recParse(r, l) /\ n \in NameRead
  BY ParsedName
<1>2. PICK T : T = Seq(Seq(Octets))
  OBVIOUS
<1>3. n.location \in Nat /\ n.text \in T
  <2>1. n \in [text : T, location : Nat, end : {"ok", "overrun", "loop"}]
    BY <1>1, <1>2, Zenon DEF NameRead
  <2> QED
    BY <2>1
<1>4. n.location + 8 \in Nat /\ n.location + 10 \in Nat
  BY <1>3
<1>5. atoi16(r, n.location + 8) \in Nat
  BY <1>4, NumberType, Zenon
<1>6. PICK a, b : a = n.location + 10 /\ b = atoi16(r, n.location + 8)
  OBVIOUS
<1>7. a \in Nat /\ b \in Nat /\ a + b \in Nat
  BY <1>4, <1>5, <1>6
<1> QED
  BY <1>1, <1>2, <1>3, <1>6, <1>7, FixedFields, Zenon

(* Reading the record that stands at k, ...                                *)
AsSent(e, st, s, k, f) ==
    /\ s[k].name.pointer # NoPointer =>
          /\ f.rdlength = Len(s[k].rdata)
          /\ f.rdata + f.rdlength = RecordAt(st, s, k + 1)
          /\ SubSeq(e, f.rdata + 1, Min({f.rdata + f.rdlength, Len(e)})) = s[k].rdata
    /\ s[k].name.pointer = NoPointer /\ s[k].rdata = <<>> /\ k = Len(s) =>
          /\ f.rdlength # 4
          /\ Octet(e, f.rdata + f.rdlength) = 0
          /\ (f.rdata + f.rdlength) + 1 >= Len(e)

(* A record whose name could be read is taken apart as it was sent, if its *)
(* name has a pointer; if not, from one byte too early.                    *)
LEMMA NextRecord ==
    ASSUME NEW e, NEW st, NEW s, Arrived(e, st, s)
    PROVE  \A k \in 1 .. Len(s) :
               Fixed(e, RecordAt(st, s, k)).name.end = "ok"
                   => AsSent(e, st, s, k, Fixed(e, RecordAt(st, s, k)))
<1> TAKE k \in 1 .. Len(s)
<1> SUFFICES ASSUME NEW f, f = Fixed(e, RecordAt(st, s, k)), f.name.end = "ok"
             PROVE  AsSent(e, st, s, k, f)
  OBVIOUS
<1>1. e \in Seq(Octets) /\ s \in Seq(ServerRecords)
  BY Zenon DEF Arrived
<1>2. PICK l, x : l = RecordAt(st, s, k) /\ x = s[k]
  OBVIOUS
<1>3. /\ x \in ServerRecords /\ l \in Nat /\ StandsAt(e, l, RecordBytes(x))
      /\ RecordAt(st, s, k + 1) = l + Len(RecordBytes(x))
  <2>1. \A j \in 1 .. Len(s) :
           /\ s[j] \in ServerRecords
           /\ RecordAt(st, s, j) \in Nat
           /\ RecordAt(st, s, j + 1) = RecordAt(st, s, j) + Len(RecordBytes(s[j]))
           /\ StandsAt(e, RecordAt(st, s, j), RecordBytes(s[j]))
    BY Standing
  <2>2. /\ s[k] \in ServerRecords
        /\ RecordAt(st, s, k) \in Nat
        /\ RecordAt(st, s, k + 1) = RecordAt(st, s, k) + Len(RecordBytes(s[k]))
        /\ StandsAt(e, RecordAt(st, s, k), RecordBytes(s[k]))
    BY <2>1, Zenon
  <2> QED
    BY <1>2, <2>2, Zenon
<1>4. f = Fixed(e, l) /\ f.name.end = "ok"
  BY <1>2, Zenon
<1>5. ASSUME x.name.pointer # NoPointer
      PROVE  /\ f.rdlength = Len(x.rdata)
             /\ f.rdata + f.rdlength = l + Len(RecordBytes(x))
             /\ SubSeq(e, f.rdata + 1, Min({f.rdata + f.rdlength, Len(e)})) = x.rdata
  BY <1>1, <1>3, <1>4, <1>5, ReadsRecord, Zenon
<1>6. ASSUME x.name.pointer = NoPointer, x.rdata = <<>>, k = Len(s)
      PROVE  /\ f.rdlength # 4
             /\ Octet(e, f.rdata + f.rdlength) = 0
             /\ (f.rdata + f.rdlength) + 1 >= Len(e)
  <2>1. /\ f.rdlength \in Nat /\ f.rdlength # 4 /\ f.rdata \in Nat
        /\ f.rdata + 1 = l + Len(RecordBytes(x)) /\ Octet(e, f.rdata) = 0
    BY <1>1, <1>3, <1>4, <1>6, ReadsEarly, Zenon
  <2>2. f.rdata + 1 = Len(e)
    <3>1. RecordAt(st, s, Len(s) + 1) = Len(e)
      BY Standing
    <3>2. RecordAt(st, s, k + 1) = Len(e)
      BY <1>6, <3>1, Zenon
    <3> QED
      BY <1>3, <2>1, <3>2, Zenon
  <2>3. PICK a, b, n : a = f.rdata /\ b = f.rdlength /\ n = Len(e)
    OBVIOUS
  <2>4. a \in Nat /\ b \in Nat /\ n = a + 1
    BY <2>1, <2>2, <2>3
  <2>5. (a + b) + 1 >= n /\ a + b \in Nat /\ (b = 0 => a + b = a) /\ (b # 0 => a + b >= n)
    BY <2>4
  <2>6. Octet(e, a + b) = 0
    <3>1. CASE b = 0
      BY <2>1, <2>3, <2>5, <3>1, Zenon
    <3>2. CASE b # 0
      BY <1>1, <2>3, <2>5, <3>2, OctetType, Zenon
    <3> QED
      BY <3>1, <3>2
  <2> QED
    BY <2>1, <2>3, <2>5, <2>6, Zenon
<1> QED
  BY <1>2, <1>3, <1>5, <1>6, Zenon DEF AsSent

(* ... and after the last.                                                 *)
LEMMA NoMoreRecords ==
    ASSUME NEW e, NEW st, NEW s, Arrived(e, st, s)
    PROVE  ~ CanRead(e, Fixed(e, RecordAt(st, s, Len(s) + 1)))
<1>1. e \in Seq(Octets)
  BY Zenon DEF Arrived
<1>2. PICK l : l = Len(e)
  OBVIOUS
<1>3. l \in Nat /\ l >= Len(e) /\ l + 1 >= Len(e)
  BY <1>1, <1>2
<1>4. Octet(e, l) = 0
  BY <1>1, <1>3, OctetType, Zenon
<1>5. ~ CanRead(e, Fixed(e, l))
  BY <1>1, <1>3, <1>4, NothingThere, Zenon
<1> QED
  BY <1>2, <1>5, Standing, Zenon

(* What one record adds to the list of servers *)
GluePart(x) == IF FourBytes(x) THEN <<x.rdata>> ELSE <<>>

(* The glue of some records, one by one.                                   *)
LEMMA GlueParts ==
    ASSUME NEW s \in Seq(ServerRecords), NEW q, q = [k \in 1 .. Len(s) |-> GluePart(s[k])]
    PROVE  /\ q \in Seq(Seq(Seq(Octets))) /\ Len(q) = Len(s)
           /\ Glue(s) = FlattenSeq(q)
<1>1. PICK T : T = Seq(Octets)
  OBVIOUS
<1>2. ASSUME NEW i \in 1 .. Len(s)
      PROVE  GluePart(s[i]) \in Seq(T)
  <2>1. PICK w : w = s[i] /\ w \in ServerRecords
    BY ElementOfSeq
  <2>2. PICK d : d = w.rdata /\ d \in T
    BY <1>1, <2>1, RecordParts
  <2>3. <<d>> \in Seq(T) /\ <<>> \in Seq(T)
    BY <2>2
  <2> QED
    BY <2>1, <2>2, <2>3, Zenon DEF GluePart
<1>3. PICK n, A : n = Len(s) /\ n \in Nat /\ A = Seq(T)
  OBVIOUS
<1>4. q \in [1 .. n -> A]
  BY <1>2, <1>3
<1>5. q \in Seq(A) /\ Len(q) = n
  BY <1>3, <1>4
<1>6. Glue(s) = FlattenSeq(q)
  BY Zenon DEF Glue, GluePart
<1> QED
  BY <1>1, <1>3, <1>5, <1>6, Zenon

(* The list, one record further *)
LEMMA GlueNext ==
    ASSUME NEW s \in Seq(ServerRecords), NEW k \in 1 .. Len(s)
    PROVE  Glue(SubSeq(s, 1, k)) =
               IF Len(s[k].rdata) = 4 THEN Append(Glue(SubSeq(s, 1, k - 1)), s[k].rdata)
                                      ELSE Glue(SubSeq(s, 1, k - 1))
<1>1. PICK a, b, x : a = SubSeq(s, 1, k - 1) /\ b = SubSeq(s, 1, k) /\ x = s[k]
  OBVIOUS
<1>2. x \in ServerRecords
  BY <1>1, ElementOfSeq
<1>3. a \in Seq(ServerRecords) /\ b = Append(a, x)
  <2>1. Len(s) \in Nat /\ k \in Nat
    OBVIOUS
  <2>2. \A i \in 1 .. k : s[i] \in ServerRecords
    BY <2>1
  <2>3. \A i \in 1 .. k - 1 : s[i] \in ServerRecords
    BY <2>1
  <2>4. 1 \in Int /\ k \in Int /\ k - 1 \in Int
    BY <2>1
  <2>5. /\ a \in Seq(ServerRecords) /\ Len(a) = k - 1
        /\ \A i \in 1 .. k - 1 : a[i] = s[i]
    <3>1. /\ a \in Seq(ServerRecords) /\ Len(a) = (IF 1 <= k - 1 THEN (k - 1) - 1 + 1 ELSE 0)
          /\ \A i \in 1 .. (k - 1) - 1 + 1 : a[i] = s[1 + i - 1]
      BY <1>1, <2>3, <2>4, SubSeqProperties
    <3> QED
      BY <2>1, <3>1
  <2>6. /\ b \in Seq(ServerRecords) /\ Len(b) = k
        /\ \A i \in 1 .. k : b[i] = s[i]
    <3>1. /\ b \in Seq(ServerRecords) /\ Len(b) = (IF 1 <= k THEN k - 1 + 1 ELSE 0)
          /\ \A i \in 1 .. k - 1 + 1 : b[i] = s[1 + i - 1]
      BY <1>1, <2>2, <2>4, SubSeqProperties
    <3> QED
      BY <2>1, <3>1
  <2>7. PICK c : c = Append(a, x)
    OBVIOUS
  <2>8. /\ c \in Seq(ServerRecords) /\ Len(c) = Len(a) + 1
        /\ \A i \in 1 .. Len(a) : c[i] = a[i]
        /\ c[Len(a) + 1] = x
    BY <1>2, <2>5, <2>7, AppendProperties
  <2>9. Len(b) = Len(c)
    BY <2>1, <2>5, <2>6, <2>8
  <2>10. \A i \in 1 .. Len(b) : b[i] = c[i]
    <3> TAKE i \in 1 .. Len(b)
    <3>1. CASE i = k
      <4>1. Len(a) + 1 = i
        BY <2>1, <2>5, <3>1
      <4>2. b[i] = s[k] /\ c[i] = x
        BY <2>6, <2>8, <3>1, <4>1
      <4> QED
        BY <1>1, <4>2, Zenon
    <3>2. CASE i # k
      <4>1. i \in 1 .. k - 1 /\ i \in 1 .. Len(a) /\ i \in 1 .. k
        BY <2>1, <2>5, <2>6, <3>2
      <4> QED
        BY <2>5, <2>6, <2>8, <4>1
    <3> QED
      BY <3>1, <3>2
  <2>11. b = c
    BY <2>6, <2>8, <2>9, <2>10, SeqEqual
  <2> QED
    BY <2>5, <2>7, <2>11, Zenon
<1>4. PICK p : p = [i \in 1 .. Len(a) |-> GluePart(a[i])]
  OBVIOUS
<1>5. PICK r : r = [i \in 1 .. Len(b) |-> GluePart(b[i])]
  OBVIOUS
<1>6. b \in Seq(ServerRecords) /\ Len(b) = Len(a) + 1 /\ b[Len(a) + 1] = x
      /\ \A i \in 1 .. Len(a) : b[i] = a[i]
  BY <1>2, <1>3, AppendProperties
<1>7. /\ p \in Seq(Seq(Seq(Octets))) /\ Len(p) = Len(a) /\ Glue(a) = FlattenSeq(p)
  BY <1>3, <1>4, GlueParts
<1>8. /\ r \in Seq(Seq(Seq(Octets))) /\ Len(r) = Len(b) /\ Glue(b) = FlattenSeq(r)
  BY <1>5, <1>6, GlueParts
<1>9. PICK g : g = GluePart(x)
  OBVIOUS
<1>10. Len(a) \in Nat
  BY <1>3
<1>11. g = r[Len(a) + 1] /\ \A i \in 1 .. Len(a) : p[i] = r[i]
  <2>1. Len(a) + 1 \in 1 .. Len(b) /\ \A i \in 1 .. Len(a) : i \in 1 .. Len(b)
    BY <1>6, <1>10
  <2>2. r[Len(a) + 1] = GluePart(b[Len(a) + 1])
    BY <1>5, <2>1
  <2>3. \A i \in 1 .. Len(a) : r[i] = GluePart(b[i]) /\ p[i] = GluePart(a[i])
    BY <1>4, <1>5, <2>1
  <2>4. ASSUME NEW i \in 1 .. Len(a) PROVE p[i] = r[i]
    BY <1>6, <2>3, Zenon
  <2> QED
    BY <1>6, <1>9, <2>2, <2>4, Zenon
<1>12. PICK T, U : T = Seq(Octets) /\ U = Seq(T)
  OBVIOUS
<1>13. p \in Seq(U) /\ r \in Seq(U) /\ Len(r) = Len(p) + 1
  BY <1>6, <1>7, <1>8, <1>12, Zenon
<1>14. g \in U
  <2>1. Len(p) + 1 \in 1 .. Len(r)
    BY <1>7, <1>10, <1>13
  <2>2. r[Len(p) + 1] \in U
    BY <1>13, <2>1, ElementOfSeq
  <2> QED
    BY <1>7, <1>11, <2>2, Zenon
<1>15. r = Append(p, g)
  <2>1. PICK c : c = Append(p, g)
    OBVIOUS
  <2>2. /\ c \in Seq(U) /\ Len(c) = Len(p) + 1
        /\ \A i \in 1 .. Len(p) : c[i] = p[i]
        /\ c[Len(p) + 1] = g
    BY <1>13, <1>14, <2>1, AppendProperties
  <2>3. \A i \in 1 .. Len(p) + 1 : r[i] = c[i]
    <3> TAKE i \in 1 .. Len(p) + 1
    <3>1. CASE i = Len(p) + 1
      BY <1>7, <1>11, <2>2, <3>1, Zenon
    <3>2. CASE i # Len(p) + 1
      <4>1. i \in 1 .. Len(p) /\ i \in 1 .. Len(a)
        BY <1>7, <1>10, <3>2
      <4> QED
        BY <1>11, <2>2, <4>1, Zenon
    <3> QED
      BY <3>1, <3>2
  <2> QED
    BY <1>13, <2>1, <2>2, <2>3, SeqEqual
<1>16. FlattenSeq(r) = FlattenSeq(p) \o g
  <2>1. FlattenSeq(Append(p, g)) = FlattenSeq(p) \o g
    BY <1>12, <1>13, <1>14, FlattenAppend, Zenon
  <2> QED
    BY <1>15, <2>1, Zenon
<1>17. FlattenSeq(p) \in Seq(T)
  BY <1>12, <1>13, FlattenType, Zenon
<1>18. PICK z : z = FlattenSeq(p) /\ z \in Seq(T)
  BY <1>17
<1>19. PICK d : d = x.rdata /\ d \in T
  BY <1>2, <1>12, RecordParts
<1>20. z \o g = IF Len(d) = 4 THEN Append(z, d) ELSE z
  <2>1. CASE Len(d) = 4
    <3>1. g = <<d>>
      BY <1>9, <1>19, <2>1, Zenon DEF GluePart, FourBytes
    <3>2. z \o <<d>> = Append(z, d)
      BY <1>18, <1>19
    <3> QED
      BY <2>1, <3>1, <3>2, Zenon
  <2>2. CASE Len(d) # 4
    <3>1. g = <<>>
      BY <1>9, <1>19, <2>2, Zenon DEF GluePart, FourBytes
    <3>2. z \o <<>> = z
      BY <1>18
    <3> QED
      BY <2>2, <3>1, <3>2, Zenon
  <2> QED
    BY <2>1, <2>2
<1> QED
  BY <1>1, <1>7, <1>8, <1>16, <1>18, <1>19, <1>20, Zenon

(* No records have no glue.                                                *)
LEMMA GlueEmpty == Glue(<<>>) = <<>>
<1>1. Len(<<>>) = 0
  OBVIOUS
<1>2. [k \in 1 .. Len(<<>>) |-> IF FourBytes((<<>>)[k]) THEN <<(<<>>)[k].rdata>> ELSE <<>>] = <<>>
  BY <1>1
<1> QED
  BY <1>2, FlattenEmpty, Zenon DEF Glue

(* The servers among the first n records of a reply *)
Unserved(m) == Len(m.answers) + Len(m.authority)
GlueTo(m, n) == Glue(SubSeq(m.additional, 1, n - Unserved(m)))

(* Reading one more record adds its address to the glue if the record is an *)
(* additional one of four bytes, and nothing otherwise.                    *)
LEMMA GlueSteps ==
    ASSUME NEW m \in ServerReplies
    PROVE  /\ Unserved(m) \in Nat /\ Len(AllRecords(m)) \in Nat
           /\ GlueTo(m, 0) = <<>>
           /\ GlueTo(m, Len(AllRecords(m))) = Glue(m.additional)
           /\ \A n \in 0 .. Len(AllRecords(m)) - 1 :
                 /\ n < Unserved(m) => GlueTo(m, n + 1) = GlueTo(m, n)
                 /\ ~ (n < Unserved(m)) =>
                       GlueTo(m, n + 1) = IF Len(AllRecords(m)[n + 1].rdata) = 4
                                          THEN Append(GlueTo(m, n), AllRecords(m)[n + 1].rdata)
                                          ELSE GlueTo(m, n)
<1>1. PICK a, b, c : a = m.answers /\ b = m.authority /\ c = m.additional
  OBVIOUS
<1>2. /\ a \in Seq(ServerRecords) /\ b \in Seq(ServerRecords) /\ c \in Seq(ServerRecords)
  BY <1>1, ReplyParts, Zenon
<1>3. Len(a) \in Nat /\ Len(b) \in Nat /\ Len(c) \in Nat
  BY <1>2
<1>4. PICK s, u : s = AllRecords(m) /\ u = Len(a) + Len(b)
  OBVIOUS
<1>5. u \in Nat /\ u = Unserved(m)
  <2>1. u \in Nat
    BY <1>3, <1>4
  <2> QED
    BY <1>1, <1>4, <2>1, Zenon DEF Unserved
<1>6. /\ s \in Seq(ServerRecords) /\ Len(s) = Len(a) + Len(b) + Len(c)
      /\ \A i \in 1 .. Len(c) : s[Len(a) + Len(b) + i] = c[i]
  BY <1>1, <1>4, AllRecordsIs, Zenon
<1>7. Len(s) = u + Len(c) /\ Len(s) \in Nat /\ \A i \in 1 .. Len(c) : s[u + i] = c[i]
  BY <1>3, <1>4, <1>6
<1>8. ASSUME NEW n \in Int, n <= u
      PROVE  GlueTo(m, n) = <<>>
  <2>1. PICK k : k = n - u
    OBVIOUS
  <2>2. k \in Int /\ k < 1 /\ 1 \in Int
    BY <1>5, <1>8, <2>1
  <2>3. SubSeq(c, 1, k) = <<>>
    BY <2>2, SubSeqEmpty
  <2> QED
    BY <1>1, <1>5, <2>1, <2>3, GlueEmpty, Zenon DEF GlueTo
<1>9. GlueTo(m, 0) = <<>>
  <2>1. 0 \in Int /\ 0 <= u
    BY <1>5
  <2> QED
    BY <1>8, <2>1, Zenon
<1>10. GlueTo(m, Len(s)) = Glue(c)
  <2>1. Len(s) - u = Len(c)
    BY <1>3, <1>5, <1>7
  <2>2. SubSeq(c, 1, Len(c)) = c
    BY <1>2, SubSeqFull
  <2> QED
    BY <1>1, <1>5, <2>1, <2>2, Zenon DEF GlueTo
<1>11. ASSUME NEW n \in 0 .. Len(s) - 1
       PROVE  /\ n < u => GlueTo(m, n + 1) = GlueTo(m, n)
              /\ ~ (n < u) => GlueTo(m, n + 1) = IF Len(s[n + 1].rdata) = 4
                                                 THEN Append(GlueTo(m, n), s[n + 1].rdata)
                                                 ELSE GlueTo(m, n)
  <2>1. CASE n < u
    <3>1. n \in Int /\ n + 1 \in Int /\ n <= u /\ n + 1 <= u
      BY <1>5, <1>7, <2>1
    <3>2. GlueTo(m, n) = <<>>
      BY <1>8, <3>1, Zenon
    <3>3. GlueTo(m, n + 1) = <<>>
      BY <1>8, <3>1, Zenon
    <3> QED
      BY <2>1, <3>2, <3>3, Zenon
  <2>2. CASE ~ (n < u)
    <3>1. PICK k : k = (n + 1) - u
      OBVIOUS
    <3>2. k \in 1 .. Len(c) /\ u + k = n + 1 /\ k - 1 = n - u
      <4>1. \A i, j, v \in Nat : ~ (i < v) /\ i + 1 <= v + j =>
                /\ (i + 1) - v \in 1 .. j /\ v + ((i + 1) - v) = i + 1
                /\ ((i + 1) - v) - 1 = i - v
        OBVIOUS
      <4>2. n \in Nat /\ n + 1 <= Len(s)
        BY <1>7
      <4>3. n + 1 <= u + Len(c)
        BY <1>7, <4>2, Zenon
      <4> QED
        BY <1>3, <1>5, <2>2, <3>1, <4>1, <4>2, <4>3, Zenon
    <3>3. Glue(SubSeq(c, 1, k)) =
               IF Len(c[k].rdata) = 4 THEN Append(Glue(SubSeq(c, 1, k - 1)), c[k].rdata)
                                      ELSE Glue(SubSeq(c, 1, k - 1))
      BY <1>2, <3>2, GlueNext, Zenon
    <3>4. s[n + 1] = c[k]
      BY <1>7, <3>2, Zenon
    <3>5. GlueTo(m, n) = Glue(SubSeq(c, 1, k - 1))
      BY <1>1, <1>5, <3>2, Zenon DEF GlueTo
    <3>6. GlueTo(m, n + 1) = Glue(SubSeq(c, 1, k))
      BY <1>1, <1>5, <3>1, Zenon DEF GlueTo
    <3> QED
      BY <2>2, <3>3, <3>4, <3>5, <3>6, Zenon
  <2> QED
    BY <2>1, <2>2
<1> QED
  BY <1>1, <1>4, <1>5, <1>7, <1>9, <1>10, <1>11, Zenon

(* The parser's progress over the records s of a reply m that stand in the *)
(* packet e from st on.  While all names end in pointers it is where the   *)
(* next record stands, with the servers before it, as long as the counts   *)
(* in the header are right.                                                *)
AllPointed(s, n) == \A k \in 1 .. n : s[k].name.pointer # NoPointer
ShortOf(c) == c % 65536
CountIn(e, n) == ShortOf(Char(e, n))
CountsRight(m, e) ==
    /\ CountIn(e, 7) = Len(m.answers)
    /\ CountIn(e, 9) = Len(m.authority)
    /\ CountIn(e, 11) = Len(m.additional)
Placed(m, e, st, s, l, d, sv) ==
    /\ AllPointed(s, Len(s)) => d <= Len(s)
    /\ AllPointed(s, d) => /\ d <= Len(s)
                           /\ l = RecordAt(st, s, d + 1)
                           /\ CountsRight(m, e) => sv = GlueTo(m, d)

(* When only the last one's does not, and it has no data, it stops on the  *)
(* last byte, or beyond it.                                                *)
RootLast(s) ==
    /\ Len(s) >= 1 /\ AllPointed(s, Len(s) - 1)
    /\ s[Len(s)].name.pointer = NoPointer /\ s[Len(s)].rdata = <<>>
AtTheRoot(m, e, s, l, d, sv) ==
    RootLast(s) => /\ d <= Len(s)
                   /\ d = Len(s) => /\ Octet(e, l) = 0 /\ l + 1 >= Len(e)
                                    /\ CountsRight(m, e) => sv = GlueTo(m, d)

(* And the names that it read are the ones that were meant.                *)
MeantName(e, l) == MeantWalk(e)[MaxHops][l]
NamesSoFar(e, st, s, d, nm) ==
    \A k \in 1 .. d :
        AllPointed(s, k - 1) /\ Near(MeantName(e, RecordAt(st, s, k)))
            => nm[k] = MeantName(e, RecordAt(st, s, k)).text

(* The data of a record as it is read, and what becomes of the list        *)
DataRead(e, f) == SubSeq(e, f.rdata + 1, Min({f.rdata + f.rdlength, Len(e)}))
Served(m, e, d, f, sv, sw) ==
    CountsRight(m, e) =>
        \/ d < Unserved(m) /\ sw = sv
        \/ ~ (d < Unserved(m)) /\ sw = IF f.rdlength = 4 THEN Append(sv, DataRead(e, f)) ELSE sv

(* After a record that was read, the list has what that record adds to it. *)
LEMMA Serves ==
    ASSUME NEW m \in ServerReplies, NEW e, NEW d \in 0 .. Len(AllRecords(m)) - 1, NEW f,
           NEW x, x = AllRecords(m)[d + 1],
           \/ f.rdlength = Len(x.rdata) /\ DataRead(e, f) = x.rdata
           \/ f.rdlength # 4 /\ x.rdata = <<>>,
           NEW sv, sv = GlueTo(m, d), NEW sw, Served(m, e, d, f, sv, sw), CountsRight(m, e)
    PROVE  sw = GlueTo(m, d + 1)
<1>1. \/ d < Unserved(m) /\ sw = sv
      \/ ~ (d < Unserved(m)) /\ sw = IF f.rdlength = 4 THEN Append(sv, DataRead(e, f)) ELSE sv
  BY Zenon DEF Served
<1>2. /\ d < Unserved(m) => GlueTo(m, d + 1) = GlueTo(m, d)
      /\ ~ (d < Unserved(m)) =>
            GlueTo(m, d + 1) = IF Len(AllRecords(m)[d + 1].rdata) = 4
                               THEN Append(GlueTo(m, d), AllRecords(m)[d + 1].rdata)
                               ELSE GlueTo(m, d)
  BY GlueSteps, Zenon
<1>3. CASE d < Unserved(m)
  BY <1>1, <1>2, <1>3, Zenon
<1>4. CASE ~ (d < Unserved(m))
  <2>1. sw = IF f.rdlength = 4 THEN Append(sv, DataRead(e, f)) ELSE sv
    BY <1>1, <1>4, Zenon
  <2>2. GlueTo(m, d + 1) = IF Len(x.rdata) = 4 THEN Append(sv, x.rdata) ELSE sv
    BY <1>2, <1>4, Zenon
  <2>3. CASE f.rdlength = Len(x.rdata) /\ DataRead(e, f) = x.rdata
    BY <2>1, <2>2, <2>3, Zenon
  <2>4. CASE f.rdlength # 4 /\ x.rdata = <<>>
    <3>1. Len(<<>>) # 4
      OBVIOUS
    <3>2. Len(x.rdata) # 4
      BY <2>4, <3>1, Zenon
    <3> QED
      BY <2>1, <2>2, <2>4, <3>2, Zenon
  <2> QED
    BY <2>3, <2>4
<1> QED
  BY <1>3, <1>4

(* The names up to some record end in pointers, all or the first ones. *)
LEMMA PointedParts ==
    ASSUME NEW s, NEW d \in Nat
    PROVE  /\ AllPointed(s, 0)
           /\ \A n \in Nat : AllPointed(s, n) /\ d <= n => AllPointed(s, d)
           /\ AllPointed(s, d + 1) <=> AllPointed(s, d) /\ s[d + 1].name.pointer # NoPointer
<1>1. 1 .. 0 = {}
  OBVIOUS
<1>2. \A n \in Nat : d <= n => \A k \in 1 .. d : k \in 1 .. n
  OBVIOUS
<1>3. /\ d + 1 \in 1 .. d + 1 /\ \A k \in 1 .. d : k \in 1 .. d + 1
      /\ \A k \in 1 .. d + 1 : k \in 1 .. d \/ k = d + 1
  OBVIOUS
<1>4. AllPointed(s, 0)
  BY <1>1, Zenon DEF AllPointed
<1>5. \A n \in Nat : AllPointed(s, n) /\ d <= n => AllPointed(s, d)
  BY <1>2, Zenon DEF AllPointed
<1>6. AllPointed(s, d + 1) => AllPointed(s, d) /\ s[d + 1].name.pointer # NoPointer
  BY <1>3, Zenon DEF AllPointed
<1>7. AllPointed(s, d) /\ s[d + 1].name.pointer # NoPointer => AllPointed(s, d + 1)
  BY <1>3, Zenon DEF AllPointed
<1> QED
  BY <1>4, <1>5, <1>6, <1>7, Zenon

(* Where the parser is, after one more record *)
LEMMA PlacedNext ==
    ASSUME NEW m \in ServerReplies, NEW e, NEW st, NEW s, s = AllRecords(m), Arrived(e, st, s),
           NEW d \in Nat, NEW l \in Nat, NEW f, f = Fixed(e, l), CanRead(e, f),
           NEW sv, NEW sw, Served(m, e, d, f, sv, sw), Placed(m, e, st, s, l, d, sv)
    PROVE  Placed(m, e, st, s, f.rdata + f.rdlength, d + 1, sw)
<1>1. PICK t : t = f.rdata + f.rdlength
  OBVIOUS
<1>2. Len(s) \in Nat /\ s \in Seq(ServerRecords)
  BY Standing, Zenon DEF Arrived
<1>3. /\ AllPointed(s, Len(s)) => d <= Len(s)
      /\ AllPointed(s, d) => d <= Len(s) /\ l = RecordAt(st, s, d + 1)
      /\ AllPointed(s, d) /\ CountsRight(m, e) => sv = GlueTo(m, d)
  BY Zenon DEF Placed
<1>4. f.name.end = "ok"
  BY Zenon DEF CanRead
<1>5. AllPointed(s, d) => d \in 0 .. Len(s) - 1
  <2> SUFFICES ASSUME AllPointed(s, d) PROVE d \in 0 .. Len(s) - 1
    OBVIOUS
  <2>1. d <= Len(s) /\ l = RecordAt(st, s, d + 1)
    BY <1>3
  <2>2. d # Len(s)
    <3>1. SUFFICES ASSUME d = Len(s) PROVE FALSE
      OBVIOUS
    <3>2. ~ CanRead(e, Fixed(e, RecordAt(st, s, Len(s) + 1)))
      BY NoMoreRecords
    <3> QED
      BY <2>1, <3>1, <3>2, Zenon
  <2> QED
    BY <1>2, <2>1, <2>2
<1>6. AllPointed(s, Len(s)) => d + 1 <= Len(s)
  <2> SUFFICES ASSUME AllPointed(s, Len(s)) PROVE d + 1 <= Len(s)
    OBVIOUS
  <2>1. AllPointed(s, d)
    BY <1>2, <1>3, PointedParts, Zenon
  <2> QED
    BY <1>2, <1>5, <2>1
<1>7. ASSUME AllPointed(s, d + 1)
      PROVE  /\ d + 1 <= Len(s)
             /\ t = RecordAt(st, s, (d + 1) + 1)
             /\ CountsRight(m, e) => sw = GlueTo(m, d + 1)
  <2>1. AllPointed(s, d) /\ s[d + 1].name.pointer # NoPointer
    BY <1>7, PointedParts, Zenon
  <2>2. d \in 0 .. Len(s) - 1 /\ d + 1 \in 1 .. Len(s) /\ d + 1 <= Len(s)
    BY <1>2, <1>5, <2>1
  <2>3. PICK k : k = d + 1
    OBVIOUS
  <2>4. k \in 1 .. Len(s) /\ s[k].name.pointer # NoPointer /\ f = Fixed(e, RecordAt(st, s, k))
    BY <1>3, <2>1, <2>2, <2>3, Zenon
  <2>5. AsSent(e, st, s, k, f)
    <3>1. \A i \in 1 .. Len(s) :
               Fixed(e, RecordAt(st, s, i)).name.end = "ok"
                   => AsSent(e, st, s, i, Fixed(e, RecordAt(st, s, i)))
      BY NextRecord
    <3> QED
      BY <1>4, <2>4, <3>1, Zenon
  <2>6. f.rdlength = Len(s[k].rdata) /\ DataRead(e, f) = s[k].rdata /\ t = RecordAt(st, s, k + 1)
    BY <1>1, <2>4, <2>5, Zenon DEF DataRead, AsSent
  <2>7. ASSUME CountsRight(m, e) PROVE sw = GlueTo(m, d + 1)
    <3>1. sv = GlueTo(m, d)
      BY <1>3, <2>1, <2>7, Zenon
    <3>2. PICK x : x = AllRecords(m)[d + 1] /\ x = s[k]
      BY <2>3
    <3>3. f.rdlength = Len(x.rdata) /\ DataRead(e, f) = x.rdata
      BY <2>6, <3>2, Zenon
    <3>4. d \in 0 .. Len(AllRecords(m)) - 1
      BY <2>2
    <3> QED
      BY <2>7, <3>1, <3>2, <3>3, <3>4, Serves, Zenon
  <2> QED
    BY <2>2, <2>3, <2>6, <2>7, Zenon
<1> QED
  BY <1>1, <1>6, <1>7, Zenon DEF Placed

(* Where it is, when the last record had the root's name *)
LEMMA RootNext ==
    ASSUME NEW m \in ServerReplies, NEW e, NEW st, NEW s, s = AllRecords(m), Arrived(e, st, s),
           NEW d \in Nat, NEW l \in Nat, NEW f, f = Fixed(e, l), CanRead(e, f),
           NEW sv, NEW sw, Served(m, e, d, f, sv, sw), Placed(m, e, st, s, l, d, sv),
           AtTheRoot(m, e, s, l, d, sv)
    PROVE  AtTheRoot(m, e, s, f.rdata + f.rdlength, d + 1, sw)
<1> SUFFICES ASSUME RootLast(s)
             PROVE  /\ d + 1 <= Len(s)
                    /\ d + 1 = Len(s) =>
                          /\ Octet(e, f.rdata + f.rdlength) = 0
                          /\ (f.rdata + f.rdlength) + 1 >= Len(e)
                          /\ CountsRight(m, e) => sw = GlueTo(m, d + 1)
  BY Zenon DEF AtTheRoot
<1>1. /\ d <= Len(s)
      /\ d = Len(s) => Octet(e, l) = 0 /\ l + 1 >= Len(e)
  BY Zenon DEF AtTheRoot
<1>2. Len(s) \in Nat /\ e \in Seq(Octets)
  BY Standing, Zenon DEF Arrived
<1>3. d # Len(s)
  <2>1. d = Len(s) => ~ CanRead(e, Fixed(e, l))
    BY <1>1, <1>2, NothingThere, Zenon
  <2> QED
    BY <2>1, Zenon
<1>4. d \in 0 .. Len(s) - 1 /\ d + 1 <= Len(s) /\ d + 1 \in 1 .. Len(s)
  BY <1>1, <1>2, <1>3
<1>5. ASSUME d + 1 = Len(s)
      PROVE  /\ Octet(e, f.rdata + f.rdlength) = 0
             /\ (f.rdata + f.rdlength) + 1 >= Len(e)
             /\ CountsRight(m, e) => sw = GlueTo(m, d + 1)
  <2>1. /\ AllPointed(s, Len(s) - 1) /\ s[Len(s)].name.pointer = NoPointer
        /\ s[Len(s)].rdata = <<>>
    BY Zenon DEF RootLast
  <2>2. Len(s) - 1 = d
    BY <1>2, <1>5
  <2>3. /\ l = RecordAt(st, s, d + 1)
        /\ CountsRight(m, e) => sv = GlueTo(m, d)
    BY <2>1, <2>2, Zenon DEF Placed
  <2>4. PICK k : k = d + 1
    OBVIOUS
  <2>5. /\ k \in 1 .. Len(s) /\ k = Len(s) /\ s[k].name.pointer = NoPointer /\ s[k].rdata = <<>>
        /\ f = Fixed(e, RecordAt(st, s, k)) /\ f.name.end = "ok"
    BY <1>4, <1>5, <2>1, <2>3, <2>4, Zenon DEF CanRead
  <2>6. /\ f.rdlength # 4
        /\ Octet(e, f.rdata + f.rdlength) = 0
        /\ (f.rdata + f.rdlength) + 1 >= Len(e)
    <3>1. \A i \in 1 .. Len(s) :
               Fixed(e, RecordAt(st, s, i)).name.end = "ok"
                   => AsSent(e, st, s, i, Fixed(e, RecordAt(st, s, i)))
      BY NextRecord
    <3>2. AsSent(e, st, s, k, f)
      BY <2>5, <3>1, Zenon
    <3> QED
      BY <2>5, <3>2, Zenon DEF AsSent
  <2>7. ASSUME CountsRight(m, e) PROVE sw = GlueTo(m, d + 1)
    <3>1. sv = GlueTo(m, d)
      BY <2>3, <2>7, Zenon
    <3>2. PICK x : x = AllRecords(m)[d + 1] /\ x = s[k]
      BY <2>4
    <3>3. f.rdlength # 4 /\ x.rdata = <<>>
      BY <2>5, <2>6, <3>2, Zenon
    <3>4. d \in 0 .. Len(AllRecords(m)) - 1
      BY <1>4
    <3> QED
      BY <2>7, <3>1, <3>2, <3>3, <3>4, Serves, Zenon
  <2> QED
    BY <2>6, <2>7, Zenon
<1> QED
  BY <1>4, <1>5, Zenon

(* The name of one more record *)
LEMMA NamesNext ==
    ASSUME NEW m, NEW e \in Seq(Octets), NEW st, NEW s,
           NEW d \in Nat, NEW l \in Nat, NEW f, f = Fixed(e, l), CanRead(e, f),
           NEW nm \in Seq(Seq(Seq(Octets))), Len(nm) = d, NEW sv, Placed(m, e, st, s, l, d, sv),
           NamesSoFar(e, st, s, d, nm)
    PROVE  /\ Append(nm, f.name.text) \in Seq(Seq(Seq(Octets)))
           /\ Len(Append(nm, f.name.text)) = d + 1
           /\ NamesSoFar(e, st, s, d + 1, Append(nm, f.name.text))
<1>1. PICK T, x : T = Seq(Seq(Octets)) /\ x = f.name.text
  OBVIOUS
<1>2. x \in T
  BY <1>1, FixedType, Zenon
<1>3. PICK n : n = Append(nm, x)
  OBVIOUS
<1>4. nm \in Seq(T)
  BY <1>1, Zenon
<1>5. n \in Seq(T) /\ Len(n) = d + 1 /\ n[d + 1] = x /\ \A k \in 1 .. d : n[k] = nm[k]
  <2>1. /\ n \in Seq(T) /\ Len(n) = Len(nm) + 1 /\ n[Len(nm) + 1] = x
        /\ \A k \in 1 .. Len(nm) : n[k] = nm[k]
    BY <1>2, <1>3, <1>4, AppendProperties
  <2> QED
    BY <2>1, Zenon
<1>6. ASSUME NEW k \in 1 .. d + 1, AllPointed(s, k - 1), Near(MeantName(e, RecordAt(st, s, k)))
      PROVE  n[k] = MeantName(e, RecordAt(st, s, k)).text
  <2>1. CASE k \in 1 .. d
    BY <1>5, <1>6, <2>1, Zenon DEF NamesSoFar
  <2>2. CASE k \notin 1 .. d
    <3>1. k = d + 1 /\ k - 1 = d
      BY <2>2
    <3>2. AllPointed(s, d)
      BY <1>6, <3>1, Zenon
    <3>3. l = RecordAt(st, s, k)
      BY <3>1, <3>2, Zenon DEF Placed
    <3>4. Near(MeantWalk(e)[MaxHops][l])
      BY <1>6, <3>3, Zenon DEF MeantName
    <3>5. f.name = recParse(e, l) /\ f.name.end = "ok"
      BY FixedFields, Zenon DEF CanRead
    <3>6. recParse(e, l).text = MeantWalk(e)[MaxHops][l].text
      BY <3>4, <3>5, ParsedName, Zenon
    <3> QED
      BY <1>1, <1>5, <3>1, <3>3, <3>5, <3>6, Zenon DEF MeantName
  <2> QED
    BY <2>1, <2>2
<1> QED
  BY <1>1, <1>3, <1>5, <1>6, Zenon DEF NamesSoFar

(* The counts in the header are those of the reply, or too large. *)
LEMMA SignedCount ==
    \A n \in 0 .. 255 :
        /\ ShortOf(n) \in Nat /\ ShortOf(n) >= n
        /\ ShortOf(n - 256) \in Nat /\ ShortOf(n - 256) >= n
<1> TAKE n \in 0 .. 255
<1>1. n % 65536 = n /\ (n - 256) % 65536 = n + 65280
  OBVIOUS
<1>2. n \in Nat /\ n >= n /\ n + 65280 \in Nat /\ n + 65280 >= n
  OBVIOUS
<1> QED
  BY <1>1, <1>2 DEF ShortOf

(* A count, however its char is extended, is no less than what was sent.   *)
LEMMA CountIs ==
    \A r \in Seq(Octets), l \in Nat : CountIn(r, l) \in Nat /\ CountIn(r, l) >= Octet(r, l)
<1> TAKE r \in Seq(Octets), l \in Nat
<1>1. Octet(r, l) \in 0 .. 255 /\ Char(r, l) = IF Octet(r, l) < 128 THEN Octet(r, l) ELSE Octet(r, l) - 256
  BY OctetType, Zenon
<1>2. Char(r, l) = Octet(r, l) \/ Char(r, l) = Octet(r, l) - 256
  BY <1>1, Zenon
<1>3. CASE Char(r, l) = Octet(r, l)
  BY <1>1, <1>3, SignedCount, Zenon DEF CountIn
<1>4. CASE Char(r, l) = Octet(r, l) - 256
  BY <1>1, <1>4, SignedCount, Zenon DEF CountIn
<1> QED
  BY <1>2, <1>3, <1>4

WireTypes ==
    /\ query \in QueryNames /\ reply \in ServerReplies
    /\ records = Encoded(query, reply)
    /\ done \in Nat /\ location \in Nat
    /\ names \in Seq(Seq(Seq(Octets))) /\ Len(names) = done

(* The list that is returned was read to its end. *)
ReadToEnd == outcome = "returned" /\ reply.RCODE = 0 => ~ InAnswers /\ ~ InAdditional

WireInv ==
    Alone =>
        /\ WireTypes
        /\ Placed(reply, records, FirstRecord, SentRecords, location, done, servers)
        /\ AtTheRoot(reply, records, SentRecords, location, done, servers)
        /\ NamesSoFar(records, FirstRecord, SentRecords, done, names)
        /\ ReadToEnd

(* What a reply is made of, and what its header says *)
LEMMA ReplyIs ==
    ASSUME WireTypes
    PROVE  /\ records \in Seq(Octets) /\ SentRecords \in Seq(ServerRecords)
           /\ Arrived(records, FirstRecord, SentRecords)
           /\ Octet(records, 3) = reply.RCODE /\ Octet(records, 7) = Len(reply.answers)
           /\ Octet(records, 9) = Len(reply.authority) /\ Octet(records, 11) = Len(reply.additional)
           /\ RCODE = reply.RCODE
<1>1. PICK q, m, e : q = query /\ m = reply /\ e = records
  OBVIOUS
<1>2. q \in QueryNames /\ m \in ServerReplies /\ e = Encoded(q, m)
  BY <1>1 DEF WireTypes
<1>3. PICK st : st = 12 + Len(Question(q, Len(QNAME(q))))
  OBVIOUS
<1>4. /\ e \in Seq(Octets) /\ st \in Nat
      /\ Octet(e, 3) = m.RCODE /\ Octet(e, 7) = Len(m.answers)
      /\ Octet(e, 9) = Len(m.authority) /\ Octet(e, 11) = Len(m.additional)
      /\ StandsAt(e, st, AllBytes(AllRecords(m)))
      /\ Len(e) = st + Len(AllBytes(AllRecords(m)))
  BY <1>2, <1>3, EncodedIs
<1>5. AllRecords(m) \in Seq(ServerRecords) /\ m.RCODE \in 0 .. 15
  BY <1>2, AllRecordsIs, ReplyParts, Zenon
<1>6. Arrived(e, st, AllRecords(m))
  BY <1>4, <1>5, Zenon DEF Arrived
<1>7. m.RCODE % 16 = m.RCODE
  BY <1>5
<1>8. st = FirstRecord /\ AllRecords(m) = SentRecords
  BY <1>1, <1>3, Zenon DEF FirstRecord, SentRecords
<1>9. RCODE = m.RCODE
  BY <1>1, <1>4, <1>7, Zenon DEF RCODE
<1> QED
  BY <1>1, <1>4, <1>5, <1>6, <1>8, <1>9, Zenon

(* The query alone in its packet is a question to the server, and the      *)
(* parser begins behind it, where the first record stands.                 *)
LEMMA WireBegins == WireInit => WireInv
<1> SUFFICES ASSUME WireInit, Alone
             PROVE  /\ WireTypes
                    /\ Placed(reply, records, FirstRecord, SentRecords, location, done, servers)
                    /\ AtTheRoot(reply, records, SentRecords, location, done, servers)
                    /\ NamesSoFar(records, FirstRecord, SentRecords, done, names)
                    /\ ReadToEnd
  BY DEF WireInv
<1>1. /\ query \in QueryNames /\ queries = 1 /\ numBytes = Len(QNAME(query))
      /\ records = Encoded(query, reply)
      /\ done = 0 /\ names = <<>> /\ servers = <<>> /\ outcome = "header"
      /\ location = queries * Len(Packet(query, numBytes)) - Len(QODD)
      /\ reply \in IF numBytes = Len(QNAME(query)) THEN Replies ELSE {FormatError}
  BY Zenon DEF WireInit, Alone
<1>2. reply \in ServerReplies
  BY <1>1, RepliesAssumption
<1>3. PICK u : u = Question(query, Len(QNAME(query)))
  OBVIOUS
<1>4. u \in Seq(Octets) /\ Len(u) \in Nat
  BY <1>1, <1>3, QuestionIs, Zenon
<1>5. PICK h : h = Header(0, 0, 0, 0, 1)
  OBVIOUS
<1>6. h \in Seq(Octets) /\ Len(h) = 12
  <2>1. 0 \in Octets /\ 1 \in Octets
    BY DEF Octets
  <2> QED
    BY <1>5, <2>1, HeaderIs
<1>7. PICK o : o = <<0, 0, 41, 16, 0, 0, 0, 128, 0, 0, 0>>
  OBVIOUS
<1>8. o \in Seq(Octets) /\ Len(o) = 11 /\ o = QODD
  <2>1. 0 \in Octets /\ 41 \in Octets /\ 16 \in Octets /\ 128 \in Octets
    BY DEF Octets
  <2>2. o \in Seq(Octets)
    BY <1>7, <2>1
  <2>3. Len(o) = 11
    BY <1>7
  <2> QED
    BY <1>7, <2>2, <2>3, Zenon DEF QODD
<1>9. PICK p : p = h \o u
  OBVIOUS
<1>10. p \in Seq(Octets) /\ Len(p) = Len(h) + Len(u)
  BY <1>4, <1>6, <1>9, Joined, Zenon
<1>11. Len(p \o o) = Len(p) + Len(o)
  BY <1>8, <1>10, Joined, Zenon
<1>12. Packet(query, numBytes) = p \o o
  BY <1>1, <1>3, <1>5, <1>8, <1>9, Zenon DEF Packet
<1>13. location = 1 * Len(p \o o) - 11
  BY <1>1, <1>8, <1>12, Zenon
<1>14. location = 12 + Len(u)
  BY <1>4, <1>6, <1>8, <1>10, <1>11, <1>13
<1>15. location = FirstRecord /\ location \in Nat
  <2>1. FirstRecord = 12 + Len(u)
    BY <1>3, Zenon DEF FirstRecord
  <2> QED
    BY <1>4, <1>14, <2>1
<1>16. WireTypes
  <2>1. <<>> \in Seq(Seq(Seq(Octets))) /\ Len(<<>>) = 0 /\ 0 \in Nat
    OBVIOUS
  <2> QED
    BY <1>1, <1>2, <1>15, <2>1, Zenon DEF WireTypes
<1>17. Arrived(records, FirstRecord, SentRecords)
  BY <1>16, ReplyIs, Zenon
<1>18. Len(SentRecords) \in Nat /\ RecordAt(FirstRecord, SentRecords, 1) = FirstRecord
  BY <1>17, Standing, Zenon
<1>19. 0 <= Len(SentRecords) /\ 0 + 1 = 1 /\ 1 .. 0 = {}
  BY <1>18
<1>20. servers = GlueTo(reply, 0)
  BY <1>1, <1>2, GlueSteps, Zenon
<1>21. Placed(reply, records, FirstRecord, SentRecords, location, done, servers)
  BY <1>1, <1>15, <1>18, <1>19, <1>20, Zenon DEF Placed
<1>22. AtTheRoot(reply, records, SentRecords, location, done, servers)
  <2>1. Len(SentRecords) >= 1 => 0 # Len(SentRecords)
    BY <1>18
  <2> QED
    BY <1>1, <1>19, <2>1, Zenon DEF AtTheRoot, RootLast
<1>23. NamesSoFar(records, FirstRecord, SentRecords, done, names)
  BY <1>1, <1>19, Zenon DEF NamesSoFar
<1>24. ReadToEnd
  BY <1>1 DEF ReadToEnd
<1> QED
  BY <1>16, <1>21, <1>22, <1>23, <1>24

(* What every step keeps *)
LEMMA KeptSame ==
    ASSUME Keep
    PROVE  /\ Alone' <=> Alone
           /\ query' = query /\ reply' = reply /\ records' = records
           /\ FirstRecord' = FirstRecord /\ SentRecords' = SentRecords
<1>1. query' = query /\ numBytes' = numBytes /\ queries' = queries /\ reply' = reply /\ records' = records
  BY DEF Keep
<1>2. Alone' <=> Alone
  BY <1>1, Zenon DEF Alone
<1>3. FirstRecord' = FirstRecord /\ SentRecords' = SentRecords
  BY <1>1, Zenon DEF FirstRecord, SentRecords
<1> QED
  BY <1>1, <1>2, <1>3

(* Steps that read no record of the list *)
LEMMA Unmoved ==
    ASSUME WireInv, Keep, UNCHANGED <<location, done, names, servers>>,
           Alone => \/ outcome' = outcome \/ outcome' # "returned"
                    \/ reply.RCODE # 0 \/ (~ InAnswers /\ ~ InAdditional)
    PROVE  WireInv'
<1>1. /\ Alone' <=> Alone
      /\ query' = query /\ reply' = reply /\ records' = records
      /\ FirstRecord' = FirstRecord /\ SentRecords' = SentRecords
  BY KeptSame
<1>2. location' = location /\ done' = done /\ names' = names /\ servers' = servers
  OBVIOUS
<1>3. ASSUME Alone'
      PROVE  /\ WireTypes'
             /\ Placed(reply, records, FirstRecord, SentRecords, location, done, servers)'
             /\ AtTheRoot(reply, records, SentRecords, location, done, servers)'
             /\ NamesSoFar(records, FirstRecord, SentRecords, done, names)'
             /\ ReadToEnd'
  <2>1. /\ WireTypes
        /\ Placed(reply, records, FirstRecord, SentRecords, location, done, servers)
        /\ AtTheRoot(reply, records, SentRecords, location, done, servers)
        /\ NamesSoFar(records, FirstRecord, SentRecords, done, names)
        /\ ReadToEnd
    BY <1>1, <1>3 DEF WireInv
  <2>2. WireTypes'
    BY <1>1, <1>2, <2>1, Zenon DEF WireTypes
  <2>3. (InAnswers' <=> InAnswers) /\ (InAdditional' <=> InAdditional)
    <3>1. ANCOUNT' = ANCOUNT /\ NSCOUNT' = NSCOUNT /\ ARCOUNT' = ARCOUNT
      BY <1>1 DEF ANCOUNT, NSCOUNT, ARCOUNT, Count
    <3> QED
      BY <1>2, <3>1 DEF InAnswers, InAdditional
  <2>5. ReadToEnd'
    BY <1>1, <1>3, <2>1, <2>3, Zenon DEF ReadToEnd
  <2>6. Placed(reply, records, FirstRecord, SentRecords, location, done, servers)'
    BY <1>1, <1>2, <2>1, Zenon
  <2>7. AtTheRoot(reply, records, SentRecords, location, done, servers)'
    BY <1>1, <1>2, <2>1, Zenon
  <2>8. NamesSoFar(records, FirstRecord, SentRecords, done, names)'
    BY <1>1, <1>2, <2>1, Zenon
  <2> QED
    BY <2>2, <2>5, <2>6, <2>7, <2>8
<1> QED
  BY <1>3 DEF WireInv

(* Steps that read one *)
LEMMA Moved ==
    ASSUME WireInv, Keep, outcome # "returned", Advance(Record), CanRead(records, Record),
           Served(reply, records, done, Record, servers, servers')
    PROVE  WireInv'
<1>1. /\ Alone' <=> Alone
      /\ query' = query /\ reply' = reply /\ records' = records
      /\ FirstRecord' = FirstRecord /\ SentRecords' = SentRecords
  BY KeptSame
<1>2. ASSUME Alone'
      PROVE  /\ WireTypes'
             /\ Placed(reply, records, FirstRecord, SentRecords, location, done, servers)'
             /\ AtTheRoot(reply, records, SentRecords, location, done, servers)'
             /\ NamesSoFar(records, FirstRecord, SentRecords, done, names)'
             /\ ReadToEnd'
  <2>1. /\ WireTypes
        /\ Placed(reply, records, FirstRecord, SentRecords, location, done, servers)
        /\ AtTheRoot(reply, records, SentRecords, location, done, servers)
        /\ NamesSoFar(records, FirstRecord, SentRecords, done, names)
    BY <1>1, <1>2 DEF WireInv
  <2>2. PICK m, e, st, s : m = reply /\ e = records /\ st = FirstRecord /\ s = SentRecords
    OBVIOUS
  <2>3. PICK l, d, nm : l = location /\ d = done /\ nm = names
    OBVIOUS
  <2>4. PICK sv, sw, f : sv = servers /\ sw = servers' /\ f = Record
    OBVIOUS
  <2>5. /\ m \in ServerReplies /\ s = AllRecords(m) /\ Arrived(e, st, s) /\ e \in Seq(Octets)
        /\ d \in Nat /\ l \in Nat /\ f = Fixed(e, l) /\ CanRead(e, f)
        /\ nm \in Seq(Seq(Seq(Octets))) /\ Len(nm) = d
    <3>1. /\ m \in ServerReplies /\ s = AllRecords(m) /\ d \in Nat /\ l \in Nat
          /\ nm \in Seq(Seq(Seq(Octets))) /\ Len(nm) = d
      BY <2>1, <2>2, <2>3, Zenon DEF WireTypes, SentRecords
    <3>2. Arrived(e, st, s) /\ e \in Seq(Octets)
      BY <2>1, <2>2, ReplyIs, Zenon
    <3>3. f = Fixed(e, l) /\ CanRead(e, f)
      BY <2>2, <2>3, <2>4, Zenon DEF Record
    <3> QED
      BY <3>1, <3>2, <3>3, Zenon
  <2>6. /\ Placed(m, e, st, s, l, d, sv) /\ AtTheRoot(m, e, s, l, d, sv)
        /\ NamesSoFar(e, st, s, d, nm) /\ Served(m, e, d, f, sv, sw)
    BY <2>1, <2>2, <2>3, <2>4, Zenon
  <2>7. Placed(m, e, st, s, f.rdata + f.rdlength, d + 1, sw)
    BY <2>5, <2>6, PlacedNext, Zenon
  <2>8. AtTheRoot(m, e, s, f.rdata + f.rdlength, d + 1, sw)
    BY <2>5, <2>6, RootNext, Zenon
  <2>9. /\ Append(nm, f.name.text) \in Seq(Seq(Seq(Octets)))
        /\ Len(Append(nm, f.name.text)) = d + 1
        /\ NamesSoFar(e, st, s, d + 1, Append(nm, f.name.text))
    BY <2>5, <2>6, NamesNext
  <2>10. /\ location' = f.rdata + f.rdlength /\ done' = d + 1
         /\ names' = Append(nm, f.name.text) /\ servers' = sw /\ outcome' = outcome
    BY <2>3, <2>4, Zenon DEF Advance
  <2>11. f.rdata + f.rdlength \in Nat /\ d + 1 \in Nat
    <3>1. Fixed(e, l).rdata + Fixed(e, l).rdlength \in Nat
      BY <2>5, FixedType, Zenon
    <3> QED
      BY <2>5, <3>1
  <2>12. WireTypes'
    BY <1>1, <2>1, <2>9, <2>10, <2>11, Zenon DEF WireTypes
  <2>13. ReadToEnd'
    BY <2>10 DEF ReadToEnd
  <2>14. Placed(reply, records, FirstRecord, SentRecords, location, done, servers)'
    BY <1>1, <2>2, <2>7, <2>10, Zenon
  <2>15. AtTheRoot(reply, records, SentRecords, location, done, servers)'
    BY <1>1, <2>2, <2>8, <2>10, Zenon
  <2>16. NamesSoFar(records, FirstRecord, SentRecords, done, names)'
    BY <1>1, <2>2, <2>9, <2>10, Zenon
  <2> QED
    BY <2>12, <2>13, <2>14, <2>15, <2>16
<1> QED
  BY <1>2 DEF WireInv

(* parse() looks at the header only.                                       *)
LEMMA ParseKeeps ==
    ASSUME WireInv, parse
    PROVE  WireInv'
<1>1. /\ Keep /\ UNCHANGED <<location, done, names, servers>>
      /\ outcome' = CASE RCODE = 0 -> IF AA /\ ANCOUNT # 0 THEN "success" ELSE "next"
                      [] RCODE = 1 -> "fatal"
                      [] RCODE = 3 /\ AA /\ ANCOUNT = 0 -> "no such name"
                      [] OTHER -> "returned"
  BY DEF parse, Finish
<1>2. Alone => RCODE = reply.RCODE
  BY ReplyIs DEF WireInv
<1>3. RCODE = 0 => outcome' # "returned"
  BY <1>1
<1>4. Alone => outcome' # "returned" \/ reply.RCODE # 0
  BY <1>2, <1>3, Zenon
<1> QED
  BY <1>1, <1>4, Unmoved

(* nextParse() passes over a record of the answers or authorities.         *)
LEMMA NextParseKeeps ==
    ASSUME WireInv, nextParse
    PROVE  WireInv'
<1>1. /\ Keep /\ outcome = "next" /\ InAnswers /\ CanRead(records, Record) /\ Advance(Record)
      /\ servers' = servers
  BY DEF nextParse
<1>2. ASSUME CountsRight(reply, records) PROVE done < Unserved(reply)
  <2>1. CountIn(records, 7) = ANCOUNT /\ CountIn(records, 9) = NSCOUNT
    BY DEF CountIn, ShortOf, ANCOUNT, NSCOUNT, Count
  <2>2. ANCOUNT = Len(reply.answers) /\ NSCOUNT = Len(reply.authority)
    BY <1>2, <2>1, Zenon DEF CountsRight
  <2> QED
    BY <1>1, <2>2, Zenon DEF InAnswers, Unserved
<1>3. Served(reply, records, done, Record, servers, servers')
  BY <1>1, <1>2, Zenon DEF Served
<1>4. outcome # "returned"
  BY <1>1
<1> QED
  BY <1>1, <1>3, <1>4, Moved, Zenon

(* nextParse() keeps an additional record of four bytes.                   *)
LEMMA NextParseAdditionalKeeps ==
    ASSUME WireInv, nextParseAdditional
    PROVE  WireInv'
<1>1. /\ Keep /\ outcome = "next" /\ InAdditional /\ CanCut(records, Record) /\ Advance(Record)
      /\ servers' = IF IsServer(Record) THEN Append(servers, Data(Record)) ELSE servers
  BY DEF nextParseAdditional
<1>2. ASSUME CountsRight(reply, records) PROVE ~ (done < Unserved(reply))
  <2>1. CountIn(records, 7) = ANCOUNT /\ CountIn(records, 9) = NSCOUNT
    BY DEF CountIn, ShortOf, ANCOUNT, NSCOUNT, Count
  <2>2. ANCOUNT = Len(reply.answers) /\ NSCOUNT = Len(reply.authority)
    BY <1>2, <2>1, Zenon DEF CountsRight
  <2> QED
    BY <1>1, <2>2, Zenon DEF InAdditional, InAnswers, Unserved
<1>3. servers' = IF Record.rdlength = 4 THEN Append(servers, DataRead(records, Record)) ELSE servers
  BY <1>1, Zenon DEF IsServer, Data, DataRead
<1>4. Served(reply, records, done, Record, servers, servers')
  BY <1>2, <1>3, Zenon DEF Served
<1>5. outcome # "returned" /\ CanRead(records, Record)
  BY <1>1 DEF CanCut
<1> QED
  BY <1>1, <1>4, <1>5, Moved, Zenon

(* nextParse() returns when it has read as many records as were counted.   *)
LEMMA NextParseEndsKeeps ==
    ASSUME WireInv, nextParseEnds
    PROVE  WireInv'
<1>1. /\ Keep /\ UNCHANGED <<location, done, names, servers>> /\ ~ InAnswers /\ ~ InAdditional
  BY DEF nextParseEnds, Finish
<1> QED
  BY <1>1, Unmoved

(* nextParse() runs into the end of the packet.                            *)
LEMMA NextParseFailsKeeps ==
    ASSUME WireInv, nextParseFails
    PROVE  WireInv'
<1>1. /\ Keep /\ UNCHANGED <<location, done, names, servers>> /\ outcome' = Fault(Record)
  BY DEF nextParseFails, Finish
<1>2. ASSUME Alone PROVE outcome' # "returned"
  <2>1. records \in Seq(Octets) /\ location \in Nat
    BY <1>2, ReplyIs, Zenon DEF WireInv, WireTypes
  <2>2. PICK x : x = Record.name
    OBVIOUS
  <2>3. x \in NameRead
    BY <2>1, <2>2, FixedType, Zenon DEF Record
  <2>4. x.end \in {"ok", "overrun", "loop"}
    BY <2>3 DEF NameRead
  <2>5. Fault(Record) = IF x.end = "ok" THEN "overrun" ELSE x.end
    BY <2>2, Zenon DEF Fault
  <2> QED
    BY <1>1, <2>4, <2>5
<1> QED
  BY <1>1, <1>2, Unmoved

(* successParse() is for answers: what it prints changes no name and no server. *)
LEMMA SuccessParseKeeps ==
    ASSUME WireInv, successParse
    PROVE  WireInv'
<1>1. /\ Keep /\ UNCHANGED <<location, done, names, servers>>
      /\ outcome' = "exit" \/ outcome' = "overrun"
  BY Zenon DEF successParse
<1>2. outcome' # "returned"
  BY <1>1
<1> QED
  BY <1>1, <1>2, Unmoved

(* The invariant is inductive, ... *)
LEMMA WireKeeps == WireInv /\ [WireNext]_wireVars => WireInv'
<1> SUFFICES ASSUME WireInv, [WireNext]_wireVars PROVE WireInv'
  OBVIOUS
<1>1. CASE parse
  BY <1>1, ParseKeeps
<1>2. CASE nextParse
  BY <1>2, NextParseKeeps
<1>3. CASE nextParseAdditional
  BY <1>3, NextParseAdditionalKeeps
<1>4. CASE nextParseEnds
  BY <1>4, NextParseEndsKeeps
<1>5. CASE nextParseFails
  BY <1>5, NextParseFailsKeeps
<1>6. CASE successParse
  BY <1>6, SuccessParseKeeps
<1>7. CASE UNCHANGED wireVars
  <2>1. Keep /\ UNCHANGED <<location, done, names, servers>> /\ outcome' = outcome
    BY <1>7 DEF wireVars, Keep
  <2> QED
    BY <2>1, Unmoved
<1> QED
  BY <1>1, <1>2, <1>3, <1>4, <1>5, <1>6, <1>7 DEF WireNext

(* ... and implies what is claimed of the names ...                        *)
LEMMA WireNames == WireInv => NamesAreRight
<1> SUFFICES ASSUME WireInv, Alone, NEW k \in 1 .. done, AllCompressed(k - 1),
                    \A p \in Meant(Offset(k)).pointers : p < 64
             PROVE  names[k] = Meant(Offset(k)).text
  BY DEF NamesAreRight
<1>1. NamesSoFar(records, FirstRecord, SentRecords, done, names)
  BY DEF WireInv
<1>2. AllPointed(SentRecords, k - 1)
  BY Zenon DEF AllCompressed, Compressed, AllPointed
<1>3. Offset(k) = RecordAt(FirstRecord, SentRecords, k)
  BY Zenon DEF Offset, RecordAt, First
<1>4. Meant(Offset(k)) = MeantName(records, RecordAt(FirstRecord, SentRecords, k))
  BY <1>3, Zenon DEF Meant, MeantName
<1>5. Near(MeantName(records, RecordAt(FirstRecord, SentRecords, k)))
  BY <1>4, Zenon DEF Near
<1> QED
  BY <1>1, <1>2, <1>4, <1>5, Zenon DEF NamesSoFar

(* ... and of the servers.  Counts that are too large are noticed, since   *)
(* no record is read after the last one.                                   *)
LEMMA WireServers == WireInv => ServersAreGlue
<1> SUFFICES ASSUME WireInv, outcome = "returned", Alone, reply.RCODE = 0,
                    AllCompressed(Len(SentRecords) - 1),
                    Compressed(Len(SentRecords)) \/ Last(SentRecords).rdata = <<>>
             PROVE  servers = Glue(reply.additional)
  BY DEF ServersAreGlue
<1>1. PICK m, e, s, d : m = reply /\ e = records /\ s = SentRecords /\ d = done
  OBVIOUS
<1>2. PICK st, l, sv : st = FirstRecord /\ l = location /\ sv = servers
  OBVIOUS
<1>3. /\ Placed(m, e, st, s, l, d, sv) /\ AtTheRoot(m, e, s, l, d, sv)
      /\ WireTypes /\ ReadToEnd
  BY <1>1, <1>2, Zenon DEF WireInv
<1>4. /\ m \in ServerReplies /\ s = AllRecords(m) /\ d \in Nat
  BY <1>1, <1>3, Zenon DEF WireTypes, SentRecords
<1>5. /\ Octet(e, 7) = Len(m.answers) /\ Octet(e, 9) = Len(m.authority)
      /\ Octet(e, 11) = Len(m.additional) /\ e \in Seq(Octets) /\ s \in Seq(ServerRecords)
  BY <1>1, <1>3, ReplyIs, Zenon
<1>6. Len(s) \in Nat /\ Len(s) = Len(m.answers) + Len(m.authority) + Len(m.additional)
  <2>1. Len(AllRecords(m)) = Len(m.answers) + Len(m.authority) + Len(m.additional)
    BY <1>4, AllRecordsIs, Zenon
  <2>2. Len(s) \in Nat
    BY <1>4, GlueSteps, Zenon
  <2> QED
    BY <1>4, <2>1, <2>2, Zenon
<1>7. PICK a, b, c : a = CountIn(e, 7) /\ b = CountIn(e, 9) /\ c = CountIn(e, 11)
  OBVIOUS
<1>8. PICK x, y, z : x = Len(m.answers) /\ y = Len(m.authority) /\ z = Len(m.additional)
  OBVIOUS
<1>9. /\ x \in Nat /\ y \in Nat /\ z \in Nat
  BY <1>4, <1>8, ReplyParts, OctetFact, Zenon
<1>10. /\ a \in Nat /\ b \in Nat /\ c \in Nat /\ a >= x /\ b >= y /\ c >= z
  <2>1. 7 \in Nat /\ 9 \in Nat /\ 11 \in Nat
    OBVIOUS
  <2> QED
    BY <1>5, <1>7, <1>8, <2>1, CountIs, Zenon
<1>11. ~ (d < a + b) /\ ~ (d < a + b + c)
  <2>1. ANCOUNT = a /\ NSCOUNT = b /\ ARCOUNT = c
    BY <1>1, <1>7 DEF CountIn, ShortOf, ANCOUNT, NSCOUNT, ARCOUNT, Count
  <2>2. ~ InAnswers /\ ~ InAdditional
    BY <1>3, Zenon DEF ReadToEnd
  <2> QED
    BY <1>1, <2>1, <2>2, Zenon DEF InAnswers, InAdditional
<1>12. d <= Len(s) => d = Len(s) /\ a = x /\ b = y /\ c = z
  <2>1. Len(s) = x + y + z
    BY <1>6, <1>8, Zenon
  <2> QED
    BY <1>4, <1>9, <1>10, <1>11, <2>1
<1>13. d <= Len(s) => CountsRight(m, e)
  BY <1>7, <1>8, <1>12, Zenon DEF CountsRight
<1>14. GlueTo(m, Len(s)) = Glue(m.additional)
  BY <1>4, GlueSteps, Zenon
<1>15. AllPointed(s, Len(s) - 1)
  BY <1>1, Zenon DEF AllCompressed, Compressed, AllPointed
<1>16. CASE AllPointed(s, Len(s))
  <2>1. d <= Len(s)
    BY <1>3, <1>16, Zenon DEF Placed
  <2>2. d = Len(s) /\ CountsRight(m, e)
    BY <1>12, <1>13, <2>1, Zenon
  <2>3. sv = GlueTo(m, d)
    BY <1>3, <1>16, <2>2, Zenon DEF Placed
  <2> QED
    BY <1>1, <1>2, <1>14, <2>2, <2>3, Zenon
<1>17. CASE ~ AllPointed(s, Len(s))
  <2>1. Len(s) # 0
    <3>1. 1 .. 0 = {}
      OBVIOUS
    <3> QED
      BY <1>17, <3>1, Zenon DEF AllPointed
  <2>2. Len(s) >= 1 /\ Len(s) - 1 \in Nat /\ (Len(s) - 1) + 1 = Len(s)
    <3>1. PICK n : n = Len(s) /\ n \in Nat /\ n # 0
      BY <1>6, <2>1, Zenon
    <3>2. n >= 1 /\ n - 1 \in Nat /\ (n - 1) + 1 = n
      BY <3>1
    <3> QED
      BY <3>1, <3>2, Zenon
  <2>3. s[Len(s)].name.pointer = NoPointer
    <3>1. \A j \in Nat : AllPointed(s, j + 1) <=> AllPointed(s, j) /\ s[j + 1].name.pointer # NoPointer
      BY PointedParts
    <3>2. AllPointed(s, Len(s)) <=> AllPointed(s, Len(s) - 1) /\ s[Len(s)].name.pointer # NoPointer
      BY <2>2, <3>1, Zenon
    <3> QED
      BY <1>15, <1>17, <3>2, Zenon
  <2>4. ~ Compressed(Len(SentRecords))
    BY <1>1, <2>3, Zenon DEF Compressed
  <2>5. s[Len(s)].rdata = <<>>
    BY <1>1, <2>4, Zenon DEF Last
  <2>6. RootLast(s)
    BY <1>15, <2>2, <2>3, <2>5, Zenon DEF RootLast
  <2>7. d <= Len(s)
    BY <1>3, <2>6, Zenon DEF AtTheRoot
  <2>8. d = Len(s) /\ CountsRight(m, e)
    BY <1>12, <1>13, <2>7, Zenon
  <2>9. sv = GlueTo(m, d)
    BY <1>3, <2>6, <2>8, Zenon DEF AtTheRoot
  <2> QED
    BY <1>1, <1>2, <1>14, <2>8, <2>9, Zenon
<1> QED
  BY <1>16, <1>17

(* Whatever the records and however often their names point to each other, *)
(* every owner name that is read, up to the first without a pointer, is    *)
(* the one the server meant, as long as its pointers stay within the six   *)
(* bits that recParse() leaves of them.                                    *)
THEOREM NamesCorrect == WireSpec => []NamesAreRight
<1>1. WireInv /\ [WireNext]_wireVars => WireInv'
  BY WireKeeps
<1> QED
  BY <1>1, WireBegins, WireNames, PTL DEF WireSpec

(* The list of servers that nextParse() returns has an address for each    *)
(* additional record with four bytes of data, in their order, whatever the *)
(* records of the packet and their number.  (Behind counts of 128 or more, *)
(* which are read too large, no list is returned.)                         *)
THEOREM ServersCorrect == WireSpec => []ServersAreGlue
<1>1. WireInv /\ [WireNext]_wireVars => WireInv'
  BY WireKeeps
<1> QED
  BY <1>1, WireBegins, WireServers, PTL DEF WireSpec

(* The label that is read where one was sent *)
LEMMA LabelRead ==
    ASSUME NEW r \in Seq(Octets), NEW l \in Nat, NEW h \in Seq(Octets), Len(h) \in 1 .. 63,
           StandsAt(r, l, SentAs(h)), Octet(r, l) = Len(h)
    PROVE  Label(r, l) = h
<1>1. PICK a : a = <<Len(h)>>
  OBVIOUS
<1>2. a \in Seq(Octets) /\ Len(a) = 1
  <2>1. \A x \in 1 .. 63 : x \in Octets
    BY DEF Octets
  <2>2. Len(h) \in Octets
    BY <2>1, Zenon
  <2> QED
    BY <1>1, <2>2, FewOctets, Zenon
<1>3. PICK s : s = SentAs(h) /\ s = a \o h
  BY <1>1 DEF SentAs
<1>4. StandsAt(r, l + Len(a), h)
  BY <1>2, <1>3, HoldsParts, Zenon
<1>5. StandsAt(r, l + 1, h)
  BY <1>2, <1>4, Zenon
<1>6. \A i \in 1 .. Len(h) : Octet(r, l + i) = h[i]
  <2> TAKE i \in 1 .. Len(h)
  <2>1. (l + 1) + i - 1 = l + i
    OBVIOUS
  <2>2. Octet(r, (l + 1) + i - 1) = h[i]
    BY <1>5, Zenon DEF StandsAt
  <2> QED
    BY <2>1, <2>2, Zenon
<1>7. PICK n : n = Len(h) /\ n \in Nat
  OBVIOUS
<1>8. Label(r, l) = [i \in 1 .. n |-> h[i]]
  <2>1. Label(r, l) = [i \in 1 .. n |-> Octet(r, l + i)]
    BY <1>7, Zenon DEF Label
  <2>2. \A i \in 1 .. n : Octet(r, l + i) = h[i]
    BY <1>6, <1>7, Zenon
  <2> QED
    BY <2>1, <2>2
<1>9. [i \in 1 .. n |-> h[i]] = h
  BY <1>7
<1> QED
  BY <1>8, <1>9, Zenon

(* What recParse() reads of a name without a pointer: its labels.          *)
SaysAt(r, f) ==
    \A n \in OwnerNames, l \in Nat :
        n.pointer = NoPointer /\ StandsAt(r, l, Owner(n)) /\ f[l].end = "ok" => f[l].text = n.labels

(* One hop reads the labels that were sent if the hops after it do.        *)
LEMMA HopSays ==
    ASSUME NEW r \in Seq(Octets), NEW f \in [Nat -> NameRead],
           NEW n \in OwnerNames, NEW l \in Nat, StandsAt(r, l, Owner(n)), n.pointer = NoPointer
    PROVE  SaysAt(r, f) /\ Hop(r, l, f).end = "ok" => Hop(r, l, f).text = n.labels
<1>0. /\ n.labels \in Seq(OwnerLabels) /\ n.pointer \in {NoPointer} \cup PointedTo
      /\ Owner(n) \in Seq(Octets)
  BY OwnerType
<1>1. CASE n.labels = <<>>
  <2>1. PICK s : s = Owner(n) /\ s = Ending(n.pointer) /\ s \in Seq(Octets)
    BY <1>0, <1>1, OwnerEnds
  <2>2. Len(s) = 1 /\ s[1] = 0
    BY <1>0, <2>1, EndingIs, Zenon
  <2>3. Len(s) >= 1
    BY <2>2
  <2>4. Octet(r, l) = 0 /\ Inside(r, l)
    BY <2>1, <2>2, <2>3, HoldsFirst, Zenon
  <2>5. Hop(r, l, f).text = <<>>
    BY <2>4, HopFields, Zenon
  <2> QED
    BY <1>1, <2>5, Zenon
<1>2. CASE n.labels # <<>>
  <2>1. PICK h, m : h = Head(n.labels) /\ m = Shorter(n)
    OBVIOUS
  <2>2. /\ m \in OwnerNames /\ m.pointer = n.pointer
        /\ h \in Seq(Octets) /\ Len(h) \in 1 .. 63
        /\ Owner(n) = SentAs(h) \o Owner(m)
    BY <1>2, <2>1, OwnerFirst, Zenon
  <2>3. PICK a, b : a = SentAs(h) /\ b = Owner(m)
    OBVIOUS
  <2>4. a \in Seq(Octets) /\ Len(a) = 1 + Len(h) /\ a[1] = Len(h) /\ b \in Seq(Octets)
    BY <2>2, <2>3, SentLabel, OwnerType, Zenon
  <2>5. Owner(n) = a \o b
    BY <2>2, <2>3, Zenon
  <2>6. StandsAt(r, l, a) /\ StandsAt(r, l + Len(a), b)
    BY <2>4, <2>5, HoldsParts, Zenon
  <2>7. Len(h) # 0 /\ Len(h) < 192 /\ Len(a) >= 1 /\ l + Len(a) = l + 1 + Len(h)
    <3>1. PICK x, y : x = Len(h) /\ y = Len(a)
      OBVIOUS
    <3>2. x \in 1 .. 63 /\ y = 1 + x
      BY <2>2, <2>4, <3>1, Zenon
    <3>3. x # 0 /\ x < 192 /\ y >= 1 /\ l + y = l + 1 + x
      BY <3>2
    <3> QED
      BY <3>1, <3>3, Zenon
  <2>8. Octet(r, l) = Len(h) /\ Inside(r, l)
    BY <2>4, <2>6, <2>7, HoldsFirst, Zenon
  <2>9. Hop(r, l, f).end = "ok" =>
           /\ Hop(r, l, f).text = <<Label(r, l)>> \o f[l + 1 + Len(h)].text
           /\ f[l + 1 + Len(h)].end = "ok"
    <3>1. Octet(r, l) # 0 /\ Octet(r, l) < 192
      BY <2>7, <2>8, Zenon
    <3>2. Hop(r, l, f).end = "ok" =>
             /\ Hop(r, l, f).text = <<Label(r, l)>> \o f[l + 1 + Octet(r, l)].text
             /\ f[l + 1 + Octet(r, l)].end = "ok"
      BY <2>8, <3>1, HopFields, Zenon
    <3> QED
      BY <2>8, <3>2, Zenon
  <2>10. PICK j : j = l + 1 + Len(h)
    OBVIOUS
  <2>11. j \in Nat
    BY <2>2, <2>10
  <2>12. StandsAt(r, j, Owner(m))
    BY <2>3, <2>6, <2>7, <2>10, Zenon
  <2>13. SaysAt(r, f) /\ f[j].end = "ok" => f[j].text = m.labels
    BY <2>2, <2>11, <2>12, Zenon DEF SaysAt
  <2>14. Label(r, l) = h
    BY <2>2, <2>3, <2>6, <2>8, LabelRead, Zenon
  <2>15. <<h>> \o m.labels = n.labels
    <3>1. PICK ws : ws = n.labels /\ ws \in Seq(OwnerLabels) /\ ws # <<>>
      BY <1>0, <1>2
    <3>2. m.labels = Tail(ws)
      BY <2>1, <3>1 DEF Shorter, OwnerNames
    <3>3. <<Head(ws)>> \o Tail(ws) = ws
      BY <3>1
    <3> QED
      BY <2>1, <3>1, <3>2, <3>3, Zenon
  <2> QED
    BY <2>9, <2>10, <2>13, <2>14, <2>15, Zenon
<1> QED
  BY <1>1, <1>2, Zenon

(* By induction on the hops, so does recParse() ...                        *)
LEMMA WalkSays ==
    ASSUME NEW r \in Seq(Octets)
    PROVE  \A k \in 0 .. MaxHops : SaysAt(r, Walk(r)[k])
<1>0. MaxHops \in Nat
  BY HopsAssumption
<1> DEFINE bad == {k \in 0 .. MaxHops : ~ SaysAt(r, Walk(r)[k])}
<1> SUFFICES ASSUME bad # {} PROVE FALSE
  OBVIOUS
<1>1. bad \in SUBSET Nat
  BY <1>0
<1> HIDE DEF bad
<1>2. PICK m \in bad : \A n \in bad : m <= n
  BY <1>1, Least
<1>3. m \in 0 .. MaxHops /\ ~ SaysAt(r, Walk(r)[m])
  BY <1>2 DEF bad
<1>4. PICK n \in OwnerNames, l \in Nat :
          /\ n.pointer = NoPointer
          /\ StandsAt(r, l, Owner(n)) /\ Walk(r)[m][l].end = "ok"
          /\ Walk(r)[m][l].text # n.labels
  BY <1>3, Zenon DEF SaysAt
<1>5. CASE m = 0
  <2>1. Walk(r)[m][l] = Bad("loop")
    BY <1>5, WalkIs, Zenon
  <2>2. Walk(r)[m][l].end = "loop"
    BY <2>1, ReadEmpty, Zenon
  <2> QED
    BY <1>4, <2>2
<1>6. CASE m # 0
  <2>1. m \in 1 .. MaxHops /\ m - 1 \in 0 .. MaxHops /\ ~ (m <= m - 1)
    BY <1>0, <1>3, <1>6
  <2>2. m - 1 \notin bad
    BY <1>2, <2>1, Zenon
  <2>3. SaysAt(r, Walk(r)[m - 1])
    BY <2>1, <2>2, Zenon DEF bad
  <2>4. PICK f : f = Walk(r)[m - 1]
    OBVIOUS
  <2>5. f \in [Nat -> NameRead]
    BY <2>1, <2>4, WalkIs, Zenon
  <2>6. Walk(r)[m][l] = Hop(r, l, f)
    BY <2>1, <2>4, WalkIs, Zenon
  <2>7. SaysAt(r, f) /\ Hop(r, l, f).end = "ok" => Hop(r, l, f).text = n.labels
    BY <1>4, <2>5, HopSays, Zenon
  <2> QED
    BY <1>4, <2>3, <2>4, <2>6, <2>7, Zenon
<1> QED
  BY <1>5, <1>6

(* ... wherever a name without a pointer stands.                           *)
LEMMA LabelsRead ==
    ASSUME NEW r \in Seq(Octets), NEW l \in Nat, NEW n \in OwnerNames, n.pointer = NoPointer,
           StandsAt(r, l, Owner(n)), recParse(r, l).end = "ok"
    PROVE  recParse(r, l).text = n.labels
<1>1. MaxHops \in 0 .. MaxHops
  BY HopsAssumption
<1>2. SaysAt(r, Walk(r)[MaxHops])
  BY <1>1, WalkSays, Zenon
<1> QED
  BY <1>2, Zenon DEF recParse, SaysAt

(* Sequences whose parts are as long are as long. *)
LEMMA SameLengths ==
    ASSUME NEW S, NEW T, NEW p \in Seq(Seq(S)), NEW q \in Seq(Seq(T)), Len(p) = Len(q),
           \A i \in 1 .. Len(p) : Len(p[i]) = Len(q[i])
    PROVE  Len(FlattenSeq(p)) = Len(FlattenSeq(q))
<1>1. PICK f : Flattens(f, p, S)
  BY Flattening
<1>2. PICK g : Flattens(g, q, T)
  BY Flattening
<1>3. PICK N : N = Len(p) /\ N = Len(q) /\ N \in Nat
  OBVIOUS
<1> DEFINE F == [i \in 0 .. N |-> Len(f[i])]
           G == [i \in 0 .. N |-> Len(g[i])]
<1>4. F[0] = G[0]
  <2>1. f[0] = <<>> /\ g[0] = <<>>
    BY <1>1, <1>2 DEF Flattens
  <2> QED
    BY <1>3, <2>1
<1>5. ASSUME NEW i \in 1 .. N, F[i - 1] = G[i - 1] PROVE F[i] = G[i]
  <2>1. i \in 0 .. N /\ i - 1 \in 0 .. N
    BY <1>3
  <2>2. PICK a, b : a = f[i - 1] /\ b = p[i] /\ a \in Seq(S) /\ b \in Seq(S)
    <3>1. f[i - 1] \in Seq(S)
      BY <1>1, <1>3, <2>1 DEF Flattens
    <3>2. p[i] \in Seq(S)
      BY <1>3, ElementOfSeq
    <3> QED
      BY <3>1, <3>2
  <2>3. PICK c, d : c = g[i - 1] /\ d = q[i] /\ c \in Seq(T) /\ d \in Seq(T)
    <3>1. g[i - 1] \in Seq(T)
      BY <1>2, <1>3, <2>1 DEF Flattens
    <3>2. q[i] \in Seq(T)
      BY <1>3, ElementOfSeq
    <3> QED
      BY <3>1, <3>2
  <2>4. f[i] = a \o b /\ g[i] = c \o d
    BY <1>1, <1>2, <1>3, <2>2, <2>3 DEF Flattens
  <2>5. Len(a \o b) = Len(a) + Len(b)
    BY <2>2, ConcatProperties
  <2>6. Len(c \o d) = Len(c) + Len(d)
    BY <2>3, ConcatProperties
  <2>7. Len(a) = Len(c)
    BY <1>5, <2>1, <2>2, <2>3
  <2>8. Len(b) = Len(d)
    BY <1>3, <2>2, <2>3
  <2>9. F[i] = Len(f[i]) /\ G[i] = Len(g[i])
    BY <2>1
  <2> QED
    BY <2>4, <2>5, <2>6, <2>7, <2>8, <2>9, Zenon
<1> HIDE DEF F, G
<1>6. \A i \in 0 .. N : F[i] = G[i]
  <2>1. N \in Nat
    BY <1>3
  <2>2. \A i \in 1 .. N : F[i - 1] = G[i - 1] => F[i] = G[i]
    BY <1>5
  <2> QED
    BY <1>4, <2>1, <2>2, SameSteps, Zenon
<1>7. N \in 0 .. N
  BY <1>3
<1>8. F[N] = Len(f[N]) /\ G[N] = Len(g[N])
  BY <1>7 DEF F, G
<1>9. FlattenSeq(p) = f[N] /\ FlattenSeq(q) = g[N]
  <2>1. FlattenSeq(p) = f[Len(p)]
    BY <1>1, FlattenIs
  <2>2. FlattenSeq(q) = g[Len(q)]
    BY <1>2, FlattenIs
  <2> QED
    BY <1>3, <2>1, <2>2, Zenon
<1> QED
  BY <1>6, <1>7, <1>8, <1>9, Zenon

(* A name is as long as text as its labels are as bytes, but for a dot. *)
LEMMA DottedLength ==
    ASSUME NEW ws \in Seq(OwnerLabels)
    PROVE  Len(Dotted(ws)) = Len(Labels(ws))
<1>1. PICK p, q : /\ p = [k \in 1 .. Len(ws) |-> <<Dot>> \o ws[k]]
                  /\ q = [k \in 1 .. Len(ws) |-> SentAs(ws[k])]
  OBVIOUS
<1>2. q \in Seq(Seq(Octets)) /\ Len(q) = Len(ws)
  BY <1>1, LabelSequences
<1>3. ASSUME NEW i \in 1 .. Len(ws)
      PROVE  <<Dot>> \o ws[i] \in Seq(Octets) /\ Len(<<Dot>> \o ws[i]) = Len(SentAs(ws[i]))
  <2>1. PICK w : w = ws[i] /\ w \in OwnerLabels
    BY ElementOfSeq
  <2>2. w \in Seq(Octets) /\ Len(w) \in 1 .. 63
    BY <2>1 DEF OwnerLabels
  <2>3. Len(SentAs(w)) = 1 + Len(w)
    BY <2>2, SentLabel, Zenon
  <2>4. PICK a : a = <<Dot>>
    OBVIOUS
  <2>5. a \in Seq(Octets) /\ Len(a) = 1
    <3>1. Dot \in Octets
      BY DEF Dot, Octets
    <3> QED
      BY <2>4, <3>1, FewOctets, Zenon
  <2>6. a \o w \in Seq(Octets) /\ Len(a \o w) = Len(a) + Len(w)
    BY <2>2, <2>5, ConcatProperties
  <2> QED
    BY <2>1, <2>3, <2>4, <2>5, <2>6, Zenon
<1>4. PICK n, A : n = Len(ws) /\ n \in Nat /\ A = Seq(Octets)
  OBVIOUS
<1>5. p \in [1 .. n -> A] /\ \A i \in 1 .. n : p[i] = <<Dot>> \o ws[i]
  BY <1>1, <1>3, <1>4
<1>6. p \in Seq(A) /\ Len(p) = n
  BY <1>4, <1>5
<1>7. \A i \in 1 .. n : q[i] = SentAs(ws[i])
  BY <1>1, <1>4
<1>8. \A i \in 1 .. n : Len(p[i]) = Len(q[i])
  BY <1>3, <1>4, <1>5, <1>7, Zenon
<1>9. p \in Seq(Seq(Octets)) /\ Len(p) = Len(q) /\ \A i \in 1 .. Len(p) : Len(p[i]) = Len(q[i])
  BY <1>2, <1>4, <1>6, <1>8, Zenon
<1>10. Len(FlattenSeq(p)) = Len(FlattenSeq(q))
  BY <1>2, <1>9, SameLengths
<1>11. Dotted(ws) = FlattenSeq(p) /\ Labels(ws) = FlattenSeq(q)
  BY <1>1, Zenon DEF Dotted, Labels
<1> QED
  BY <1>10, <1>11, Zenon

(* A zone's name, without a zero but the one that ends it *)
NonZero == 1 .. 255
(* The length of a label is not zero, nor is an octet of a zone.           *)
LEMMA NonZeroFact == \A x \in NonZero : x # 0
  BY DEF NonZero

(* What two sequences are, one behind the other, octet by octet.           *)
LEMMA JoinedParts ==
    \A a, b \in Seq(Octets) :
        /\ Len(a \o b) = Len(a) + Len(b) /\ Len(a) \in Nat
        /\ \A i \in 1 .. Len(a) + Len(b) : (a \o b)[i] = IF i <= Len(a) THEN a[i] ELSE b[i - Len(a)]
<1> TAKE a, b \in Seq(Octets)
<1> QED
  BY ConcatProperties

(* The labels of a zone are sent without a zero.                           *)
LEMMA ZoneLabels ==
    ASSUME NEW z \in ZoneNames
    PROVE  z \in Seq(OwnerLabels) /\ Labels(z) \in Seq(NonZero)
<1>1. z \in Seq(OwnerLabels)
  BY DEF ZoneNames
<1>2. \A k \in 1 .. Len(z) : \A i \in 1 .. Len(z[k]) : z[k][i] # 0
  BY DEF ZoneNames
<1>3. PICK q : q = [k \in 1 .. Len(z) |-> SentAs(z[k])]
  OBVIOUS
<1>4. ASSUME NEW k \in 1 .. Len(z) PROVE SentAs(z[k]) \in Seq(NonZero)
  <2>1. PICK w : w = z[k] /\ w \in OwnerLabels
    BY <1>1, ElementOfSeq
  <2>2. w \in Seq(Octets) /\ Len(w) \in 1 .. 63
    BY <2>1 DEF OwnerLabels
  <2>3. \A i \in 1 .. Len(w) : w[i] # 0
    BY <1>2, <2>1
  <2>4. \A i \in 1 .. Len(w) : w[i] \in NonZero
    <3> TAKE i \in 1 .. Len(w)
    <3>1. PICK x : x = w[i] /\ x \in Octets
      BY <2>2, ElementOfSeq
    <3>2. x # 0
      BY <2>3, <3>1
    <3>3. x \in NonZero
      BY <3>1, <3>2 DEF Octets, NonZero
    <3> QED
      BY <3>1, <3>3
  <2>5. PICK n : n = Len(w) /\ n \in Nat
    BY <2>2
  <2>6. w \in [1 .. n -> NonZero]
    <3>1. w = [i \in 1 .. n |-> w[i]]
      BY <2>2, <2>5
    <3> QED
      BY <2>4, <2>5, <3>1
  <2>7. w \in Seq(NonZero)
    BY <2>5, <2>6
  <2>8. PICK a : a = <<Len(w)>>
    OBVIOUS
  <2>9. a \in Seq(NonZero)
    <3>1. \A x \in 1 .. 63 : <<x>> \in Seq(NonZero)
      BY DEF NonZero
    <3> QED
      BY <2>2, <2>8, <3>1, Zenon
  <2>10. a \o w \in Seq(NonZero)
    BY <2>7, <2>9, ConcatProperties
  <2> QED
    BY <2>1, <2>8, <2>10, Zenon DEF SentAs
<1>5. PICK n, A : n = Len(z) /\ n \in Nat /\ A = Seq(NonZero)
  BY <1>1
<1>6. q \in [1 .. n -> A]
  BY <1>3, <1>4, <1>5
<1>7. q \in Seq(A)
  BY <1>5, <1>6
<1>8. q \in Seq(Seq(NonZero))
  BY <1>5, <1>7, Zenon
<1>9. FlattenSeq(q) \in Seq(NonZero)
  BY <1>8, FlattenType
<1> QED
  BY <1>1, <1>3, <1>9, Zenon DEF Labels

(* The name of a zone that signs, as it is sent *)
ZeroEnded(s) ==
    /\ s \in Seq(Octets) /\ Len(s) \in Nat /\ Len(s) >= 1
    /\ s[Len(s)] = 0
    /\ \A i \in 1 .. Len(s) - 1 : s[i] # 0

(* The name of a zone ends in its only zero.                               *)
LEMMA ZoneEnds ==
    ASSUME NEW z \in ZoneNames
    PROVE  \E n \in OwnerNames :
              /\ n.pointer = NoPointer /\ n.labels = z /\ SignerName(z) = Owner(n)
              /\ ZeroEnded(Owner(n)) /\ Len(Owner(n)) = Len(Labels(z)) + 1
<1>1. z \in Seq(OwnerLabels) /\ Labels(z) \in Seq(NonZero)
  BY ZoneLabels
<1>2. PICK n : n = [labels |-> z, pointer |-> NoPointer]
  OBVIOUS
<1>3. n \in OwnerNames /\ n.labels = z /\ n.pointer = NoPointer
  BY <1>1, <1>2 DEF OwnerNames
<1>4. SignerName(z) = Owner(n)
  BY <1>2, Zenon DEF SignerName
<1>5. PICK a, b : a = Labels(z) /\ b = <<0>>
  OBVIOUS
<1>6. PICK s : s = a \o b
  OBVIOUS
<1>7. Owner(n) = s
  <2>1. Ending(n.pointer) = b
    BY <1>3, <1>5 DEF Ending
  <2>2. Owner(n) = Labels(n.labels) \o Ending(n.pointer)
    BY <1>3, OwnerIs, Zenon
  <2> QED
    BY <1>3, <1>5, <1>6, <2>1, <2>2, Zenon
<1>8. s \in Seq(Octets)
  BY <1>3, <1>7, OwnerType, Zenon
<1>9. /\ Len(s) = Len(a) + 1 /\ Len(a) \in Nat
      /\ \A i \in 1 .. Len(a) + 1 : s[i] = IF i <= Len(a) THEN a[i] ELSE b[i - Len(a)]
  <2>1. a \in Seq(Octets)
    BY <1>1, <1>5, LabelsType, Zenon
  <2>2. b \in Seq(Octets) /\ Len(b) = 1
    BY <1>5 DEF Octets
  <2>3. /\ Len(s) = Len(a) + Len(b) /\ Len(a) \in Nat
        /\ \A i \in 1 .. Len(a) + Len(b) : s[i] = IF i <= Len(a) THEN a[i] ELSE b[i - Len(a)]
    BY <1>6, <2>1, <2>2, JoinedParts, Zenon
  <2> QED
    BY <2>2, <2>3, Zenon
<1>10. s[Len(s)] = 0
  BY <1>5, <1>9
<1>11. \A i \in 1 .. Len(s) - 1 : s[i] # 0
  <2> TAKE i \in 1 .. Len(s) - 1
  <2>1. i \in 1 .. Len(a) /\ i \in 1 .. Len(a) + 1 /\ i <= Len(a)
    BY <1>9
  <2>2. PICK x : x = a[i] /\ x \in NonZero
    BY <1>1, <1>5, <2>1, ElementOfSeq
  <2>3. s[i] = x
    BY <1>9, <2>1, <2>2
  <2>4. x # 0
    BY <2>2, NonZeroFact, Zenon
  <2> QED
    BY <2>3, <2>4, Zenon
<1>12. ZeroEnded(s)
  <2>1. Len(s) \in Nat /\ Len(s) >= 1
    BY <1>9
  <2> QED
    BY <1>8, <1>10, <1>11, <2>1, Zenon DEF ZeroEnded
<1>13. Len(Owner(n)) = Len(Labels(z)) + 1
  BY <1>5, <1>7, <1>9, Zenon
<1> QED
  BY <1>3, <1>4, <1>7, <1>12, <1>13, Zenon

(* The least of some numbers *)
LEMMA LeastIs ==
    ASSUME NEW S \in SUBSET Int, NEW m \in S, \A y \in S : m <= y
    PROVE  Min(S) = m
<1>1. PICK c : c = Min(S)
  OBVIOUS
<1>2. c \in S /\ \A y \in S : c <= y
  <2>1. \E u \in S : \A y \in S : u <= y
    OBVIOUS
  <2>2. c = CHOOSE u \in S : \A y \in S : u <= y
    BY <1>1 DEF Min
  <2> QED
    BY <2>1, <2>2, Zenon
<1>3. c <= m /\ m <= c /\ c \in Int /\ m \in Int
  BY <1>2
<1> QED
  BY <1>1, <1>3

(* What is behind the first k of some octets *)
IsRest(s, d, k, n) ==
    /\ s \in Seq(Octets) /\ Len(s) = n
    /\ \A i \in 1 .. n : s[i] = d[k + i]

(* It is what SubSeq cuts out.                                             *)
LEMMA RestIs ==
    \A d \in Seq(Octets), k, n \in Nat :
        k + n <= Len(d) => IsRest(SubSeq(d, k + 1, k + n), d, k, n)
<1> SUFFICES ASSUME NEW d \in Seq(Octets), NEW k \in Nat, NEW n \in Nat, k + n <= Len(d),
                    NEW s, s = SubSeq(d, k + 1, k + n)
             PROVE  IsRest(s, d, k, n)
  BY Zenon
<1>1. PICK a, b : a = k + 1 /\ b = k + n
  OBVIOUS
<1>2. a \in Int /\ b \in Int /\ \A i \in a .. b : d[i] \in Octets
  <2>1. a \in Int /\ b \in Int /\ a >= 1 /\ b <= Len(d)
    BY <1>1
  <2>2. \A i \in a .. b : i \in 1 .. Len(d)
    BY <2>1
  <2> QED
    BY <2>1, <2>2
<1>3. s = SubSeq(d, a, b)
  BY <1>1
<1>4. /\ s \in Seq(Octets) /\ Len(s) = (IF a <= b THEN b - a + 1 ELSE 0)
      /\ \A i \in 1 .. b - a + 1 : s[i] = d[a + i - 1]
  BY <1>2, <1>3, SubSeqProperties
<1>5. Len(s) = n
  BY <1>1, <1>4
<1>6. \A i \in 1 .. n : s[i] = d[k + i]
  <2> TAKE i \in 1 .. n
  <2>1. i \in 1 .. b - a + 1 /\ a + i - 1 = k + i
    BY <1>1
  <2> QED
    BY <1>4, <2>1
<1> QED
  BY <1>4, <1>5, <1>6 DEF IsRest

(* It stands k places further on. *)
LEMMA PartStands ==
    ASSUME NEW r \in Seq(Octets), NEW l \in Nat, NEW d \in Seq(Octets), StandsAt(r, l, d),
           NEW k \in Nat, NEW n \in Nat, k + n <= Len(d),
           NEW s, Len(s) = n, \A i \in 1 .. n : s[i] = d[k + i]
    PROVE  StandsAt(r, l + k, s)
<1>1. l + Len(d) <= Len(r) /\ Len(d) \in Nat /\ Len(r) \in Nat
  BY DEF StandsAt
<1>2. (l + k) + n <= Len(r)
  BY <1>1
<1>3. \A i \in 1 .. n : Octet(r, (l + k) + i - 1) = s[i]
  <2> TAKE i \in 1 .. n
  <2>1. PICK j : j = k + i
    OBVIOUS
  <2>2. j \in 1 .. Len(d) /\ l + j - 1 = (l + k) + i - 1
    BY <1>1, <2>1
  <2>3. Octet(r, l + j - 1) = d[j]
    BY <2>2, Zenon DEF StandsAt
  <2>4. s[i] = d[j]
    BY <2>1
  <2> QED
    BY <2>2, <2>3, <2>4, Zenon
<1> QED
  BY <1>2, <1>3, Zenon DEF StandsAt

(* The data of a signature: where the signer's name ends *)
SignedData(d, z, n, s) ==
    /\ n \in OwnerNames /\ n.pointer = NoPointer /\ n.labels = z /\ s = Owner(n)
    /\ s \in Seq(Octets) /\ Len(s) \in Nat /\ Len(s) >= 1
    /\ Len(s) = Len(Labels(z)) + 1 /\ 18 + Len(s) <= Len(d)
    /\ \A i \in 1 .. Len(s) : s[i] = d[18 + i]
    /\ SignerEnds(d) = 18 + Len(s)

(* The name of the signer ends at the first zero behind the 18 bytes.      *)
LEMMA SignerFound ==
    ASSUME NEW d \in Seq(Octets), NEW z \in ZoneNames, SignedBy(d, z)
    PROVE  \E n, s : SignedData(d, z, n, s)
<1>1. PICK n \in OwnerNames :
          /\ n.pointer = NoPointer /\ n.labels = z /\ SignerName(z) = Owner(n)
          /\ ZeroEnded(Owner(n)) /\ Len(Owner(n)) = Len(Labels(z)) + 1
  BY ZoneEnds
<1>2. PICK s : s = Owner(n)
  OBVIOUS
<1>3. /\ s \in Seq(Octets) /\ Len(s) \in Nat /\ Len(s) >= 1 /\ s[Len(s)] = 0
      /\ \A i \in 1 .. Len(s) - 1 : s[i] # 0
  BY <1>1, <1>2, Zenon DEF ZeroEnded
<1>4. 18 + Len(s) <= Len(d) /\ s = SubSeq(d, 19, 18 + Len(s))
  BY <1>1, <1>2, Zenon DEF SignedBy
<1>5. \A i \in 1 .. Len(s) : s[i] = d[18 + i]
  <2>1. PICK k, m : k = 18 /\ m = Len(s)
    OBVIOUS
  <2>2. k \in Nat /\ m \in Nat /\ k + m <= Len(d) /\ k + 1 = 19
    BY <1>3, <1>4, <2>1
  <2>3. IsRest(SubSeq(d, k + 1, k + m), d, k, m)
    BY <2>2, RestIs, Zenon
  <2>4. \A i \in 1 .. m : s[i] = d[k + i]
    BY <1>4, <2>1, <2>2, <2>3, Zenon DEF IsRest
  <2> QED
    BY <2>1, <2>4, Zenon
<1>6. SignerEnds(d) = 18 + Len(s)
  <2>1. PICK Z, e : Z = {i \in 19 .. Len(d) : d[i] = 0} /\ e = 18 + Len(s)
    OBVIOUS
  <2>2. Len(d) \in Nat
    OBVIOUS
  <2>3. e \in 19 .. Len(d) /\ Len(s) \in 1 .. Len(s)
    BY <1>3, <1>4, <2>1, <2>2
  <2>4. d[e] = 0
    BY <1>3, <1>5, <2>1, <2>3, Zenon
  <2>5. e \in Z /\ Z \in SUBSET Int
    BY <2>1, <2>3, <2>4
  <2>6. \A y \in Z : e <= y
    <3> SUFFICES ASSUME NEW y \in 19 .. Len(d), d[y] = 0, y < e PROVE FALSE
      BY <2>1, <2>3
    <3>1. PICK i : i = y - 18
      OBVIOUS
    <3>2. i \in 1 .. Len(s) - 1 /\ i \in 1 .. Len(s) /\ 18 + i = y
      BY <1>3, <2>1, <3>1
    <3>3. s[i] = d[y] /\ s[i] # 0
      BY <1>3, <1>5, <3>2, Zenon
    <3> QED
      BY <3>3, Zenon
  <2>7. Min(Z) = e
    BY <2>5, <2>6, LeastIs, Zenon
  <2> QED
    BY <2>1, <2>7, Zenon DEF SignerEnds
<1>7. n \in OwnerNames /\ n.pointer = NoPointer /\ n.labels = z
  BY <1>1, Zenon
<1>8. Len(s) = Len(Labels(z)) + 1 /\ 18 + Len(s) <= Len(d)
  BY <1>1, <1>2, <1>4, Zenon
<1>9. SignedData(d, z, n, s)
  BY <1>2, <1>3, <1>5, <1>6, <1>7, <1>8, Zenon DEF SignedData
<1> QED
  BY <1>9, Zenon

(* Where the signature begins, and how long it is.                         *)
LEMMA RemainderFields ==
    ASSUME NEW x, NEW n
    PROVE  Remainder(x, n).from = x.location + 1 /\ Remainder(x, n).length = n - 20 - TextLength(x.text)
  BY DEF Remainder

(* The name of a signer that is not the root begins with a label. *)
LEMMA SignerNamed ==
    ASSUME NEW d, NEW z, NEW n, NEW s, SignedData(d, z, n, s), d[19] # 0
    PROVE  z # <<>>
<1> SUFFICES ASSUME z = <<>> PROVE FALSE
  OBVIOUS
<1>1. /\ n \in OwnerNames /\ n.pointer = NoPointer /\ n.labels = <<>> /\ s = Owner(n)
      /\ Len(s) \in Nat /\ Len(s) >= 1
      /\ \A i \in 1 .. Len(s) : s[i] = d[18 + i]
  BY Zenon DEF SignedData
<1>2. s = Ending(n.pointer) /\ n.pointer \in {NoPointer} \cup PointedTo
  BY <1>1, OwnerEnds, OwnerType, Zenon
<1>3. s[1] = 0
  BY <1>1, <1>2, EndingIs, Zenon
<1>4. 1 \in 1 .. Len(s) /\ 18 + 1 = 19
  BY <1>1
<1>5. s[1] = d[19]
  BY <1>1, <1>4, Zenon
<1> QED
  BY <1>3, <1>5, Zenon

(* The signature that is cut out of a packet, and the one that was sent *)
SignatureIn(r, x) ==
    SubSeq(r, x.from + 1, IF x.length < 0 THEN Len(r) ELSE Min({x.from + x.length, Len(r)}))
SentSignature(d) == SubSeq(d, SignerEnds(d) + 1, Len(d))

(* The signature that is cut out is the one that was sent: as text the name *)
(* of the signer is two characters shorter than its bytes.                 *)
LEMMA SignatureRead ==
    ASSUME NEW r \in Seq(Octets), NEW g \in Nat, NEW d \in Seq(Octets), StandsAt(r, g, d),
           NEW z, NEW n, NEW s, SignedData(d, z, n, s), d[19] # 0,
           NEW sg, sg = recParse(r, g + 18), sg.end = "ok",
           NEW x, x = Remainder(sg, Len(d))
    PROVE  SignatureIn(r, x) = SentSignature(d)
<1>1. /\ n \in OwnerNames /\ n.pointer = NoPointer /\ n.labels = z /\ s = Owner(n)
      /\ s \in Seq(Octets) /\ Len(s) \in Nat /\ Len(s) >= 1
      /\ Len(s) = Len(Labels(z)) + 1 /\ 18 + Len(s) <= Len(d)
      /\ \A i \in 1 .. Len(s) : s[i] = d[18 + i]
      /\ SignerEnds(d) = 18 + Len(s)
  BY Zenon DEF SignedData
<1>2. PICK k, m, p, D, q : k = 18 /\ m = Len(s) /\ p = g + k /\ D = Len(d) /\ q = Len(Labels(z))
  OBVIOUS
<1>3. k \in Nat /\ m \in Nat /\ p \in Nat /\ D \in Nat /\ k + m <= D /\ m = q + 1
  <2>1. D \in Nat
    BY <1>2
  <2>2. k \in Nat /\ p \in Nat
    BY <1>2
  <2> QED
    BY <1>1, <1>2, <2>1, <2>2, Zenon
<1>4. StandsAt(r, p, s)
  <2>1. \A i \in 1 .. m : s[i] = d[k + i]
    BY <1>1, <1>2, Zenon
  <2>2. StandsAt(r, g + k, s)
    <3>1. k + m <= Len(d) /\ Len(s) = m
      BY <1>2, <1>3, Zenon
    <3> QED
      BY <1>3, <2>1, <3>1, PartStands
  <2> QED
    BY <1>2, <2>2, Zenon
<1>5. /\ sg = recParse(r, p) /\ recParse(r, p).end = "ok"
      /\ StandsAt(r, p, Owner(n))
  BY <1>1, <1>2, <1>4, Zenon
<1>6. sg.location = p + (m - 1)
  <2>1. sg.location = p + Over(n)
    <3>1. recParse(r, p).location = p + Over(n)
      BY <1>1, <1>3, <1>5, ParsedName, Zenon
    <3> QED
      BY <1>5, <3>1, Zenon
  <2>2. Over(n) = m - 1
    BY <1>1, <1>2, Zenon DEF Over
  <2> QED
    BY <2>1, <2>2, Zenon
<1>7. sg.text = z
  <2>1. recParse(r, p).text = n.labels
    BY <1>1, <1>3, <1>5, LabelsRead
  <2> QED
    BY <1>1, <1>5, <2>1, Zenon
<1>8. TextLength(sg.text) = q - 1
  <2>1. z \in Seq(OwnerLabels)
    BY <1>1, OwnerType, Zenon
  <2>2. Len(Dotted(z)) = q
    BY <1>2, <2>1, DottedLength, Zenon
  <2>3. TextLength(z) = Len(Dotted(z)) - 1
    BY SignerNamed DEF TextLength
  <2> QED
    BY <1>7, <2>2, <2>3, Zenon
<1>9. x.from = (p + (m - 1)) + 1 /\ x.length = D - 20 - (q - 1)
  BY <1>2, <1>6, <1>8, RemainderFields, Zenon
<1>10. PICK c, t : c = k + m /\ t = D - c
  OBVIOUS
<1>11. /\ c \in Nat /\ t \in Nat /\ c + t = D /\ g + c \in Nat /\ ~ (t < 0)
       /\ (p + (m - 1)) + 1 = g + c /\ D - 20 - (q - 1) = t
  <2>1. q = m - 1
    <3>1. q \in Nat /\ m = q + 1
      BY <1>1, <1>2, <1>3, OwnerType, LabelsType
    <3> QED
      BY <3>1
  <2> QED
    BY <1>2, <1>3, <1>10, <2>1
<1>12. PICK u : u = SubSeq(d, c + 1, c + t)
  OBVIOUS
<1>13. /\ u \in Seq(Octets) /\ Len(u) = t
       /\ \A i \in 1 .. t : u[i] = d[c + i]
  <2>1. c + t <= Len(d)
    BY <1>2, <1>11
  <2>2. IsRest(SubSeq(d, c + 1, c + t), d, c, t)
    BY <1>11, <2>1, RestIs, Zenon
  <2> QED
    BY <1>12, <2>2, Zenon DEF IsRest
<1>14. StandsAt(r, g + c, u)
  <2>1. c + t <= Len(d)
    BY <1>2, <1>11
  <2> QED
    BY <1>11, <1>13, <2>1, PartStands, Zenon
<1>15. SubSeq(r, (g + c) + 1, Min({(g + c) + t, Len(r)})) = u
  BY <1>11, <1>13, <1>14, CutIs, Zenon
<1>16. u = SentSignature(d)
  <2>1. SignerEnds(d) = c
    BY <1>1, <1>2, <1>10, Zenon
  <2> QED
    BY <1>2, <1>11, <1>12, <2>1, Zenon DEF SentSignature
<1>17. x.from = g + c /\ x.length = t
  BY <1>9, <1>11, Zenon
<1> QED
  BY <1>11, <1>15, <1>16, <1>17, Zenon DEF SignatureIn

(* Where the data of a record stands, whose name ends in a pointer *)
LEMMA ReadsData ==
    ASSUME NEW r \in Seq(Octets), NEW l \in Nat, NEW x \in ServerRecords,
           StandsAt(r, l, RecordBytes(x)), NEW f, f = Fixed(r, l), f.name.end = "ok",
           x.name.pointer # NoPointer
    PROVE  f.rdata \in Nat /\ StandsAt(r, f.rdata, x.rdata)
<1>1. PICK m : m = l + Len(Owner(x.name))
  OBVIOUS
<1>2. m \in Nat /\ StandsAt(r, l, Owner(x.name)) /\ StandsAt(r, m + 10, x.rdata)
  BY <1>1, RecordHolds, Zenon
<1>3. x.name \in OwnerNames /\ Owner(x.name) \in Seq(Octets)
  BY RecordParts, Zenon
<1>4. recParse(r, l).end = "ok"
  BY FixedFields, Zenon
<1>5. recParse(r, l).location = l + Over(x.name)
  BY <1>2, <1>3, <1>4, ParsedName, Zenon
<1>6. l + Over(x.name) = m
  <2>1. Len(Owner(x.name)) \in Nat
    BY <1>3
  <2>2. Over(x.name) = Len(Owner(x.name)) - 0
    BY Zenon DEF Over
  <2> QED
    BY <1>1, <2>1, <2>2
<1>7. f.rdata = m + 10
  BY <1>5, <1>6, FixedFields, Zenon
<1>8. m + 10 \in Nat
  BY <1>2
<1> QED
  BY <1>2, <1>7, <1>8, Zenon

(* An address and what follows it, with names that end in pointers, are    *)
(* the first two records of the reply.                                     *)
LEMMA TwoRecords ==
    ASSUME NEW e, NEW st, NEW s, Arrived(e, st, s), AllPointed(s, 2),
           NEW f, f = Fixed(e, st), CanCut(e, f),
           NEW g, g = Fixed(e, f.rdata + f.rdlength), CanRead(e, g)
    PROVE  /\ 1 \in 1 .. Len(s) /\ 2 \in 1 .. Len(s)
           /\ f.rdlength = Len(s[1].rdata) /\ DataRead(e, f) = s[1].rdata
           /\ f.rdata + f.rdlength = RecordAt(st, s, 2)
<1>1. PICK n : n = Len(s) /\ n \in Nat
  BY Standing
<1>2. RecordAt(st, s, 1) = st
  BY Standing
<1>3. CanRead(e, f) /\ f.name.end = "ok"
  BY Zenon DEF CanCut, CanRead
<1>4. n # 0
  <2> SUFFICES ASSUME n = 0 PROVE FALSE
    OBVIOUS
  <2>1. n + 1 = 1
    OBVIOUS
  <2>2. ~ CanRead(e, Fixed(e, RecordAt(st, s, n + 1)))
    BY <1>1, NoMoreRecords, Zenon
  <2> QED
    BY <1>2, <1>3, <2>1, <2>2, Zenon
<1>5. 1 \in 1 .. n /\ 1 \in 1 .. 2 /\ 1 + 1 = 2
  BY <1>1, <1>4
<1>6. AsSent(e, st, s, 1, f)
  BY <1>1, <1>2, <1>3, <1>5, NextRecord, Zenon
<1>7. /\ f.rdlength = Len(s[1].rdata)
      /\ f.rdata + f.rdlength = RecordAt(st, s, 2)
      /\ DataRead(e, f) = s[1].rdata
  <2>1. s[1].name.pointer # NoPointer
    BY <1>5, Zenon DEF AllPointed
  <2> QED
    BY <1>5, <1>6, <2>1, Zenon DEF AsSent, DataRead
<1>8. n # 1
  <2> SUFFICES ASSUME n = 1 PROVE FALSE
    OBVIOUS
  <2>1. n + 1 = 2
    OBVIOUS
  <2>2. ~ CanRead(e, Fixed(e, RecordAt(st, s, n + 1)))
    BY <1>1, NoMoreRecords, Zenon
  <2> QED
    BY <1>7, <2>1, <2>2, Zenon
<1>9. 2 \in 1 .. n
  BY <1>1, <1>4, <1>8
<1> QED
  BY <1>1, <1>5, <1>7, <1>9, Zenon

(* The signature that is the second record                                 *)
LEMMA SecondRecord ==
    ASSUME NEW e, NEW st, NEW s, Arrived(e, st, s), AllPointed(s, 2), 2 \in 1 .. Len(s),
           NEW g, g = Fixed(e, RecordAt(st, s, 2)), CanRead(e, g),
           NEW d, d = s[2].rdata,
           NEW z \in ZoneNames, SignedBy(d, z), d[19] # 0,
           NEW sg, sg = recParse(e, g.rdata + 18), sg.end = "ok",
           NEW x, x = Remainder(sg, g.rdlength)
    PROVE  SignatureIn(e, x) = SentSignature(d)
<1>1. PICK l, y : l = RecordAt(st, s, 2) /\ y = s[2]
  OBVIOUS
<1>2. e \in Seq(Octets) /\ y \in ServerRecords /\ l \in Nat /\ StandsAt(e, l, RecordBytes(y))
  <2>1. \A k \in 1 .. Len(s) :
           /\ s[k] \in ServerRecords
           /\ RecordAt(st, s, k) \in Nat
           /\ StandsAt(e, RecordAt(st, s, k), RecordBytes(s[k]))
    BY Standing
  <2>2. e \in Seq(Octets)
    BY Zenon DEF Arrived
  <2> QED
    BY <1>1, <2>1, <2>2, Zenon
<1>3. y.name.pointer # NoPointer
  <2>1. 2 \in 1 .. 2
    OBVIOUS
  <2> QED
    BY <1>1, <2>1, Zenon DEF AllPointed
<1>4. g = Fixed(e, l) /\ g.name.end = "ok" /\ d = y.rdata
  BY <1>1, Zenon DEF CanRead
<1>5. d \in Seq(Octets)
  BY <1>2, <1>4, RecordParts, Zenon
<1>6. g.rdata \in Nat /\ StandsAt(e, g.rdata, d)
  BY <1>2, <1>3, <1>4, ReadsData, Zenon
<1>7. g.rdlength = Len(d)
  <2>1. AsSent(e, st, s, 2, g)
    BY <1>1, <1>4, NextRecord, Zenon
  <2> QED
    BY <1>1, <1>3, <1>4, <2>1, Zenon DEF AsSent
<1>8. PICK n, u : SignedData(d, z, n, u)
  BY <1>5, SignerFound, Zenon
<1>10. x = Remainder(sg, Len(d))
  BY <1>7, Zenon
<1>11. PICK a : a = g.rdata
  OBVIOUS
<1>12. a \in Nat /\ StandsAt(e, a, d) /\ sg = recParse(e, a + 18)
  BY <1>6, <1>11, Zenon
<1> QED
  BY <1>2, <1>5, <1>8, <1>10, <1>12, SignatureRead

(* What is printed of the records s that stand in the packet e from st on  *)
Printed(e, f, x) ==
    [address |-> IF f.rdlength = 16 THEN <<DataRead(e, f)>> ELSE <<>>,
     name |-> f.name.text,
     signature |-> SignatureIn(e, x)]
RightAnswer(e, st, s) ==
    [address |-> <<s[1].rdata>>,
     name |-> MeantName(e, RecordAt(st, s, 1)).text,
     signature |-> SentSignature(s[2].rdata)]
Answers(e, st, s) ==
    /\ AllPointed(s, 2) /\ Near(MeantName(e, RecordAt(st, s, 1)))
    /\ s[1].type = AAAA /\ s[2].type = RRSIG /\ s[2].rdata[19] # 0

(* The reply's first two records, if they are an address and a signature,  *)
(* are printed as they were sent.                                          *)
LEMMA AnswerPrinted ==
    ASSUME NEW m \in Replies, NEW s, s = AllRecords(m),
           NEW e, NEW st, Arrived(e, st, s), Answers(e, st, s),
           NEW f, f = Fixed(e, st), CanCut(e, f),
           NEW g, g = Fixed(e, f.rdata + f.rdlength), CanRead(e, g),
           NEW sg, sg = recParse(e, g.rdata + 18), sg.end = "ok",
           NEW x, x = Remainder(sg, g.rdlength)
    PROVE  Printed(e, f, x) = RightAnswer(e, st, s)
<1>1. /\ AllPointed(s, 2) /\ Near(MeantName(e, RecordAt(st, s, 1)))
      /\ s[1].type = AAAA /\ s[2].type = RRSIG /\ s[2].rdata[19] # 0
  BY Zenon DEF Answers
<1>2. /\ 1 \in 1 .. Len(s) /\ 2 \in 1 .. Len(s)
      /\ f.rdlength = Len(s[1].rdata) /\ DataRead(e, f) = s[1].rdata
      /\ f.rdata + f.rdlength = RecordAt(st, s, 2)
  BY <1>1, TwoRecords
<1>3. \A k \in 1 .. Len(s) : WellFormed(s[k])
  BY SignedAssumption, Zenon
<1>4. Len(s[1].rdata) = 16
  BY <1>1, <1>2, <1>3, Zenon DEF WellFormed
<1>5. PICK z \in Signers : SignedBy(s[2].rdata, z)
  BY <1>1, <1>2, <1>3, Zenon DEF WellFormed
<1>6. z \in ZoneNames
  BY SignersAssumption
<1>7. SignatureIn(e, x) = SentSignature(s[2].rdata)
  <2>1. PICK d : d = s[2].rdata
    OBVIOUS
  <2>2. g = Fixed(e, RecordAt(st, s, 2))
    BY <1>2, Zenon
  <2>3. SignedBy(d, z) /\ d[19] # 0
    BY <1>1, <1>5, <2>1, Zenon
  <2>4. SignatureIn(e, x) = SentSignature(d)
    BY <1>1, <1>2, <1>6, <2>1, <2>2, <2>3, SecondRecord
  <2> QED
    BY <2>1, <2>4, Zenon
<1>8. f.name.text = MeantName(e, RecordAt(st, s, 1)).text
  <2>1. RecordAt(st, s, 1) = st /\ st \in Nat /\ e \in Seq(Octets)
    BY Standing, Zenon DEF Arrived
  <2>2. f.name = recParse(e, st) /\ recParse(e, st).end = "ok"
    BY FixedFields, Zenon DEF CanCut, CanRead
  <2>3. Near(MeantWalk(e)[MaxHops][st])
    BY <1>1, <2>1, Zenon DEF MeantName
  <2>4. recParse(e, st).text = MeantWalk(e)[MaxHops][st].text
    BY <2>1, <2>2, <2>3, ParsedName, Zenon
  <2> QED
    BY <2>1, <2>2, <2>4, Zenon DEF MeantName
<1>9. Printed(e, f, x) = [address |-> <<s[1].rdata>>, name |-> f.name.text, signature |-> SignatureIn(e, x)]
  <2>1. f.rdlength = 16
    BY <1>2, <1>4, Zenon
  <2> QED
    BY <1>2, <2>1, Zenon DEF Printed
<1> QED
  BY <1>7, <1>8, <1>9, Zenon DEF RightAnswer

(* What successParse() prints *)
LEMMA SuccessParsePrints ==
    ASSUME successParse, outcome' = "exit"
    PROVE  \E f, g, sg, x :
              /\ f = Record /\ CanCut(records, f)
              /\ g = Fixed(records, f.rdata + f.rdlength) /\ CanRead(records, g)
              /\ sg = recParse(records, g.rdata + 18) /\ sg.end = "ok"
              /\ x = Remainder(sg, g.rdlength)
              /\ found' = Printed(records, f, x)
<1>1. PICK f : f = Record
  OBVIOUS
<1>2. PICK g : g = Fixed(records, f.rdata + f.rdlength)
  OBVIOUS
<1>3. PICK sg : sg = recParse(records, g.rdata + 18)
  OBVIOUS
<1>4. PICK x : x = Remainder(sg, g.rdlength)
  OBVIOUS
<1>5. IF CanCut(records, f) /\ CanRead(records, g) /\ sg.end = "ok" /\ Inside(records, x.from)
      THEN /\ found' = [address |-> IF f.rdlength = 16 THEN <<Data(f)>> ELSE <<>>,
                        name |-> f.name.text,
                        signature |-> Signature(x)]
           /\ outcome' = "exit"
      ELSE outcome' = "overrun" /\ UNCHANGED found
  BY <1>1, <1>2, <1>3, <1>4, Zenon DEF successParse
<1>6. "exit" # "overrun"
  OBVIOUS
<1>7. /\ CanCut(records, f) /\ CanRead(records, g) /\ sg.end = "ok"
      /\ found' = [address |-> IF f.rdlength = 16 THEN <<Data(f)>> ELSE <<>>,
                   name |-> f.name.text,
                   signature |-> Signature(x)]
  BY <1>5, <1>6, Zenon
<1>8. found' = Printed(records, f, x)
  BY <1>7, Zenon DEF Printed, Data, DataRead, Signature, SignatureIn
<1> QED
  BY <1>1, <1>2, <1>3, <1>4, <1>7, <1>8

(* The first record is where the parser begins.                            *)
AnswerInv ==
    /\ WireInv
    /\ Alone => reply \in Replies
    /\ Alone /\ outcome \in {"header", "success"} => done = 0
    /\ AnswerIsRight

(* The claim is about what is printed of the first two records.            *)
LEMMA AnswerClaim ==
    ASSUME outcome' = "exit" /\ Alone' /\ Answers(records', FirstRecord', SentRecords')
              => found' = RightAnswer(records', FirstRecord', SentRecords')
    PROVE  AnswerIsRight'
<1>1. PICK e, st, s : e = records' /\ st = FirstRecord' /\ s = SentRecords'
  OBVIOUS
<1>2. Meant(Offset(1))' = MeantName(e, RecordAt(st, s, 1))
  BY <1>1, Zenon DEF Meant, Offset, MeantName, RecordAt, First
<1>3. AllCompressed(2)' <=> AllPointed(s, 2)
  BY <1>1, Zenon DEF AllCompressed, Compressed, AllPointed
<1>4. ASSUME outcome' = "exit", Alone', AllCompressed(2)', \A p \in Meant(Offset(1))'.pointers : p < 64,
             s[1].type = AAAA, s[2].type = RRSIG, s[2].rdata[19] # 0
      PROVE  found' = [address |-> <<s[1].rdata>>,
                       name |-> Meant(Offset(1))'.text,
                       signature |-> SubSeq(s[2].rdata, SignerEnds(s[2].rdata) + 1, Len(s[2].rdata))]
  <2>1. Near(MeantName(e, RecordAt(st, s, 1)))
    BY <1>2, <1>4, Zenon DEF Near
  <2>2. Answers(e, st, s)
    BY <1>3, <1>4, <2>1, Zenon DEF Answers
  <2>3. found' = RightAnswer(e, st, s)
    BY <1>1, <1>4, <2>2, Zenon
  <2> QED
    BY <1>2, <2>3, Zenon DEF RightAnswer, SentSignature
<1> QED
  BY <1>1, <1>4, Zenon DEF AnswerIsRight

(* Nothing has been printed when the parser begins.                        *)
LEMMA AnswerBegins == WireInit => AnswerInv
<1> SUFFICES ASSUME WireInit PROVE AnswerInv
  OBVIOUS
<1>1. outcome = "header" /\ done = 0 /\ reply \in IF numBytes = Len(QNAME(query)) THEN Replies ELSE {FormatError}
  BY Zenon DEF WireInit
<1>2. Alone => reply \in Replies
  BY <1>1 DEF Alone
<1>3. outcome # "exit"
  BY <1>1
<1>4. AnswerIsRight
  BY <1>3, Zenon DEF AnswerIsRight
<1> QED
  BY <1>1, <1>2, <1>4, WireBegins DEF AnswerInv

(* Steps that print nothing *)
LEMMA AnswerNot ==
    ASSUME AnswerInv, Keep, WireInv', outcome' # "exit",
           outcome' \in {"header", "success"} => outcome \in {"header", "success"} /\ done' = done
    PROVE  AnswerInv'
<1>1. (Alone' <=> Alone) /\ reply' = reply
  BY KeptSame
<1>2. Alone' => reply' \in Replies
  BY <1>1, Zenon DEF AnswerInv
<1>3. Alone' /\ outcome' \in {"header", "success"} => done' = 0
  BY <1>1, Zenon DEF AnswerInv
<1>4. AnswerIsRight'
  BY Zenon DEF AnswerIsRight
<1> QED
  BY <1>2, <1>3, <1>4 DEF AnswerInv

(* successParse() prints the first two records.                            *)
LEMMA SuccessParseRight ==
    ASSUME AnswerInv, successParse
    PROVE  AnswerInv'
<1>1. WireInv /\ WireInv'
  BY SuccessParseKeeps DEF AnswerInv
<1>2. /\ Keep /\ outcome = "success"
      /\ outcome' = "exit" \/ outcome' = "overrun"
  BY Zenon DEF successParse
<1>3. /\ Alone' <=> Alone
      /\ reply' = reply /\ records' = records
      /\ FirstRecord' = FirstRecord /\ SentRecords' = SentRecords
  BY <1>2, KeptSame
<1>4. Alone' => reply' \in Replies
  BY <1>3, Zenon DEF AnswerInv
<1>5. outcome' \notin {"header", "success"}
  BY <1>2
<1>6. ASSUME outcome' = "exit", Alone', Answers(records', FirstRecord', SentRecords')
      PROVE  found' = RightAnswer(records', FirstRecord', SentRecords')
  <2>1. PICK m, e, st, s : m = reply /\ e = records /\ st = FirstRecord /\ s = SentRecords
    OBVIOUS
  <2>2. Alone
    BY <1>3, <1>6, Zenon
  <2>3. m \in Replies /\ done = 0
    BY <1>2, <2>1, <2>2 DEF AnswerInv
  <2>4. Arrived(e, st, s)
    BY <1>1, <2>1, <2>2, ReplyIs, Zenon DEF WireInv
  <2>5. location = st
    <3>1. Placed(m, e, st, s, location, 0, servers)
      BY <1>1, <2>1, <2>2, <2>3, Zenon DEF WireInv
    <3>2. AllPointed(s, 0)
      BY PointedParts
    <3>3. location = RecordAt(st, s, 0 + 1)
      BY <3>1, <3>2, Zenon DEF Placed
    <3>4. 0 + 1 = 1
      OBVIOUS
    <3> QED
      BY <2>4, <3>3, <3>4, Standing, Zenon
  <2>6. Answers(e, st, s)
    BY <1>3, <1>6, <2>1, Zenon
  <2>7. s = AllRecords(m)
    BY <2>1, Zenon DEF SentRecords
  <2>8. PICK f, g, sg, x :
           /\ f = Record /\ CanCut(records, f)
           /\ g = Fixed(records, f.rdata + f.rdlength) /\ CanRead(records, g)
           /\ sg = recParse(records, g.rdata + 18) /\ sg.end = "ok"
           /\ x = Remainder(sg, g.rdlength)
           /\ found' = Printed(records, f, x)
    BY <1>6, SuccessParsePrints
  <2>9. /\ f = Fixed(e, st) /\ CanCut(e, f)
        /\ g = Fixed(e, f.rdata + f.rdlength) /\ CanRead(e, g)
        /\ sg = recParse(e, g.rdata + 18) /\ sg.end = "ok"
        /\ found' = Printed(e, f, x)
    BY <2>1, <2>5, <2>8, Zenon DEF Record
  <2>10. Printed(e, f, x) = RightAnswer(e, st, s)
    BY <2>3, <2>4, <2>6, <2>7, <2>8, <2>9, AnswerPrinted
  <2> QED
    BY <1>3, <2>1, <2>9, <2>10, Zenon
<1>7. AnswerIsRight'
  BY <1>6, AnswerClaim, Zenon
<1> QED
  BY <1>1, <1>4, <1>5, <1>7 DEF AnswerInv

(* The invariant is inductive.                                             *)
LEMMA AnswerKeeps == AnswerInv /\ [WireNext]_wireVars => AnswerInv'
<1> SUFFICES ASSUME AnswerInv, [WireNext]_wireVars PROVE AnswerInv'
  OBVIOUS
<1>1. WireInv /\ WireInv'
  BY WireKeeps DEF AnswerInv
<1>2. CASE parse
  <2>1. /\ Keep /\ done' = done /\ outcome = "header"
        /\ outcome' = CASE RCODE = 0 -> IF AA /\ ANCOUNT # 0 THEN "success" ELSE "next"
                        [] RCODE = 1 -> "fatal"
                        [] RCODE = 3 /\ AA /\ ANCOUNT = 0 -> "no such name"
                        [] OTHER -> "returned"
    BY <1>2 DEF parse, Finish
  <2>2. outcome' # "exit"
    BY <2>1
  <2> QED
    BY <1>1, <2>1, <2>2, AnswerNot
<1>3. CASE nextParse
  <2>1. Keep /\ outcome = "next" /\ outcome' = outcome
    BY <1>3 DEF nextParse, Advance
  <2>2. outcome' # "exit" /\ outcome' \notin {"header", "success"}
    BY <2>1
  <2> QED
    BY <1>1, <2>1, <2>2, AnswerNot
<1>4. CASE nextParseAdditional
  <2>1. Keep /\ outcome = "next" /\ outcome' = outcome
    BY <1>4 DEF nextParseAdditional, Advance
  <2>2. outcome' # "exit" /\ outcome' \notin {"header", "success"}
    BY <2>1
  <2> QED
    BY <1>1, <2>1, <2>2, AnswerNot
<1>5. CASE nextParseEnds
  <2>1. Keep /\ outcome' = "returned"
    BY <1>5 DEF nextParseEnds, Finish
  <2>2. outcome' # "exit" /\ outcome' \notin {"header", "success"}
    BY <2>1
  <2> QED
    BY <1>1, <2>1, <2>2, AnswerNot
<1>6. CASE nextParseFails
  <2>1. Keep /\ outcome' = Fault(Record) /\ outcome = "next"
    BY <1>6 DEF nextParseFails, Finish
  <2>2. ASSUME Alone PROVE outcome' \in {"overrun", "loop"}
    <3>1. records \in Seq(Octets) /\ location \in Nat
      BY <1>1, <2>2, ReplyIs, Zenon DEF WireInv, WireTypes
    <3>2. PICK x : x = Record.name
      OBVIOUS
    <3>3. x \in NameRead
      BY <3>1, <3>2, FixedType, Zenon DEF Record
    <3>4. x.end \in {"ok", "overrun", "loop"}
      BY <3>3 DEF NameRead
    <3>5. Fault(Record) = IF x.end = "ok" THEN "overrun" ELSE x.end
      BY <3>2, Zenon DEF Fault
    <3> QED
      BY <2>1, <3>4, <3>5
  <2>3. (Alone' <=> Alone) /\ reply' = reply
    BY <2>1, KeptSame
  <2>4. Alone' => outcome' # "exit" /\ outcome' \notin {"header", "success"} /\ reply' \in Replies
    BY <2>2, <2>3 DEF AnswerInv
  <2>5. AnswerIsRight'
    BY <2>4, Zenon DEF AnswerIsRight
  <2> QED
    BY <1>1, <2>4, <2>5 DEF AnswerInv
<1>7. CASE successParse
  BY <1>7, SuccessParseRight
<1>8. CASE UNCHANGED wireVars
  <2>1. /\ query' = query /\ numBytes' = numBytes /\ queries' = queries /\ reply' = reply
        /\ records' = records /\ done' = done /\ found' = found /\ outcome' = outcome
    BY <1>8 DEF wireVars
  <2>2. Alone' <=> Alone
    BY <2>1, Zenon DEF Alone
  <2>3. SentRecords' = SentRecords /\ Meant(Offset(1))' = Meant(Offset(1))
    BY <2>1, Zenon DEF SentRecords, Meant, Offset, FirstRecord
  <2>4. AllCompressed(2)' <=> AllCompressed(2)
    BY <2>3, Zenon DEF AllCompressed, Compressed
  <2>5. AnswerIsRight'
    BY <2>1, <2>2, <2>3, <2>4, Zenon DEF AnswerInv, AnswerIsRight
  <2> QED
    BY <1>1, <2>1, <2>2, <2>5, Zenon DEF AnswerInv
<1> QED
  BY <1>2, <1>3, <1>4, <1>5, <1>6, <1>7, <1>8 DEF WireNext

(* When the first answer is an address and the next one the signature of a *)
(* zone other than the root, what is printed is that address, its name and *)
(* the whole signature, whatever the records, the addresses, the signers   *)
(* and the lengths of the signatures.                                      *)
THEOREM AnswersCorrect == WireSpec => []AnswerIsRight
<1>1. AnswerInv => AnswerIsRight
  BY DEF AnswerInv
<1> QED
  BY <1>1, AnswerBegins, AnswerKeeps, PTL DEF WireSpec
=============================================================================
