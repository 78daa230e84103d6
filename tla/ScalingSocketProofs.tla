------------------------- MODULE ScalingSocketProofs -------------------------
(***************************************************************************)
(* Proofs about ScalingSocket, for every finite set of objects and every   *)
(* size of the descriptor table.  CountsExact is inductive only together   *)
(* with what objects, counters and the kernel's table know of each other.  *)
(***************************************************************************)
EXTENDS ScalingSocket, TLAPS, FiniteSetTheorems, WellFoundedInduction

Records == [exists : BOOLEAN, type : Types, fd : Fds \cup {None},
            count : Counters \cup {None}]

TypeOK ==
    /\ obj \in [Objects -> Records]
    /\ counts \in [Counters -> Nat]
    /\ table \in [Fds -> Counters \cup {None}]
    /\ allocated \in 0 .. MaxCounters
    /\ crashed \in {"no", "copy", "assign"}

(* What is left of a destroyed object counts nowhere. *)
GoneIsEmpty == \A o \in Objects : ~Live(o) => obj[o] = NoObject

(* new has not given out the counters to come. *)
FreshUnused == \A c \in Counters : c > allocated => counts[c] = 0

(* Who shares a counter shares the descriptor, and it is still theirs: the *)
(* kernel has not given the number to another socket.                      *)
OneDescriptor ==
    \A o, p \in Objects : Counted(o) /\ obj[o].count = obj[p].count => obj[o].fd = obj[p].fd
StillOpen ==
    \A o \in Objects : Counted(o) /\ obj[o].fd # None => table[obj[o].fd] = obj[o].count

(* No socket is open that nobody can close any more. *)
NoLeak ==
    \A f \in Fds : table[f] # None =>
        \E o \in Objects : obj[o].fd = f /\ obj[o].count = table[f]

IInv == /\ TypeOK
        /\ CountsExact
        /\ GoneIsEmpty
        /\ FreshUnused
        /\ OneDescriptor
        /\ StillOpen
        /\ NoLeak
-----------------------------------------------------------------------------
UserCount(f, c) == Cardinality({o \in Objects : f[o].exists /\ f[o].count = c})

(* What one object adds to it *)
Adds(r, c) == IF r.exists /\ r.count = c THEN 1 ELSE 0

(* Changing one object changes a count by what it enters and what it leaves. *)
LEMMA UsersMove ==
    ASSUME NEW f, NEW g, NEW o \in Objects, NEW c,
           \A q \in Objects : q # o => g[q] = f[q]
    PROVE  UserCount(g, c) = UserCount(f, c) + Adds(g[o], c) - Adds(f[o], c)
<1> DEFINE S == {q \in Objects : f[q].exists /\ f[q].count = c}
           T == {q \in Objects : g[q].exists /\ g[q].count = c}
<1>1. S \in SUBSET Objects /\ IsFiniteSet(S) /\ Cardinality(S) \in Nat
  BY ObjectsAssumption, FS_Subset, FS_CardinalityType
<1>2. CASE g[o].exists /\ g[o].count = c
  <2>1. T = S \cup {o}
    BY <1>2
  <2>2. Cardinality(T) = IF o \in S THEN Cardinality(S) ELSE Cardinality(S) + 1
    BY <1>1, <2>1, FS_AddElement
  <2> QED
    BY <1>1, <1>2, <2>2 DEF UserCount, Adds
<1>3. CASE ~(g[o].exists /\ g[o].count = c)
  <2>1. T = S \ {o}
    BY <1>3
  <2>2. Cardinality(T) = IF o \in S THEN Cardinality(S) - 1 ELSE Cardinality(S)
    BY <1>1, <2>1, FS_RemoveElement
  <2> QED
    BY <1>1, <1>3, <2>2 DEF UserCount, Adds
<1> QED
  BY <1>2, <1>3

LEMMA UsersStep ==
    ASSUME NEW o \in Objects, NEW c, \A q \in Objects : q # o => obj'[q] = obj[q]
    PROVE  UserCount(obj', c) = UserCount(obj, c) + Adds(obj'[o], c) - Adds(obj[o], c)
  BY UsersMove, Zenon

LEMMA UsersAreCounted ==
    /\ \A c : Cardinality(Users(c)) = UserCount(obj, c)
    /\ \A c : Cardinality(Users(c)') = UserCount(obj', c)
  BY DEF Users, UserCount, Live

(* The count of an object that has a counter is right, and 1 exactly when  *)
(* nobody shares it.                                                       *)
LEMMA Sharers ==
    ASSUME IInv, NEW o \in Objects, Counted(o)
    PROVE  /\ Live(o) /\ obj[o].count \in Counters /\ obj[o].count <= allocated
           /\ counts[obj[o].count] \in Nat \ {0}
           /\ Last(o) <=> \A p \in Objects : obj[p].count = obj[o].count => p = o
<1> DEFINE c == obj[o].count
<1>1. Live(o) /\ c \in Counters
  BY DEF IInv, TypeOK, Records, GoneIsEmpty, NoObject, Counted
<1>2. o \in Users(c) /\ IsFiniteSet(Users(c)) /\ counts[c] = Cardinality(Users(c))
  <2>1. Users(c) \in SUBSET Objects
    BY DEF Users
  <2>2. IsFiniteSet(Users(c))
    BY <2>1, ObjectsAssumption, FS_Subset
  <2> QED
    BY <1>1, <2>2 DEF IInv, CountsExact, Users
<1>3. counts[c] \in Nat \ {0}
  BY <1>2, FS_CardinalityType, FS_EmptySet
<1>4. c <= allocated
  BY <1>1, <1>3 DEF IInv, FreshUnused, TypeOK, Counters
<1>5. Cardinality(Users(c)) = 1 <=> Users(c) = {o}
  <2>1. Cardinality(Users(c)) = 1 => \E x : Users(c) = {x}
    BY <1>2, FS_Singleton
  <2>2. Cardinality({o}) = 1
    BY FS_Singleton
  <2> QED
    BY <1>2, <2>1, <2>2
<1>6. \A p \in Objects : p \in Users(c) <=> obj[p].count = c
  BY <1>1 DEF Users, IInv, GoneIsEmpty, NoObject, Counters, None, Live
<1>7. Users(c) = {o} <=> \A p \in Objects : obj[p].count = c => p = o
  BY <1>2, <1>6 DEF Users
<1> QED
  BY <1>1, <1>2, <1>3, <1>4, <1>5, <1>7 DEF Last

(* There is no socket: nothing is open, nothing counted. *)
LEMMA InitIInv == Init => IInv
<1> SUFFICES ASSUME Init PROVE IInv
  OBVIOUS
<1>1. TypeOK
  BY BoundsAssumption DEF Init, TypeOK, Records, NoObject, Types, None, Counters
<1>2. CountsExact
  <2>1. \A c : Users(c) = {}
    BY DEF Users, Live, Init, NoObject
  <2>2. Cardinality({}) = 0
    BY FS_EmptySet
  <2> QED
    BY <2>1, <2>2 DEF CountsExact, Init, None
<1>3. GoneIsEmpty /\ FreshUnused
  BY DEF Init, GoneIsEmpty, FreshUnused, None
<1>4. OneDescriptor /\ StillOpen /\ NoLeak
  BY DEF Init, OneDescriptor, StillOpen, NoLeak, Counted, NoObject
<1> QED
  BY <1>1, <1>2, <1>3, <1>4 DEF IInv
-----------------------------------------------------------------------------
(* o lets go of what it holds and becomes x: an object without a counter,  *)
(* or one more user of the counter of another object p.                    *)
LEMMA GivesUp ==
    ASSUME IInv, NEW o \in Objects, NEW x \in Records,
           ~x.exists => x = NoObject,
           x.count = None \/ \E p \in Objects : p # o /\ Counted(p) /\ x = obj[p],
           obj' = [obj EXCEPT ![o] = x],
           counts' = IF x.count = None THEN CountsLeft(o)
                     ELSE [CountsLeft(o) EXCEPT ![x.count] = @ + 1],
           table' = TableLeft(o),
           UNCHANGED <<allocated, crashed>>
    PROVE  IInv'
<1> DEFINE c == obj[o].count
           In(d) == IF d # None /\ x.count = d THEN 1 ELSE 0
           Out(d) == IF d # None /\ obj[o].count = d THEN 1 ELSE 0
<1>1. /\ obj'[o] = x /\ \A q \in Objects : q # o => obj'[q] = obj[q]
      /\ obj' \in [Objects -> Records]
  BY DEF IInv, TypeOK
<1>2. x.count \in Counters \cup {None} /\ obj[o] \in Records
  BY DEF IInv, TypeOK, Records
<1>3. ASSUME Counted(o)
      PROVE  /\ Live(o) /\ c \in Counters /\ counts[c] \in Nat \ {0}
             /\ Last(o) <=> \A q \in Objects : obj[q].count = c => q = o
  BY <1>3, Sharers
<1>4. x.count # None => x.exists
  <2>1. ASSUME NEW p \in Objects, Counted(p), x = obj[p] PROVE x.exists
    BY <2>1, Sharers DEF Live
  <2> QED
    BY <2>1
<1>5. /\ counts' \in [Counters -> Int]
      /\ \A d \in Counters : counts'[d] = counts[d] + In(d) - Out(d)
  <2>1. /\ counts \in [Counters -> Nat] /\ \A d \in Counters : d # None
        /\ None \notin Counters
    BY DEF IInv, TypeOK, Counters, None
  <2>2. /\ CountsLeft(o) \in [Counters -> Int]
        /\ \A d \in Counters : CountsLeft(o)[d] = counts[d] - Out(d)
    BY <1>2, <2>1 DEF CountsLeft, Counted, Records
  <2> HIDE DEF Out
  <2>3. \A d \in Counters : Out(d) \in {0, 1}
    BY DEF Out
  <2>4. CASE x.count = None
    BY <2>1, <2>2, <2>3, <2>4
  <2>5. CASE x.count # None
    BY <1>2, <2>1, <2>2, <2>3, <2>5
  <2> QED
    BY <2>4, <2>5
<1>6. CountsExact'
  <2> SUFFICES ASSUME NEW d \in Counters PROVE counts'[d] = UserCount(obj', d)
    BY UsersAreCounted DEF CountsExact
  <2>1. d # None
    BY DEF Counters, None
  <2>2. UserCount(obj', d) = UserCount(obj, d) + Adds(x, d) - Adds(obj[o], d)
    <3>1. \A q \in Objects : q # o => obj'[q] = obj[q]
      BY <1>1
    <3>2. UserCount(obj', d) = UserCount(obj, d) + Adds(obj'[o], d) - Adds(obj[o], d)
      BY <3>1, UsersStep, Zenon
    <3> QED
      BY <1>1, <3>2
  <2>3. counts[d] = UserCount(obj, d)
    BY UsersAreCounted DEF IInv, CountsExact
  <2>4. counts'[d] = counts[d] + In(d) - Out(d)
    BY <1>5
  <2>5. In(d) = Adds(x, d)
    BY <1>4, <2>1 DEF Adds
  <2>6. Out(d) = Adds(obj[o], d)
    BY <1>3, <2>1 DEF Adds, Counted, Live
  <2> QED
    BY <2>2, <2>3, <2>4, <2>5, <2>6
<1>7. TypeOK'
  <2>1. counts' \in [Counters -> Nat]
    <3>1. \A d : Out(d) \in {0, 1} /\ In(d) \in {0, 1}
      OBVIOUS
    <3>2. \A d \in Counters : counts[d] \in Nat /\ (Out(d) = 1 => counts[d] # 0)
      BY <1>3 DEF Counted, IInv, TypeOK
    <3> HIDE DEF In, Out
    <3> QED
      BY <1>5, <3>1, <3>2
  <2>2. table' \in [Fds -> Counters \cup {None}]
    BY DEF TableLeft, IInv, TypeOK
  <2> QED
    BY <1>1, <2>1, <2>2 DEF IInv, TypeOK
<1>8. GoneIsEmpty'
  BY <1>1 DEF IInv, GoneIsEmpty, Live
<1>9. FreshUnused'
  <2>1. ASSUME NEW d \in Counters, d > allocated PROVE In(d) = 0 /\ Out(d) = 0
    <3>1. ASSUME NEW p \in Objects, Counted(p) PROVE obj[p].count # d
      BY <2>1, <3>1, Sharers DEF Counters, IInv, TypeOK
    <3> QED
      BY <3>1 DEF Counted
  <2> HIDE DEF In, Out
  <2> QED
    BY <1>5, <2>1 DEF IInv, FreshUnused
<1>10. \A q \in Objects : \/ obj'[q].count = None
                          \/ \E p \in Objects : p # o /\ obj'[q] = obj[p]
  BY <1>1
<1>11. OneDescriptor'
  BY <1>10 DEF IInv, OneDescriptor, Counted
<1>12. \A f \in Fds : table'[f] = IF Last(o) /\ f = obj[o].fd THEN None ELSE table[f]
  BY DEF TableLeft
<1>13. StillOpen'
  <2>1. ASSUME NEW p \in Objects, p # o, Counted(p), obj[p].fd # None
        PROVE  table'[obj[p].fd] = obj[p].count
    <3>1. table[obj[p].fd] = obj[p].count /\ obj[p].fd \in Fds
      BY <2>1 DEF IInv, StillOpen, TypeOK, Records
    <3>2. ~(Last(o) /\ obj[p].fd = obj[o].fd)
      <4> SUFFICES ASSUME Last(o), obj[p].fd = obj[o].fd PROVE FALSE
        OBVIOUS
      <4>1. Counted(o)
        BY DEF Last
      <4>2. table[obj[o].fd] = obj[o].count
        BY <2>1, <4>1 DEF IInv, StillOpen
      <4> QED
        BY <1>3, <2>1, <3>1, <4>1, <4>2
    <3> QED
      BY <1>12, <3>1, <3>2
  <2> QED
    BY <1>10, <2>1 DEF StillOpen, Counted
<1>14. NoLeak'
  <2> SUFFICES ASSUME NEW f \in Fds, table'[f] # None
               PROVE  \E q \in Objects : obj'[q].fd = f /\ obj'[q].count = table'[f]
    BY DEF NoLeak
  <2>1. table'[f] = table[f] /\ ~(Last(o) /\ f = obj[o].fd)
    BY <1>12
  <2>2. PICK w \in Objects : obj[w].fd = f /\ obj[w].count = table[f]
    BY <2>1 DEF IInv, NoLeak
  <2>3. CASE w # o
    BY <1>1, <2>1, <2>2, <2>3
  <2>4. CASE w = o
    <3>1. Counted(o) /\ ~Last(o)
      BY <2>1, <2>2, <2>4 DEF Counted
    <3>2. PICK p \in Objects : obj[p].count = c /\ p # o
      BY <1>3, <3>1
    <3>3. obj[p].fd = f
      BY <2>2, <2>4, <3>1, <3>2 DEF IInv, OneDescriptor
    <3> QED
      BY <1>1, <2>1, <2>2, <2>4, <3>2, <3>3
  <2> QED
    BY <2>3, <2>4
<1> QED
  BY <1>6, <1>7, <1>8, <1>9, <1>11, <1>13, <1>14 DEF IInv

(* o gets a counter of its own, and a socket unless accept() failed. *)
LEMMA GetsNew ==
    ASSUME IInv, NEW o \in Objects, ~Live(o), NewCount,
           NEW t \in Types, NEW f \in FreeFds \cup {None},
           obj' = [obj EXCEPT ![o] = Made(t, f, allocated + 1)],
           table' = IF f = None THEN table ELSE [table EXCEPT ![f] = allocated + 1],
           UNCHANGED crashed
    PROVE  IInv'
<1> DEFINE n == allocated + 1
           x == Made(t, f, n)
<1>1. /\ n \in Counters /\ allocated' = n /\ counts[n] = 0 /\ n # None
      /\ counts' = [counts EXCEPT ![n] = 1]
  BY BoundsAssumption DEF NewCount, IInv, TypeOK, Counters, FreshUnused, None
<1>2. /\ obj'[o] = x /\ \A q \in Objects : q # o => obj'[q] = obj[q]
      /\ x.exists /\ x.count = n /\ x.fd = f /\ obj[o] = NoObject
  BY DEF IInv, TypeOK, Made, GoneIsEmpty
<1>3. TypeOK'
  <2>1. f \in Fds \cup {None}
    BY DEF FreeFds
  <2>2. obj' \in [Objects -> Records]
    BY <1>1, <2>1 DEF Made, IInv, TypeOK, Records
  <2>3. table' \in [Fds -> Counters \cup {None}]
    BY <1>1, <2>1 DEF IInv, TypeOK
  <2>4. allocated' \in 0 .. MaxCounters
    BY <1>1, BoundsAssumption DEF Counters
  <2> QED
    BY <1>1, <2>2, <2>3, <2>4 DEF IInv, TypeOK
<1>4. \A q \in Objects : obj[q].count # n
  <2>1. ASSUME NEW q \in Objects, Counted(q) PROVE obj[q].count # n
    BY <2>1, Sharers DEF IInv, TypeOK, Counters
  <2> QED
    BY <1>1, <2>1 DEF Counted
<1>5. CountsExact'
  <2> SUFFICES ASSUME NEW d \in Counters PROVE counts'[d] = UserCount(obj', d)
    BY UsersAreCounted DEF CountsExact
  <2>1. UserCount(obj', d) = UserCount(obj, d) + Adds(x, d) - Adds(obj[o], d)
    <3>1. \A q \in Objects : q # o => obj'[q] = obj[q]
      BY <1>2
    <3>2. UserCount(obj', d) = UserCount(obj, d) + Adds(obj'[o], d) - Adds(obj[o], d)
      BY <3>1, UsersStep, Zenon
    <3> QED
      BY <1>2, <3>2
  <2>2. counts[d] = UserCount(obj, d) /\ counts[d] \in Nat
    BY UsersAreCounted DEF IInv, TypeOK, CountsExact
  <2>3. Adds(obj[o], d) = 0 /\ Adds(x, d) = IF d = n THEN 1 ELSE 0
    BY <1>2 DEF Adds, NoObject
  <2>4. counts'[d] = IF d = n THEN 1 ELSE counts[d]
    BY <1>1 DEF IInv, TypeOK
  <2> QED
    BY <1>1, <2>1, <2>2, <2>3, <2>4
<1>6. GoneIsEmpty'
  BY <1>2 DEF IInv, GoneIsEmpty, Live
<1>7. FreshUnused'
  BY <1>1 DEF IInv, TypeOK, FreshUnused, Counters
<1>8. OneDescriptor'
  BY <1>2, <1>4 DEF IInv, OneDescriptor, Counted
<1>9. \A g \in Fds : table'[g] = IF g = f THEN n ELSE table[g]
  BY DEF IInv, TypeOK, Fds, None
<1>10. f # None => f \in Fds /\ table[f] = None
  BY DEF FreeFds
<1>11. StillOpen'
  <2> SUFFICES ASSUME NEW q \in Objects, obj'[q].count # None, obj'[q].fd # None
               PROVE  table'[obj'[q].fd] = obj'[q].count
    BY DEF StillOpen, Counted
  <2>1. CASE q = o
    BY <1>2, <1>9, <1>10, <2>1
  <2>2. CASE q # o
    <3>1. table[obj[q].fd] = obj[q].count /\ obj[q].fd \in Fds /\ obj[q].count # None
      BY <1>2, <2>2 DEF IInv, StillOpen, TypeOK, Records, Counted
    <3> QED
      BY <1>2, <1>9, <1>10, <2>2, <3>1
  <2> QED
    BY <2>1, <2>2
<1>12. NoLeak'
  <2> SUFFICES ASSUME NEW g \in Fds, table'[g] # None
               PROVE  \E q \in Objects : obj'[q].fd = g /\ obj'[q].count = table'[g]
    BY DEF NoLeak
  <2>1. CASE g = f
    BY <1>2, <1>9, <2>1
  <2>2. CASE g # f
    <3>1. table'[g] = table[g]
      BY <1>9, <2>2
    <3>2. PICK w \in Objects : obj[w].fd = g /\ obj[w].count = table[g]
      BY <3>1 DEF IInv, NoLeak
    <3>3. w # o
      BY <1>2, <3>1, <3>2 DEF NoObject
    <3> QED
      BY <1>2, <3>1, <3>2, <3>3
  <2> QED
    BY <2>1, <2>2
<1> QED
  BY <1>3, <1>5, <1>6, <1>7, <1>8, <1>11, <1>12 DEF IInv

(* The lowest free descriptor is a free one. *)
LEMMA LowestIsFree == FreeFds # {} => Lowest \in FreeFds
<1> SUFFICES ASSUME FreeFds # {} PROVE Lowest \in FreeFds
  OBVIOUS
<1>1. \E f \in FreeFds : \A g \in FreeFds : f <= g
  <2>1. FreeFds \subseteq Nat
    BY DEF FreeFds, Fds
  <2>2. PICK f \in FreeFds : \A g \in FreeFds : ~ (<<g, f>> \in OpToRel(<, Nat))
    BY <2>1, NatLessThanWellFounded, WFMin, Zenon
  <2>3. \A g \in FreeFds : ~ (g < f)
    BY <2>1, <2>2 DEF OpToRel
  <2> QED
    BY <2>1, <2>3
<1> QED
  BY <1>1 DEF Lowest
-----------------------------------------------------------------------------
(* An operation that counts nothing fills a free variable. *)
LEMMA FillStep ==
    ASSUME IInv, NEW o \in Objects, ~Live(o), NEW t \in Types, NEW f \in Fds \cup {None},
           obj' = [obj EXCEPT ![o] = Made(t, f, None)],
           UNCHANGED <<counts, table, allocated, crashed>>
    PROVE  IInv'
<1>1. /\ Made(t, f, None) \in Records /\ Made(t, f, None).exists
      /\ Made(t, f, None).count = None
  BY DEF Made, Records
<1>2. ~Counted(o)
  BY DEF IInv, GoneIsEmpty, NoObject, Counted
<1>3. counts' = CountsLeft(o) /\ table' = TableLeft(o)
  BY <1>2 DEF CountsLeft, TableLeft, Last
<1> QED
  BY <1>1, <1>3, GivesUp

(* An operation that opens a socket, or takes accept()'s -1 for one *)
LEMMA NewStep ==
    ASSUME IInv, NEW o \in Objects, NEW t \in Types,
           Opens(o, t) \/ (t = "client" /\ \E s \in Objects : Accept(s, o) \/ AcceptFails(s, o))
    PROVE  IInv'
<1>1. CASE \/ Opens(o, t)
           \/ t = "client" /\ \E s \in Objects : Accept(s, o)
  <2>1. /\ ~Live(o) /\ NewCount /\ FreeFds # {}
        /\ obj' = [obj EXCEPT ![o] = Made(t, Lowest, allocated + 1)]
        /\ table' = [table EXCEPT ![Lowest] = allocated + 1]
        /\ UNCHANGED crashed
    BY <1>1 DEF Opens, Accept
  <2>2. Lowest \in FreeFds \cup {None} /\ Lowest # None
    BY <2>1, LowestIsFree DEF FreeFds, Fds, None
  <2> QED
    BY <2>1, <2>2, GetsNew
<1>2. CASE t = "client" /\ \E s \in Objects : AcceptFails(s, o)
  <2>1. /\ ~Live(o) /\ NewCount /\ UNCHANGED <<table, crashed>>
        /\ obj' = [obj EXCEPT ![o] = Made(t, None, allocated + 1)]
    BY <1>2 DEF AcceptFails
  <2> QED
    BY <2>1, GetsNew
<1> QED
  BY <1>1, <1>2

LEMMA CopyStep ==
    ASSUME IInv, NEW o \in Objects, NEW p \in Objects, Copy(o, p)
    PROVE  IInv'
<1>1. ~Counted(o) /\ p # o /\ Counted(p)
  BY DEF Copy, IInv, GoneIsEmpty, NoObject, Counted, Live
<1>2. counts' = [CountsLeft(o) EXCEPT ![obj[p].count] = @ + 1] /\ table' = TableLeft(o)
  BY <1>1 DEF Copy, CountsLeft, TableLeft, Last
<1>3. obj[p] \in Records /\ obj[p].exists /\ obj[p].count # None
  BY <1>1 DEF Copy, IInv, TypeOK, Live, Counted
<1> QED
  BY <1>1, <1>2, <1>3, GivesUp DEF Copy

LEMMA DestroyStep ==
    ASSUME IInv, NEW o \in Objects, Destroy(o)
    PROVE  IInv'
<1>1. NoObject \in Records /\ NoObject.count = None
  BY DEF NoObject, Records, Types, None
<1> QED
  BY <1>1, GivesUp DEF Destroy

(* A step that changes no object, no counter and no descriptor *)
LEMMA IdleStep ==
    ASSUME IInv, UNCHANGED <<obj, counts, table, allocated>>,
           crashed' \in {"no", "copy", "assign"}
    PROVE  IInv'
  BY DEF IInv, TypeOK, Live, Counted, CountsExact, Users, GoneIsEmpty, FreshUnused,
    OneDescriptor, StillOpen, NoLeak

(* o = o leaves everything as it was, unless o was the last. *)
LEMMA AssignStep ==
    ASSUME IInv, NEW o \in Objects, NEW p \in Objects, Assign(o, p)
    PROVE  IInv'
<1>1. Counted(p) /\ obj[p] \in Records /\ obj[p].exists /\ obj[p].count # None
  BY DEF Assign, Survives, IInv, TypeOK, Live, Counted
<1>2. CASE p # o
  BY <1>1, <1>2, GivesUp DEF Assign
<1>3. CASE p = o
  <2>1. ~Last(o) /\ obj[o].count \in Counters /\ counts[obj[o].count] \in Nat
    BY <1>1, <1>3, Sharers DEF Assign, Survives
  <2>2. obj' = obj /\ table' = table
    BY <1>3, <2>1 DEF Assign, TableLeft, IInv, TypeOK
  <2>3. counts' = counts
    BY <1>1, <1>3, <2>1 DEF Assign, CountsLeft, IInv, TypeOK
  <2> QED
    BY <2>2, <2>3, IdleStep DEF Assign, IInv, TypeOK
<1> QED
  BY <1>2, <1>3

LEMMA NextIInv == IInv /\ [Next]_vars => IInv'
<1> SUFFICES ASSUME IInv, [Next]_vars PROVE IInv'
  OBVIOUS
<1>1. CASE UNCHANGED vars
  BY <1>1, IdleStep DEF vars, IInv, TypeOK
<1>2. CASE Next
  <2>1. PICK o \in Objects :
          \/ Construct(o) \/ Opens(o, "server") \/ Opens(o, "client")
          \/ ServerFails(o) \/ ClientFails(o) \/ Destroy(o)
          \/ \E p \in Objects :
              \/ Accept(p, o) \/ AcceptFails(p, o) \/ AcceptRefuses(p, o)
              \/ Copy(o, p) \/ CopyCrashes(o, p)
              \/ Assign(o, p) \/ AssignCrashes(o, p)
    BY <1>2 DEF Next
  <2>2. CASE Opens(o, "server") \/ Opens(o, "client")
    BY <2>2, NewStep DEF Types
  <2>3. CASE \E p \in Objects : Accept(p, o) \/ AcceptFails(p, o)
    BY <2>3, NewStep DEF Types
  <2>4. CASE Construct(o) \/ ServerFails(o) \/ \E p \in Objects : AcceptRefuses(p, o)
    BY <2>4, FillStep DEF Construct, ServerFails, AcceptRefuses, Empty, Types
  <2>5. CASE ClientFails(o)
    <3>1. Tried \in Fds \cup {None}
      BY LowestIsFree DEF Tried, FreeFds
    <3> QED
      BY <2>5, <3>1, FillStep DEF ClientFails, Types
  <2>6. CASE Destroy(o)
    BY <2>6, DestroyStep
  <2>7. CASE \E p \in Objects : Copy(o, p)
    BY <2>7, CopyStep
  <2>8. CASE \E p \in Objects : Assign(o, p)
    BY <2>8, AssignStep
  <2>9. CASE \E p \in Objects : CopyCrashes(o, p) \/ AssignCrashes(o, p)
    BY <2>9, IdleStep DEF CopyCrashes, AssignCrashes, Crash
  <2> QED
    BY <2>1, <2>2, <2>3, <2>4, <2>5, <2>6, <2>7, <2>8, <2>9
<1> QED
  BY <1>1, <1>2

LEMMA SpecIInv == Spec => []IInv
<1>1. Init => IInv
  BY InitIInv
<1>2. IInv /\ [Next]_vars => IInv'
  BY NextIInv
<1> QED
  BY <1>1, <1>2, PTL DEF Spec
-----------------------------------------------------------------------------
(* *_count is the number of objects that share the counter, and no         *)
(* operation uses it after delete.                                         *)
THEOREM CountsCorrect == Spec => []CountsExact
<1>1. IInv => CountsExact
  BY DEF IInv
<1> QED
  BY <1>1, SpecIInv, PTL

(* Objects that share a counter share the descriptor, which is still their *)
(* own socket and not one that was given the number later: ~Socket never   *)
(* closes a stranger's.                                                    *)
THEOREM DescriptorIsOwn == Spec => [](OneDescriptor /\ StillOpen)
<1>1. IInv => OneDescriptor /\ StillOpen
  BY DEF IInv
<1> QED
  BY <1>1, SpecIInv, PTL
-----------------------------------------------------------------------------
(* What is open is what some object holds, which is what StillOpen and     *)
(* NoLeak say together.                                                    *)
OpenIsHeld == {table[f] : f \in Fds} \ {None} = {Held(o) : o \in Objects} \ {None}

LEMMA OpenAndHeld == IInv => OpenIsHeld
<1> SUFFICES ASSUME IInv PROVE OpenIsHeld
  OBVIOUS
<1>1. ASSUME NEW f \in Fds, table[f] # None
      PROVE  \E o \in Objects : Held(o) = table[f]
  <2>1. PICK o \in Objects : obj[o].fd = f /\ obj[o].count = table[f]
    BY <1>1 DEF IInv, NoLeak
  <2>2. Counted(o) /\ obj[o].fd # None
    BY <1>1, <2>1 DEF Counted, Fds, None
  <2> QED
    BY <2>1, <2>2, Sharers DEF Held
<1>2. ASSUME NEW o \in Objects, Held(o) # None
      PROVE  \E f \in Fds : table[f] = Held(o)
  <2>1. Counted(o) /\ obj[o].fd \in Fds /\ Held(o) = obj[o].count
    BY <1>2 DEF Held, Counted, IInv, TypeOK, Records
  <2> QED
    BY <1>2, <2>1 DEF IInv, StillOpen, Fds, None
<1> QED
  BY <1>1, <1>2 DEF OpenIsHeld

(* Every operation changes one object at most. *)
LEMMA OneAtATime ==
    ASSUME IInv, Next
    PROVE  \E o \in Objects : \A q \in Objects : q # o => obj'[q] = obj[q]
<1>1. PICK o \in Objects :
        \/ Construct(o) \/ Opens(o, "server") \/ Opens(o, "client")
        \/ ServerFails(o) \/ ClientFails(o) \/ Destroy(o)
        \/ \E p \in Objects :
            \/ Accept(p, o) \/ AcceptFails(p, o) \/ AcceptRefuses(p, o)
            \/ Copy(o, p) \/ CopyCrashes(o, p)
            \/ Assign(o, p) \/ AssignCrashes(o, p)
  BY DEF Next
<1>2. (\E x : obj' = [obj EXCEPT ![o] = x]) \/ obj' = obj
  BY <1>1 DEF Construct, Opens, ServerFails, ClientFails, Destroy, Accept, AcceptFails,
    AcceptRefuses, Copy, CopyCrashes, Assign, AssignCrashes, Crash
<1> QED
  BY <1>2 DEF IInv, TypeOK

(* A step is one object taking what it then holds, in the abstract module. *)
LEMMA StepIsTake ==
    ASSUME IInv, IInv', OpenIsHeld', Next
    PROVE  Shared!Next
<1>1. PICK o \in Objects : \A q \in Objects : q # o => obj'[q] = obj[q]
  BY OneAtATime
<1>2. PICK k \in Counters \cup {None} : k = Held(o)'
  BY DEF IInv, TypeOK, Records, Held
<1>3. \A q \in Objects : q # o => Held(q)' = Held(q)
  BY <1>1 DEF Held, Live
<1>4. [q \in Objects |-> Held(q)]' = [[q \in Objects |-> Held(q)] EXCEPT ![o] = k]
  BY <1>2, <1>3
<1>5. ({table[f] : f \in Fds} \ {None})' = {[q \in Objects |-> Held(q)]'[p] : p \in Objects} \ {None}
  BY DEF OpenIsHeld, Held, Live
<1>6. Shared!Take(o, k)
  BY <1>4, <1>5 DEF Shared!Take
<1> QED
  BY <1>6 DEF Shared!Next

(* A descriptor is closed when the last object that holds it lets go of it *)
(* and only then (Socket.cpp:551).                                         *)
THEOREM ImplementsSharedDescriptor == Spec => SharesDescriptors
<1>1. Init => Shared!Init
  BY DEF Init, Shared!Init, Held, Live, NoObject
<1>2. IInv /\ IInv' /\ OpenIsHeld' /\ [Next]_vars =>
        [Shared!Next]_<<[o \in Objects |-> Held(o)], {table[f] : f \in Fds} \ {None}>>
  <2>1. CASE UNCHANGED vars
    BY <2>1 DEF vars, Held, Live
  <2> QED
    BY <2>1, StepIsTake
<1> QED
  BY <1>1, <1>2, SpecIInv, OpenAndHeld, PTL DEF Spec, SharesDescriptors, Shared!Spec
=============================================================================
