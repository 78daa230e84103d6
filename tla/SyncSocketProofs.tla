-------------------------- MODULE SyncSocketProofs --------------------------
(***************************************************************************)
(* Proofs about SyncSocket, for every finite set of objects and every size *)
(* of the descriptor table.  connect() and operator= first let go of one   *)
(* socket and then take another; the invariant is therefore an operator    *)
(* that also says what holds between the two halves.                       *)
(***************************************************************************)
EXTENDS SyncSocket, TLAPS, FiniteSetTheorems, WellFoundedInduction

Records == [exists : BOOLEAN, conn : BOOLEAN, fd : Fds \cup {None},
            refs : Sockets \cup {None}, src : Sockets \cup {None}]

TypeOK ==
    /\ obj \in [Objects -> Records]
    /\ refs \in [Sockets -> Nat]
    /\ table \in [Fds -> Sockets \cup {None}]
    /\ buffers \in SUBSET Sockets
    /\ opened \in 0 .. MaxSockets
    /\ hollow \in SUBSET Sockets
    /\ spoilt \in BOOLEAN

UserCount(b, k) == Cardinality({o \in Objects : b[o].conn /\ b[o].refs = k})

(* A connected object has a counter, and no descriptor only if its counter *)
(* is one of h, which were made for none.                                  *)
Attached(b, h) ==
    \A o \in Objects : b[o].conn => /\ b[o].exists /\ b[o].refs # None
                                    /\ b[o].fd = None <=> b[o].refs \in h

(* Of objects b, counters r, the kernel's table t, and n counters made:    *)
Typed(b, r, t, n, h) ==
    /\ b \in [Objects -> Records] /\ r \in [Sockets -> Nat]
    /\ t \in [Fds -> Sockets \cup {None}]
    /\ n \in 0 .. MaxSockets
    /\ h \in SUBSET Sockets /\ \A k \in h : k <= n
    /\ Attached(b, h)

(* a counter is the number of its users, and those to come have none; *)
Counted(b, r) == \A k \in Sockets : r[k] = UserCount(b, k)
Fresh(r, n) == \A k \in Sockets : k > n => r[k] = 0

(* who shares a counter shares the descriptor, and it is still theirs; *)
OneFd(b) ==
    \A o, p \in Objects :
        b[o].conn /\ b[p].conn /\ b[o].refs = b[p].refs => b[o].fd = b[p].fd
StillOpen(b, t) == \A o \in Objects : b[o].conn /\ b[o].fd # None => t[b[o].fd] = b[o].refs

(* and no socket is open that nobody can close any more. *)
NoLeak(b, t) ==
    \A f \in Fds : t[f] # None =>
        \E o \in Objects : b[o].conn /\ b[o].fd = f /\ b[o].refs = t[f]

Sound(b, r, t, n, h) ==
    /\ Typed(b, r, t, n, h)
    /\ Counted(b, r)
    /\ Fresh(r, n)
    /\ OneFd(b)
    /\ StillOpen(b, t)
    /\ NoLeak(b, t)

(* The address buffers a are those of the UDP objects: an object has       *)
(* that of its own socket or none, and who shares the socket shares it.    *)
OwnSrc(b, a) ==
    /\ \A o \in Objects : b[o].conn => b[o].src \in {None, b[o].refs}
    /\ \A o \in Objects : ~b[o].conn => b[o].src = None
    /\ \A o, p \in Objects :
          b[o].conn /\ b[p].conn /\ b[o].refs = b[p].refs => b[o].src = b[p].src
    /\ a = {b[o].src : o \in {p \in Objects : b[p].conn}} \ {None}

OpenIsHeld == {table[f] : f \in Fds} \ {None} = {Holds(o) : o \in Objects} \ {None}

IInv == /\ TypeOK
        /\ OpenIsHeld
        /\ spoilt \/ (Sound(obj, refs, table, opened, hollow) /\ OwnSrc(obj, buffers))
-----------------------------------------------------------------------------
(* What one object adds to a count *)
Adds(x, k) == IF x.conn /\ x.refs = k THEN 1 ELSE 0

LEMMA UsersMove ==
    ASSUME NEW b, NEW g, NEW o \in Objects, NEW k,
           \A q \in Objects : q # o => g[q] = b[q]
    PROVE  UserCount(g, k) = UserCount(b, k) + Adds(g[o], k) - Adds(b[o], k)
<1> DEFINE S == {q \in Objects : b[q].conn /\ b[q].refs = k}
           T == {q \in Objects : g[q].conn /\ g[q].refs = k}
<1>1. S \in SUBSET Objects /\ IsFiniteSet(S) /\ Cardinality(S) \in Nat
  BY ObjectsAssumption, FS_Subset, FS_CardinalityType
<1>2. CASE g[o].conn /\ g[o].refs = k
  <2>1. T = S \cup {o}
    BY <1>2
  <2>2. Cardinality(T) = IF o \in S THEN Cardinality(S) ELSE Cardinality(S) + 1
    BY <1>1, <2>1, FS_AddElement
  <2> QED
    BY <1>1, <1>2, <2>2 DEF UserCount, Adds
<1>3. CASE ~(g[o].conn /\ g[o].refs = k)
  <2>1. T = S \ {o}
    BY <1>3
  <2>2. Cardinality(T) = IF o \in S THEN Cardinality(S) - 1 ELSE Cardinality(S)
    BY <1>1, <2>1, FS_RemoveElement
  <2> QED
    BY <1>1, <1>3, <2>2 DEF UserCount, Adds
<1> QED
  BY <1>2, <1>3

(* A counter in use is right, and 1 exactly when nobody shares it. *)
LEMMA Sharers ==
    ASSUME NEW b, NEW r, NEW t, NEW n, NEW h, Sound(b, r, t, n, h), NEW o \in Objects, b[o].conn
    PROVE  /\ b[o].refs \in Sockets /\ b[o].refs <= n
           /\ b[o].fd # None => b[o].fd \in Fds
           /\ r[b[o].refs] \in Nat \ {0}
           /\ r[b[o].refs] = 1 <=>
                \A p \in Objects : b[p].conn /\ b[p].refs = b[o].refs => p = o
<1> DEFINE k == b[o].refs
           U == {p \in Objects : b[p].conn /\ b[p].refs = k}
<1>1. k \in Sockets /\ (b[o].fd # None => b[o].fd \in Fds)
  BY DEF Sound, Typed, Attached, Records
<1>2. o \in U /\ IsFiniteSet(U) /\ r[k] = Cardinality(U)
  <2>1. U \in SUBSET Objects
    OBVIOUS
  <2>2. IsFiniteSet(U)
    BY <2>1, ObjectsAssumption, FS_Subset
  <2> QED
    BY <1>1, <2>2 DEF Sound, Counted, UserCount
<1>3. r[k] \in Nat \ {0}
  BY <1>2, FS_CardinalityType, FS_EmptySet
<1>4. k <= n
  BY <1>1, <1>3 DEF Sound, Fresh, Typed, Sockets
<1>5. Cardinality(U) = 1 <=> U = {o}
  <2>1. Cardinality(U) = 1 => \E x : U = {x}
    BY <1>2, FS_Singleton
  <2>2. Cardinality({o}) = 1
    BY FS_Singleton
  <2> QED
    BY <1>2, <2>1, <2>2
<1>6. U = {o} <=> \A p \in Objects : b[p].conn /\ b[p].refs = k => p = o
  BY <1>2
<1> QED
  BY <1>1, <1>2, <1>3, <1>4, <1>5, <1>6
-----------------------------------------------------------------------------
(* check_close(): o is x, which is not connected, once it has let go. *)
LEMMA Release ==
    ASSUME Sound(obj, refs, table, opened, hollow), NEW o \in Objects, NEW x \in Records, ~x.conn
    PROVE  Sound([obj EXCEPT ![o] = x], RefsLeft(o), TableLeft(o), opened, hollow)
<1> DEFINE b == [obj EXCEPT ![o] = x]
           r == RefsLeft(o)
           t == TableLeft(o)
<1>0. /\ obj \in [Objects -> Records] /\ refs \in [Sockets -> Nat]
      /\ table \in [Fds -> Sockets \cup {None}] /\ opened \in 0 .. MaxSockets
  BY DEF Sound, Typed
<1>1. b[o] = x /\ b \in [Objects -> Records] /\ \A q \in Objects : q # o => b[q] = obj[q]
  BY <1>0
<1>2. ASSUME obj[o].conn
      PROVE  /\ obj[o].refs \in Sockets
             /\ refs[obj[o].refs] \in Nat \ {0}
             /\ Last(o) <=> \A q \in Objects : obj[q].conn /\ obj[q].refs = obj[o].refs => q = o
  <2>1. /\ obj[o].refs \in Sockets
        /\ refs[obj[o].refs] \in Nat \ {0}
        /\ refs[obj[o].refs] = 1 <=>
             \A q \in Objects : obj[q].conn /\ obj[q].refs = obj[o].refs => q = o
    BY <1>2, Sharers
  <2> QED
    BY <1>2, <2>1 DEF Last
<1>3. /\ r \in [Sockets -> Nat]
      /\ \A k \in Sockets : r[k] = refs[k] - Adds(obj[o], k)
  <2>1. CASE obj[o].conn
    BY <1>0, <1>2, <2>1 DEF RefsLeft, Last, None, Adds
  <2>2. CASE ~obj[o].conn
    BY <1>0, <2>2 DEF RefsLeft, Adds
  <2> QED
    BY <2>1, <2>2
<1>4. \A f \in Fds : t[f] = IF Last(o) /\ f = obj[o].fd THEN None ELSE table[f]
  BY DEF TableLeft
<1>5. Typed(b, r, t, opened, hollow)
  <2>1. t \in [Fds -> Sockets \cup {None}]
    BY <1>0 DEF TableLeft
  <2>2. /\ Attached(obj, hollow)
        /\ hollow \in SUBSET Sockets /\ \A k \in hollow : k <= opened
    BY DEF Sound, Typed
  <2> HIDE DEF b, r, t
  <2>3. Attached(b, hollow)
    BY <1>1, <2>2 DEF Attached
  <2> QED
    BY <1>0, <1>1, <1>3, <2>1, <2>2, <2>3 DEF Typed
<1>6. Counted(b, r)
  <2> SUFFICES ASSUME NEW k \in Sockets PROVE r[k] = UserCount(b, k)
    BY DEF Counted
  <2>1. UserCount(b, k) = UserCount(obj, k) + Adds(b[o], k) - Adds(obj[o], k)
    <3>1. \A q \in Objects : q # o => b[q] = obj[q]
      BY <1>1
    <3> HIDE DEF b
    <3> QED
      BY <3>1, UsersMove
  <2>2. refs[k] = UserCount(obj, k) /\ refs[k] \in Nat
    BY <1>0 DEF Sound, Counted
  <2>3. Adds(b[o], k) = 0 /\ Adds(obj[o], k) \in {0, 1}
    BY <1>1 DEF Adds
  <2>4. r[k] = refs[k] - Adds(obj[o], k)
    BY <1>3
  <2> QED
    BY <2>1, <2>2, <2>3, <2>4
<1>7. Fresh(r, opened)
  <2>1. ASSUME NEW k \in Sockets, k > opened PROVE r[k] = 0
    <3>1. refs[k] = 0 /\ Adds(obj[o], k) \in {0, 1}
      BY <2>1 DEF Sound, Fresh, Adds
    <3> QED
      BY <1>3, <3>1
  <2> QED
    BY <2>1 DEF Fresh
<1>8. \A q \in Objects : b[q].conn => q # o /\ b[q] = obj[q]
  BY <1>1
<1>9. OneFd(b)
  BY <1>8 DEF Sound, OneFd
<1>10. StillOpen(b, t)
  <2> SUFFICES ASSUME NEW q \in Objects, b[q].conn, b[q].fd # None
               PROVE  t[b[q].fd] = b[q].refs
    BY DEF StillOpen
  <2>1. q # o /\ b[q] = obj[q] /\ obj[q].conn
    BY <1>8
  <2>2. table[obj[q].fd] = obj[q].refs /\ obj[q].fd \in Fds
    BY <2>1, Sharers DEF Sound, StillOpen
  <2>3. ~(Last(o) /\ obj[q].fd = obj[o].fd)
    <3> SUFFICES ASSUME Last(o), obj[q].fd = obj[o].fd PROVE FALSE
      OBVIOUS
    <3>1. obj[o].conn
      BY DEF Last
    <3>2. table[obj[o].fd] = obj[o].refs
      BY <3>1 DEF Sound, StillOpen
    <3> QED
      BY <1>2, <2>1, <2>2, <3>1, <3>2
  <2> QED
    BY <1>4, <2>1, <2>2, <2>3
<1>11. NoLeak(b, t)
  <2> SUFFICES ASSUME NEW f \in Fds, t[f] # None
               PROVE  \E q \in Objects : b[q].conn /\ b[q].fd = f /\ b[q].refs = t[f]
    BY DEF NoLeak
  <2>1. t[f] = table[f] /\ ~(Last(o) /\ f = obj[o].fd)
    BY <1>4
  <2>2. PICK w \in Objects : obj[w].conn /\ obj[w].fd = f /\ obj[w].refs = table[f]
    BY <2>1 DEF Sound, NoLeak
  <2>3. CASE w # o
    BY <1>1, <2>1, <2>2, <2>3
  <2>4. CASE w = o
    <3>1. PICK p \in Objects : obj[p].conn /\ obj[p].refs = obj[o].refs /\ p # o
      BY <1>2, <2>1, <2>2, <2>4
    <3>2. obj[p].fd = f
      BY <2>2, <2>4, <3>1 DEF Sound, OneFd
    <3> QED
      BY <1>1, <2>1, <2>2, <2>4, <3>1, <3>2
  <2> QED
    BY <2>3, <2>4
<1> QED
  BY <1>5, <1>6, <1>7, <1>9, <1>10, <1>11 DEF Sound

(* An object that is not connected gets the next socket. *)
LEMMA Adopt ==
    ASSUME NEW b, NEW r, NEW t, NEW n, NEW h, Sound(b, r, t, n, h), n < MaxSockets,
           NEW o \in Objects, ~b[o].conn, NEW f \in FreeFds(t), NEW x \in Records,
           x.exists, x.conn, x.fd = f, x.refs = n + 1
    PROVE  Sound([b EXCEPT ![o] = x], [r EXCEPT ![n + 1] = 1], [t EXCEPT ![f] = n + 1], n + 1, h)
<1> DEFINE g == [b EXCEPT ![o] = x]
           rr == [r EXCEPT ![n + 1] = 1]
           tt == [t EXCEPT ![f] = n + 1]
<1>0. /\ b \in [Objects -> Records] /\ r \in [Sockets -> Nat]
      /\ t \in [Fds -> Sockets \cup {None}] /\ n \in 0 .. MaxSockets
      /\ n + 1 \in Sockets /\ n + 1 \in 0 .. MaxSockets /\ n + 1 # None
      /\ f \in Fds /\ t[f] = None /\ f # None /\ n + 1 \notin h
  BY BoundsAssumption DEF Sound, Typed, FreeFds, Sockets, Fds, None
<1>1. g[o] = x /\ g \in [Objects -> Records] /\ \A q \in Objects : q # o => g[q] = b[q]
  BY <1>0
<1>2. \A k \in Sockets : rr[k] = IF k = n + 1 THEN 1 ELSE r[k]
  BY <1>0
<1>3. \A e \in Fds : tt[e] = IF e = f THEN n + 1 ELSE t[e]
  BY <1>0
<1>4. rr \in [Sockets -> Nat] /\ tt \in [Fds -> Sockets \cup {None}]
  BY <1>0
<1>5. \A q \in Objects : b[q].conn => b[q].refs # n + 1 /\ (b[q].fd # None => b[q].fd \in Fds)
  <2>1. ASSUME NEW q \in Objects, b[q].conn
        PROVE  b[q].refs # n + 1 /\ (b[q].fd # None => b[q].fd \in Fds)
    <3>1. b[q].refs <= n /\ (b[q].fd # None => b[q].fd \in Fds) /\ b[q].refs \in Sockets
      BY <2>1, Sharers, Zenon
    <3> QED
      BY <1>0, <3>1 DEF Sockets
  <2> QED
    BY <2>1
<1> HIDE DEF g, rr, tt
<1>6. Typed(g, rr, tt, n + 1, h)
  <2>1. Attached(b, h) /\ h \in SUBSET Sockets /\ \A k \in h : k <= n
    BY DEF Typed, Sound
  <2>2. \A k \in h : k <= n + 1
    BY <1>0, <2>1 DEF Sockets
  <2>3. Attached(g, h)
    BY <1>0, <1>1, <2>1 DEF Attached
  <2> QED
    BY <1>0, <1>1, <1>4, <2>1, <2>2, <2>3 DEF Typed
<1>7. Counted(g, rr)
  <2> SUFFICES ASSUME NEW k \in Sockets PROVE rr[k] = UserCount(g, k)
    BY DEF Counted
  <2>1. UserCount(g, k) = UserCount(b, k) + Adds(g[o], k) - Adds(b[o], k)
    <3>1. \A q \in Objects : q # o => g[q] = b[q]
      BY <1>1
    <3> QED
      BY <3>1, UsersMove
  <2>2. r[k] = UserCount(b, k) /\ r[k] \in Nat
    BY <1>0 DEF Sound, Counted
  <2>3. Adds(b[o], k) = 0 /\ Adds(g[o], k) = IF k = n + 1 THEN 1 ELSE 0
    BY <1>1 DEF Adds
  <2>4. r[n + 1] = 0
    BY <1>0 DEF Sound, Fresh
  <2> QED
    BY <1>2, <2>1, <2>2, <2>3, <2>4
<1>8. Fresh(rr, n + 1)
  BY <1>0, <1>2 DEF Sound, Fresh, Sockets
<1>9. OneFd(g)
  BY <1>1, <1>5 DEF Sound, OneFd
<1>10. StillOpen(g, tt)
  <2> SUFFICES ASSUME NEW q \in Objects, g[q].conn, g[q].fd # None
               PROVE  tt[g[q].fd] = g[q].refs
    BY DEF StillOpen
  <2>1. CASE q = o
    BY <1>0, <1>1, <1>3, <2>1
  <2>2. CASE q # o
    <3>1. t[b[q].fd] = b[q].refs /\ b[q].fd \in Fds /\ b[q].refs # None
      BY <1>1, <1>5, <2>2 DEF Sound, StillOpen, Typed, Attached
    <3> QED
      BY <1>0, <1>1, <1>3, <2>2, <3>1
  <2> QED
    BY <2>1, <2>2
<1>11. NoLeak(g, tt)
  <2> SUFFICES ASSUME NEW e \in Fds, tt[e] # None
               PROVE  \E q \in Objects : g[q].conn /\ g[q].fd = e /\ g[q].refs = tt[e]
    BY DEF NoLeak
  <2>1. CASE e = f
    BY <1>1, <1>3, <2>1
  <2>2. CASE e # f
    <3>1. tt[e] = t[e]
      BY <1>3, <2>2
    <3>2. PICK w \in Objects : b[w].conn /\ b[w].fd = e /\ b[w].refs = t[e]
      BY <3>1 DEF Sound, NoLeak
    <3> QED
      BY <1>1, <3>1, <3>2
  <2> QED
    BY <2>1, <2>2
<1>12. Sound(g, rr, tt, n + 1, h)
  BY <1>6, <1>7, <1>8, <1>9, <1>10, <1>11 DEF Sound
<1> QED
  BY <1>12 DEF g, rr, tt

(* An object that is not connected gets a counter, but no socket. *)
LEMMA AdoptNone ==
    ASSUME NEW b, NEW r, NEW t, NEW n, NEW h, Sound(b, r, t, n, h), n < MaxSockets,
           NEW o \in Objects, ~b[o].conn, NEW x \in Records,
           x.exists, x.conn, x.fd = None, x.refs = n + 1
    PROVE  Sound([b EXCEPT ![o] = x], [r EXCEPT ![n + 1] = 1], t, n + 1, h \cup {n + 1})
<1> DEFINE g == [b EXCEPT ![o] = x]
           rr == [r EXCEPT ![n + 1] = 1]
           hh == h \cup {n + 1}
<1>0. /\ b \in [Objects -> Records] /\ r \in [Sockets -> Nat]
      /\ t \in [Fds -> Sockets \cup {None}] /\ n \in 0 .. MaxSockets
      /\ n + 1 \in Sockets /\ n + 1 \in 0 .. MaxSockets /\ n + 1 # None
      /\ h \in SUBSET Sockets /\ \A k \in h : k <= n
  BY BoundsAssumption DEF Sound, Typed, Sockets, None
<1>1. g[o] = x /\ g \in [Objects -> Records] /\ \A q \in Objects : q # o => g[q] = b[q]
  BY <1>0
<1>2. /\ rr \in [Sockets -> Nat]
      /\ \A k \in Sockets : rr[k] = IF k = n + 1 THEN 1 ELSE r[k]
  BY <1>0
<1>3. \A q \in Objects : b[q].conn => b[q].refs # n + 1
  <2>1. ASSUME NEW q \in Objects, b[q].conn PROVE b[q].refs # n + 1
    <3>1. b[q].refs <= n /\ b[q].refs \in Sockets
      BY <2>1, Sharers, Zenon
    <3> QED
      BY <1>0, <3>1 DEF Sockets
  <2> QED
    BY <2>1
<1>4. /\ hh \in SUBSET Sockets /\ \A k \in hh : k <= n + 1
      /\ \A k : k \in hh <=> k \in h \/ k = n + 1
  BY <1>0 DEF Sockets
<1> HIDE DEF g, rr, hh
<1>5. Typed(g, rr, t, n + 1, hh)
  <2>1. Attached(b, h)
    BY DEF Typed, Sound
  <2>2. Attached(g, hh)
    BY <1>0, <1>1, <1>3, <1>4, <2>1 DEF Attached
  <2> QED
    BY <1>0, <1>1, <1>2, <1>4, <2>2 DEF Typed
<1>6. Counted(g, rr)
  <2> SUFFICES ASSUME NEW k \in Sockets PROVE rr[k] = UserCount(g, k)
    BY DEF Counted
  <2>1. UserCount(g, k) = UserCount(b, k) + Adds(g[o], k) - Adds(b[o], k)
    <3>1. \A q \in Objects : q # o => g[q] = b[q]
      BY <1>1
    <3> QED
      BY <3>1, UsersMove
  <2>2. r[k] = UserCount(b, k) /\ r[k] \in Nat
    BY <1>0 DEF Sound, Counted
  <2>3. Adds(b[o], k) = 0 /\ Adds(g[o], k) = IF k = n + 1 THEN 1 ELSE 0
    BY <1>1 DEF Adds
  <2>4. r[n + 1] = 0
    BY <1>0 DEF Sound, Fresh
  <2> QED
    BY <1>2, <2>1, <2>2, <2>3, <2>4
<1>7. Fresh(rr, n + 1)
  BY <1>0, <1>2 DEF Sound, Fresh, Sockets
<1>8. OneFd(g)
  BY <1>1, <1>3 DEF Sound, OneFd
<1>9. StillOpen(g, t)
  BY <1>1 DEF Sound, StillOpen
<1>10. NoLeak(g, t)
  BY <1>1 DEF Sound, NoLeak
<1>11. Sound(g, rr, t, n + 1, hh)
  BY <1>5, <1>6, <1>7, <1>8, <1>9, <1>10 DEF Sound
<1> QED
  BY <1>11 DEF g, rr, hh

(* An object that is not connected becomes a copy of one that is. *)
LEMMA Share ==
    ASSUME NEW b, NEW r, NEW t, NEW n, NEW h, Sound(b, r, t, n, h),
           NEW o \in Objects, ~b[o].conn, NEW p \in Objects, b[p].conn
    PROVE  Sound([b EXCEPT ![o] = b[p]], [r EXCEPT ![b[p].refs] = @ + 1], t, n, h)
<1> DEFINE g == [b EXCEPT ![o] = b[p]]
           rr == [r EXCEPT ![b[p].refs] = @ + 1]
<1>0. /\ b \in [Objects -> Records] /\ r \in [Sockets -> Nat]
      /\ t \in [Fds -> Sockets \cup {None}] /\ n \in 0 .. MaxSockets /\ o # p
  BY DEF Sound, Typed
<1>1. b[p].refs \in Sockets /\ b[p].refs <= n /\ r[b[p].refs] \in Nat
  BY Sharers, Zenon
<1>2. /\ g[o] = b[p] /\ g[p] = b[p] /\ g \in [Objects -> Records]
      /\ \A q \in Objects : q # o => g[q] = b[q]
  BY <1>0
<1>3. /\ rr \in [Sockets -> Nat]
      /\ \A k \in Sockets : rr[k] = IF k = b[p].refs THEN r[k] + 1 ELSE r[k]
  BY <1>0, <1>1
<1> HIDE DEF g, rr
<1>4. \A q \in Objects : \E u \in Objects : g[q] = b[u]
  BY <1>2
<1>5. Typed(g, rr, t, n, h)
  BY <1>0, <1>2, <1>3, <1>4 DEF Sound, Typed, Attached
<1>6. Counted(g, rr)
  <2> SUFFICES ASSUME NEW k \in Sockets PROVE rr[k] = UserCount(g, k)
    BY DEF Counted
  <2>1. UserCount(g, k) = UserCount(b, k) + Adds(g[o], k) - Adds(b[o], k)
    <3>1. \A q \in Objects : q # o => g[q] = b[q]
      BY <1>2
    <3> QED
      BY <3>1, UsersMove
  <2>2. r[k] = UserCount(b, k) /\ r[k] \in Nat
    BY <1>0 DEF Sound, Counted
  <2>3. Adds(b[o], k) = 0 /\ Adds(g[o], k) = IF k = b[p].refs THEN 1 ELSE 0
    BY <1>2 DEF Adds
  <2> QED
    BY <1>3, <2>1, <2>2, <2>3
<1>7. Fresh(rr, n)
  BY <1>0, <1>1, <1>3 DEF Sound, Fresh, Sockets
<1>8. OneFd(g) /\ StillOpen(g, t)
  BY <1>4 DEF Sound, OneFd, StillOpen
<1>9. NoLeak(g, t)
  <2> SUFFICES ASSUME NEW e \in Fds, t[e] # None
               PROVE  \E q \in Objects : g[q].conn /\ g[q].fd = e /\ g[q].refs = t[e]
    BY DEF NoLeak
  <2>1. PICK w \in Objects : b[w].conn /\ b[w].fd = e /\ b[w].refs = t[e]
    BY DEF Sound, NoLeak
  <2> QED
    BY <1>2, <2>1
<1>10. Sound(g, rr, t, n, h)
  BY <1>5, <1>6, <1>7, <1>8, <1>9 DEF Sound
<1> QED
  BY <1>10 DEF g, rr
-----------------------------------------------------------------------------
(* check_close() deletes the buffer with the last user of the socket. *)
LEMMA ReleaseSrc ==
    ASSUME Sound(obj, refs, table, opened, hollow), OwnSrc(obj, buffers), NEW o \in Objects,
           NEW x \in Records, ~x.conn, x.src = None
    PROVE  OwnSrc([obj EXCEPT ![o] = x], BuffersLeft(o))
<1> DEFINE b == [obj EXCEPT ![o] = x]
           a == BuffersLeft(o)
<1>1. b[o] = x /\ \A q \in Objects : q # o => b[q] = obj[q]
  BY DEF Sound, Typed
<1>2. \A q \in Objects : b[q].conn => q # o /\ b[q] = obj[q]
  BY <1>1
<1>3. obj[o].conn =>
        (Last(o) <=> \A q \in Objects : obj[q].conn /\ obj[q].refs = obj[o].refs => q = o)
  <2>1. obj[o].conn =>
          (refs[obj[o].refs] = 1 <=>
             \A q \in Objects : obj[q].conn /\ obj[q].refs = obj[o].refs => q = o)
    BY Sharers
  <2> QED
    BY <2>1 DEF Last
<1>4. a = IF Last(o) THEN buffers \ {obj[o].src} ELSE buffers
  BY DEF BuffersLeft
<1> HIDE DEF b, a
<1>5. a = {b[q].src : q \in {p \in Objects : b[p].conn}} \ {None}
  <2>1. \A k : k \in buffers <=> k # None /\ \E q \in Objects : obj[q].conn /\ k = obj[q].src
    BY DEF OwnSrc
  <2>2. \A q \in Objects : obj[q].conn => obj[q].refs # None /\ obj[q].src \in {None, obj[q].refs}
    BY DEF OwnSrc, Sound, Typed, Attached
  <2>3. CASE ~obj[o].conn
    <3>1. ~Last(o) /\ \A q \in Objects : obj[q].conn => q # o
      BY <2>3 DEF Last
    <3> QED
      BY <1>1, <1>2, <1>4, <2>1, <3>1
  <2>4. CASE Last(o)
    <3>1. obj[o].conn
      BY <2>4 DEF Last
    <3>2. \A q \in Objects : obj[q].conn /\ q # o => obj[q].refs # obj[o].refs
      BY <1>3, <2>4, <3>1
    <3>3. ASSUME NEW q \in Objects, obj[q].conn, q # o, obj[q].src # None
          PROVE  obj[q].src # obj[o].src
      BY <2>2, <3>1, <3>2, <3>3
    <3> QED
      BY <1>1, <1>2, <1>4, <2>1, <2>4, <3>3
  <2>5. CASE obj[o].conn /\ ~Last(o)
    <3>1. PICK p \in Objects : obj[p].conn /\ obj[p].refs = obj[o].refs /\ p # o
      BY <1>3, <2>5
    <3>2. obj[p].src = obj[o].src /\ b[p] = obj[p]
      BY <1>1, <2>5, <3>1 DEF OwnSrc
    <3> QED
      BY <1>1, <1>2, <1>4, <2>1, <2>5, <3>1, <3>2
  <2> QED
    BY <2>3, <2>4, <2>5
<1>6. OwnSrc(b, a)
  BY <1>1, <1>2, <1>5 DEF OwnSrc
<1> QED
  BY <1>6 DEF b, a

(* The next socket has a buffer of its own, or none over TCP. *)
LEMMA AdoptSrc ==
    ASSUME NEW b, NEW r, NEW t, NEW n, NEW h, Sound(b, r, t, n, h), NEW a, OwnSrc(b, a),
           NEW o \in Objects, ~b[o].conn, NEW x, x.conn, x.refs = n + 1,
           x.src \in {None, n + 1}
    PROVE  OwnSrc([b EXCEPT ![o] = x], a \cup ({x.src} \ {None}))
<1> DEFINE g == [b EXCEPT ![o] = x]
<1>1. g[o] = x /\ \A q \in Objects : q # o => g[q] = b[q]
  BY DEF Sound, Typed
<1>2. ASSUME NEW q \in Objects, b[q].conn PROVE b[q].refs # n + 1
  <2>1. b[q].refs \in Sockets /\ b[q].refs <= n
    BY <1>2, Sharers
  <2>2. n \in Nat
    BY BoundsAssumption DEF Sound, Typed
  <2> QED
    BY <2>1, <2>2 DEF Sockets
<1> HIDE DEF g
<1>3. \A k : k \in a <=> k # None /\ \E q \in Objects : b[q].conn /\ k = b[q].src
  BY DEF OwnSrc
<1>4. a \cup ({x.src} \ {None}) = {g[q].src : q \in {p \in Objects : g[p].conn}} \ {None}
  <2>1. \A q \in Objects : b[q].conn => q # o
    OBVIOUS
  <2> QED
    BY <1>1, <1>3, <2>1
<1>5. \A q \in Objects : g[q].conn => g[q].src \in {None, g[q].refs}
  BY <1>1 DEF OwnSrc
<1>6. \A q \in Objects : ~g[q].conn => g[q].src = None
  BY <1>1 DEF OwnSrc
<1>7. ASSUME NEW q \in Objects, NEW p \in Objects,
             g[q].conn, g[p].conn, g[q].refs = g[p].refs
      PROVE  g[q].src = g[p].src
  <2>1. q = o <=> p = o
    BY <1>1, <1>2, <1>7
  <2> QED
    BY <1>1, <1>7, <2>1 DEF OwnSrc
<1>8. OwnSrc(g, a \cup ({x.src} \ {None}))
  BY <1>4, <1>5, <1>6, <1>7 DEF OwnSrc
<1> QED
  BY <1>8 DEF g

(* A copy shares the buffer. *)
LEMMA ShareSrc ==
    ASSUME NEW b, NEW a, b \in [Objects -> Records], OwnSrc(b, a),
           NEW o \in Objects, ~b[o].conn, NEW p \in Objects, b[p].conn
    PROVE  OwnSrc([b EXCEPT ![o] = b[p]], a)
<1> DEFINE g == [b EXCEPT ![o] = b[p]]
<1>1. /\ g[o] = b[p] /\ g[p] = b[p] /\ \A q \in Objects : q # o => g[q] = b[q]
  OBVIOUS
<1> HIDE DEF g
<1>2. \A q \in Objects : \E u \in Objects : g[q] = b[u]
  BY <1>1
<1>3. \A u \in Objects : b[u].conn => \E q \in Objects : g[q] = b[u]
  BY <1>1
<1>4. a = {g[q].src : q \in {u \in Objects : g[u].conn}} \ {None}
  <2>1. a = {b[q].src : q \in {u \in Objects : b[u].conn}} \ {None}
    BY DEF OwnSrc
  <2> QED
    BY <1>2, <1>3, <2>1
<1>5. \A q \in Objects : /\ g[q].conn => g[q].src \in {None, g[q].refs}
                         /\ ~g[q].conn => g[q].src = None
  BY <1>2 DEF OwnSrc
<1>6. ASSUME NEW q \in Objects, NEW u \in Objects,
             g[q].conn, g[u].conn, g[q].refs = g[u].refs
      PROVE  g[q].src = g[u].src
  BY <1>2, <1>6 DEF OwnSrc
<1>7. OwnSrc(g, a)
  BY <1>4, <1>5, <1>6 DEF OwnSrc
<1> QED
  BY <1>7 DEF g

(* What is open is what some object holds. *)
LEMMA SoundIsHeld ==
    ASSUME NEW b, NEW r, NEW t, NEW n, NEW h, Sound(b, r, t, n, h)
    PROVE  {t[f] : f \in Fds} \ {None} =
             {IF b[o].conn /\ b[o].refs \notin h THEN b[o].refs ELSE None : o \in Objects} \ {None}
<1>1. ASSUME NEW f \in Fds, t[f] # None
      PROVE  \E o \in Objects :
                t[f] = IF b[o].conn /\ b[o].refs \notin h THEN b[o].refs ELSE None
  <2>1. PICK o \in Objects : b[o].conn /\ b[o].fd = f /\ b[o].refs = t[f]
    BY <1>1 DEF Sound, NoLeak
  <2>2. f # None
    BY DEF Fds, None
  <2> QED
    BY <2>1, <2>2 DEF Sound, Typed, Attached
<1>2. ASSUME NEW o \in Objects, b[o].conn, b[o].refs \notin h
      PROVE  \E f \in Fds : t[f] = b[o].refs
  <2>1. b[o].fd # None
    BY <1>2 DEF Sound, Typed, Attached
  <2>2. b[o].fd \in Fds
    BY <1>2, <2>1, Sharers
  <2> QED
    BY <1>2, <2>1, <2>2 DEF Sound, StillOpen
<1> QED
  BY <1>1, <1>2
-----------------------------------------------------------------------------
(* There is no socket: nothing is open, nothing counted. *)
LEMMA InitIInv == Init => IInv
<1> SUFFICES ASSUME Init PROVE IInv
  OBVIOUS
<1>1. TypeOK
  <2>1. NoObject \in Records
    BY DEF NoObject, Records
  <2>2. opened \in 0 .. MaxSockets
    BY BoundsAssumption DEF Init
  <2>3. spoilt \in BOOLEAN /\ buffers \in SUBSET Sockets /\ hollow \in SUBSET Sockets
    BY DEF Init
  <2> QED
    BY <2>1, <2>2, <2>3 DEF Init, TypeOK, None
<1>2. Counted(obj, refs)
  <2>1. \A k : {o \in Objects : obj[o].conn /\ obj[o].refs = k} = {}
    BY DEF Init, NoObject
  <2>2. Cardinality({}) = 0
    BY FS_EmptySet
  <2> QED
    BY <2>1, <2>2 DEF Counted, UserCount, Init, None
<1>3. Typed(obj, refs, table, opened, hollow) /\ Fresh(refs, opened)
  BY <1>1 DEF Init, Typed, Attached, TypeOK, Fresh, NoObject, None
<1>4. OneFd(obj) /\ StillOpen(obj, table) /\ NoLeak(obj, table)
  BY DEF Init, OneFd, StillOpen, NoLeak, NoObject
<1>5. OwnSrc(obj, buffers)
  BY DEF Init, OwnSrc, NoObject
<1>6. OpenIsHeld
  BY DEF Init, OpenIsHeld, Holds, NoObject
<1> QED
  BY <1>1, <1>2, <1>3, <1>4, <1>5, <1>6 DEF IInv, Sound

(* Every operation that ends with sound counters keeps the invariant. *)
LEMMA SoundStep ==
    ASSUME Sound(obj', refs', table', opened', hollow'), OwnSrc(obj', buffers') \/ spoilt',
           buffers' \in SUBSET Sockets, spoilt' \in BOOLEAN
    PROVE  IInv'
<1>1. TypeOK'
  BY DEF TypeOK, Sound, Typed
<1>2. {table'[f] : f \in Fds} \ {None} =
        {IF obj'[o].conn /\ obj'[o].refs \notin hollow' THEN obj'[o].refs ELSE None
            : o \in Objects} \ {None}
  BY SoundIsHeld
<1> QED
  BY <1>1, <1>2 DEF IInv, OpenIsHeld, Holds

(* The lowest free descriptor is a free one. *)
LEMMA LowestIsFree ==
    ASSUME NEW t, FreeFds(t) # {}
    PROVE  Lowest(t) \in FreeFds(t)
<1>1. \E f \in FreeFds(t) : \A g \in FreeFds(t) : f <= g
  <2>1. FreeFds(t) \subseteq Nat
    BY DEF FreeFds, Fds
  <2>2. PICK f \in FreeFds(t) : \A g \in FreeFds(t) : ~ (<<g, f>> \in OpToRel(<, Nat))
    BY <2>1, NatLessThanWellFounded, WFMin, Zenon
  <2>3. \A g \in FreeFds(t) : ~ (g < f)
    BY <2>1, <2>2 DEF OpToRel
  <2> QED
    BY <2>1, <2>3
<1> QED
  BY <1>1 DEF Lowest

(* sync_socket() *)
LEMMA ConstructStep ==
    ASSUME IInv, ~spoilt, NEW o \in Objects, Construct(o)
    PROVE  IInv'
<1>1. Sound(obj, refs, table, opened, hollow) /\ OwnSrc(obj, buffers) /\ buffers \in SUBSET Sockets
  BY DEF IInv, TypeOK
<1>2. ~obj[o].conn
  BY <1>1 DEF Construct, Live, Sound, Typed, Attached
<1>3. Unconnected \in Records /\ ~Unconnected.conn /\ Unconnected.src = None
  BY DEF Unconnected, NoObject, Records
<1>4. RefsLeft(o) = refs /\ TableLeft(o) = table /\ BuffersLeft(o) = buffers
  BY <1>2 DEF RefsLeft, TableLeft, BuffersLeft, Last
<1>5. Sound([obj EXCEPT ![o] = Unconnected], refs, table, opened, hollow)
  BY <1>1, <1>3, <1>4, Release
<1>6. OwnSrc([obj EXCEPT ![o] = Unconnected], buffers)
  BY <1>1, <1>3, <1>4, ReleaseSrc
<1>7. Sound(obj', refs', table', opened', hollow') /\ OwnSrc(obj', buffers')
  BY <1>5, <1>6, Zenon DEF Construct
<1>8. buffers' \in SUBSET Sockets /\ spoilt' \in BOOLEAN
  BY <1>1 DEF Construct, IInv, TypeOK
<1> QED
  BY <1>7, <1>8, SoundStep

(* What a connected object looks like, and the buffer made for it *)
LEMMA ConnectedType ==
    ASSUME NEW f \in Fds \cup {None}, NEW tcp \in BOOLEAN, NEW s \in Sockets \cup {None},
           opened \in 0 .. MaxSockets, opened < MaxSockets
    PROVE  /\ Connected(f, tcp, s) \in Records
           /\ Connected(f, tcp, s).exists /\ Connected(f, tcp, s).conn
           /\ Connected(f, tcp, s).fd = f /\ Connected(f, tcp, s).refs = opened + 1
           /\ Allocated(tcp) \in SUBSET Sockets
           /\ (tcp => s = None) =>
                /\ Connected(f, tcp, s).src \in {None, opened + 1}
                /\ Allocated(tcp) = {Connected(f, tcp, s).src} \ {None}
<1> DEFINE x == Connected(f, tcp, s)
<1>1. opened + 1 \in Sockets /\ opened + 1 # None
  BY BoundsAssumption DEF Sockets, None
<1>2. x.src = IF tcp THEN s ELSE opened + 1
  BY DEF Connected
<1>3. x \in Records /\ x.exists /\ x.conn /\ x.fd = f /\ x.refs = opened + 1
  BY <1>1 DEF Connected, Records
<1>4. Allocated(tcp) = IF tcp THEN {} ELSE {opened + 1}
  BY DEF Allocated
<1> HIDE DEF x
<1>5. Allocated(tcp) \in SUBSET Sockets
  BY <1>1, <1>4
<1>6. (tcp => s = None) =>
        x.src \in {None, opened + 1} /\ Allocated(tcp) = {x.src} \ {None}
  BY <1>1, <1>2, <1>4
<1> QED
  BY <1>3, <1>5, <1>6 DEF x

(* The descriptor that socket() or accept() returns *)
LEMMA RoomIs ==
    ASSUME NEW t, Room(t)
    PROVE  Lowest(t) \in FreeFds(t) /\ Lowest(t) \in Fds /\ opened < MaxSockets
  BY LowestIsFree DEF Room, FreeFds

(* The constructors that get a socket *)
LEMMA ConstructConnectedStep ==
    ASSUME IInv, ~spoilt, NEW o \in Objects, NEW tcp \in BOOLEAN, ConstructConnected(o, tcp)
    PROVE  IInv'
<1> DEFINE x == Connected(Lowest(table), tcp, None)
<1>1. Sound(obj, refs, table, opened, hollow) /\ OwnSrc(obj, buffers)
      /\ buffers \in SUBSET Sockets /\ opened \in 0 .. MaxSockets
  BY DEF IInv, TypeOK
<1>2. ~obj[o].conn
  BY <1>1 DEF ConstructConnected, Live, Sound, Typed, Attached
<1>3. Lowest(table) \in FreeFds(table) /\ Lowest(table) \in Fds /\ opened < MaxSockets
  BY RoomIs DEF ConstructConnected
<1>4. /\ x \in Records /\ x.exists /\ x.conn
      /\ x.fd = Lowest(table) /\ x.refs = opened + 1
      /\ Allocated(tcp) \in SUBSET Sockets
      /\ x.src \in {None, opened + 1} /\ Allocated(tcp) = {x.src} \ {None}
  BY <1>1, <1>3, ConnectedType
<1> HIDE DEF x
<1>5. Sound([obj EXCEPT ![o] = x], [refs EXCEPT ![opened + 1] = 1],
            [table EXCEPT ![Lowest(table)] = opened + 1], opened + 1, hollow)
  BY <1>1, <1>2, <1>3, <1>4, Adopt
<1>6. OwnSrc([obj EXCEPT ![o] = x], buffers \cup ({x.src} \ {None}))
  BY <1>1, <1>2, <1>4, AdoptSrc
<1>7. Sound(obj', refs', table', opened', hollow')
  BY <1>5, Zenon DEF ConstructConnected, x
<1>8. OwnSrc(obj', buffers')
  <2>1. obj' = [obj EXCEPT ![o] = x] /\ buffers' = buffers \cup ({x.src} \ {None})
    BY <1>4 DEF ConstructConnected, x
  <2> QED
    BY <1>6, <2>1
<1>9. buffers' \in SUBSET Sockets /\ spoilt' \in BOOLEAN
  BY <1>1, <1>4 DEF ConstructConnected, IInv, TypeOK
<1> QED
  BY <1>7, <1>8, <1>9, SoundStep

(* The constructor around -1: a counter, and no socket *)
LEMMA ConstructAroundNoneStep ==
    ASSUME IInv, ~spoilt, NEW o \in Objects, NEW tcp \in BOOLEAN, ConstructAroundNone(o, tcp)
    PROVE  IInv'
<1> DEFINE x == Connected(None, tcp, None)
<1>1. Sound(obj, refs, table, opened, hollow) /\ OwnSrc(obj, buffers)
      /\ buffers \in SUBSET Sockets /\ opened \in 0 .. MaxSockets
  BY DEF IInv, TypeOK
<1>2. ~obj[o].conn
  BY <1>1 DEF ConstructAroundNone, Live, Sound, Typed, Attached
<1>3. opened < MaxSockets
  BY DEF ConstructAroundNone
<1>4. /\ x \in Records /\ x.exists /\ x.conn /\ x.fd = None /\ x.refs = opened + 1
      /\ Allocated(tcp) \in SUBSET Sockets
      /\ x.src \in {None, opened + 1} /\ Allocated(tcp) = {x.src} \ {None}
  BY <1>1, <1>3, ConnectedType
<1> HIDE DEF x
<1>5. Sound([obj EXCEPT ![o] = x], [refs EXCEPT ![opened + 1] = 1],
            table, opened + 1, hollow \cup {opened + 1})
  BY <1>1, <1>2, <1>3, <1>4, AdoptNone
<1>6. OwnSrc([obj EXCEPT ![o] = x], buffers \cup ({x.src} \ {None}))
  BY <1>1, <1>2, <1>4, AdoptSrc
<1>7. Sound(obj', refs', table', opened', hollow')
  BY <1>5, Zenon DEF ConstructAroundNone, x
<1>8. OwnSrc(obj', buffers')
  <2>1. obj' = [obj EXCEPT ![o] = x] /\ buffers' = buffers \cup ({x.src} \ {None})
    BY <1>4 DEF ConstructAroundNone, x
  <2> QED
    BY <1>6, <2>1
<1>9. buffers' \in SUBSET Sockets /\ spoilt' \in BOOLEAN
  BY <1>1, <1>4 DEF ConstructAroundNone, IInv, TypeOK
<1> QED
  BY <1>7, <1>8, <1>9, SoundStep

(* The copy constructor; a copy of an object without a socket counts nothing. *)
LEMMA CopyConstructStep ==
    ASSUME IInv, ~spoilt, NEW o \in Objects, NEW p \in Objects, CopyConstruct(o, p)
    PROVE  IInv'
<1>1. Sound(obj, refs, table, opened, hollow) /\ OwnSrc(obj, buffers)
      /\ buffers \in SUBSET Sockets /\ obj \in [Objects -> Records]
  BY DEF IInv, TypeOK
<1>2. ~obj[o].conn
  BY <1>1 DEF CopyConstruct, Live, Sound, Typed, Attached
<1>s. buffers' \in SUBSET Sockets /\ spoilt' \in BOOLEAN
  BY <1>1 DEF CopyConstruct, IInv, TypeOK
<1>3. CASE obj[p].conn
  <2>1. Sound([obj EXCEPT ![o] = obj[p]], [refs EXCEPT ![obj[p].refs] = @ + 1], table, opened, hollow)
    BY <1>1, <1>2, <1>3, Share
  <2>2. OwnSrc([obj EXCEPT ![o] = obj[p]], buffers)
    BY <1>1, <1>2, <1>3, ShareSrc
  <2>3. /\ obj' = [obj EXCEPT ![o] = obj[p]] /\ refs' = [refs EXCEPT ![obj[p].refs] = @ + 1]
        /\ table' = table /\ opened' = opened /\ hollow' = hollow /\ buffers' = buffers
    BY <1>3 DEF CopyConstruct
  <2>4. Sound(obj', refs', table', opened', hollow') /\ OwnSrc(obj', buffers')
    BY <2>1, <2>2, <2>3
  <2> QED
    BY <1>s, <2>4, SoundStep
<1>4. CASE ~obj[p].conn
  <2>1. RefsLeft(o) = refs /\ TableLeft(o) = table /\ BuffersLeft(o) = buffers
    BY <1>2 DEF RefsLeft, TableLeft, BuffersLeft, Last
  <2>2. obj[p] \in Records /\ obj[p].src = None
    BY <1>1, <1>4 DEF OwnSrc
  <2>3. Sound([obj EXCEPT ![o] = obj[p]], refs, table, opened, hollow)
    BY <1>1, <1>4, <2>1, <2>2, Release
  <2>4. OwnSrc([obj EXCEPT ![o] = obj[p]], buffers)
    BY <1>1, <1>4, <2>1, <2>2, ReleaseSrc
  <2>5. /\ obj' = [obj EXCEPT ![o] = obj[p]] /\ refs' = refs
        /\ table' = table /\ opened' = opened /\ hollow' = hollow /\ buffers' = buffers
    BY <1>4 DEF CopyConstruct
  <2>6. Sound(obj', refs', table', opened', hollow') /\ OwnSrc(obj', buffers')
    BY <2>3, <2>4, <2>5
  <2> QED
    BY <1>s, <2>6, SoundStep
<1> QED
  BY <1>3, <1>4

LEMMA DestroyStep ==
    ASSUME IInv, ~spoilt, NEW o \in Objects, Destroy(o)
    PROVE  IInv'
<1>1. Sound(obj, refs, table, opened, hollow) /\ OwnSrc(obj, buffers)
      /\ buffers \in SUBSET Sockets
  BY DEF IInv, TypeOK
<1>2. NoObject \in Records /\ ~NoObject.conn /\ NoObject.src = None
  BY DEF NoObject, Records
<1>3. Sound([obj EXCEPT ![o] = NoObject], RefsLeft(o), TableLeft(o), opened, hollow)
  BY <1>1, <1>2, Release
<1>4. OwnSrc([obj EXCEPT ![o] = NoObject], BuffersLeft(o))
  BY <1>1, <1>2, ReleaseSrc
<1>5. Sound(obj', refs', table', opened', hollow') /\ OwnSrc(obj', buffers')
  BY <1>3, <1>4, Zenon DEF Destroy
<1>6. buffers' \in SUBSET Sockets /\ spoilt' \in BOOLEAN
  BY <1>1 DEF Destroy, BuffersLeft, IInv, TypeOK
<1> QED
  BY <1>5, <1>6, SoundStep

(* o = p: check_close() first, then one more user of what p has.  Of       *)
(* itself, o takes what check_close() left of it: all or nothing.          *)
LEMMA AssignStep ==
    ASSUME IInv, ~spoilt, NEW o \in Objects, NEW p \in Objects, Assign(o, p)
    PROVE  IInv'
<1>1. /\ Sound(obj, refs, table, opened, hollow) /\ OwnSrc(obj, buffers)
      /\ buffers \in SUBSET Sockets /\ obj \in [Objects -> Records]
      /\ refs \in [Sockets -> Nat]
  BY DEF IInv, TypeOK
<1>2. /\ table' = TableLeft(o) /\ buffers' = BuffersLeft(o)
      /\ opened' = opened /\ hollow' = hollow /\ spoilt' = spoilt
  BY DEF Assign
<1>3. buffers' \in SUBSET Sockets /\ spoilt' \in BOOLEAN
  BY <1>1, <1>2 DEF BuffersLeft, IInv, TypeOK
<1>4. Unconnected \in Records /\ ~Unconnected.conn /\ Unconnected.src = None
  BY DEF Unconnected, NoObject, Records
<1>5. CASE p # o /\ obj[p].conn
  <2> DEFINE b == [obj EXCEPT ![o] = Unconnected]
  <2>1. Sound(b, RefsLeft(o), TableLeft(o), opened, hollow)
    BY <1>1, <1>4, Release
  <2>2. OwnSrc(b, BuffersLeft(o))
    BY <1>1, <1>4, ReleaseSrc
  <2>3. ~b[o].conn /\ b[p] = obj[p] /\ b \in [Objects -> Records]
    BY <1>1, <1>4, <1>5
  <2>4. Sound([b EXCEPT ![o] = b[p]], [RefsLeft(o) EXCEPT ![b[p].refs] = @ + 1],
              TableLeft(o), opened, hollow)
    <3> HIDE DEF b
    <3> QED
      BY <1>5, <2>1, <2>3, Share
  <2>5. OwnSrc([b EXCEPT ![o] = b[p]], BuffersLeft(o))
    <3> HIDE DEF b
    <3> QED
      BY <1>5, <2>2, <2>3, ShareSrc
  <2>6. obj' = [b EXCEPT ![o] = b[p]]
    BY <1>1, <1>5, <2>3 DEF Assign
  <2>7. refs' = [RefsLeft(o) EXCEPT ![b[p].refs] = @ + 1]
    BY <1>5, <2>3 DEF Assign
  <2>8. Sound(obj', refs', table', opened', hollow') /\ OwnSrc(obj', buffers')
    BY <1>2, <2>4, <2>5, <2>6, <2>7
  <2> QED
    BY <1>3, <2>8, SoundStep
<1>6. CASE p # o /\ ~obj[p].conn
  <2>1. obj[p] \in Records /\ obj[p].src = None
    BY <1>1, <1>6 DEF OwnSrc
  <2>2. Sound([obj EXCEPT ![o] = obj[p]], RefsLeft(o), TableLeft(o), opened, hollow)
    BY <1>1, <1>6, <2>1, Release
  <2>3. OwnSrc([obj EXCEPT ![o] = obj[p]], BuffersLeft(o))
    BY <1>1, <1>6, <2>1, ReleaseSrc
  <2>4. obj' = [obj EXCEPT ![o] = obj[p]] /\ refs' = RefsLeft(o)
    BY <1>6 DEF Assign
  <2>5. Sound(obj', refs', table', opened', hollow') /\ OwnSrc(obj', buffers')
    BY <1>2, <2>2, <2>3, <2>4
  <2> QED
    BY <1>3, <2>5, SoundStep
<1>7. CASE p = o /\ Last(o)
  <2>1. Sound([obj EXCEPT ![o] = Unconnected], RefsLeft(o), TableLeft(o), opened, hollow)
    BY <1>1, <1>4, Release
  <2>2. OwnSrc([obj EXCEPT ![o] = Unconnected], BuffersLeft(o))
    BY <1>1, <1>4, ReleaseSrc
  <2>3. obj' = [obj EXCEPT ![o] = Unconnected] /\ refs' = RefsLeft(o)
    BY <1>4, <1>7 DEF Assign, ObjectLeft
  <2>4. Sound(obj', refs', table', opened', hollow') /\ OwnSrc(obj', buffers')
    BY <1>2, <2>1, <2>2, <2>3
  <2> QED
    BY <1>3, <2>4, SoundStep
<1>8. CASE p = o /\ ~Last(o)
  <2>1. obj' = obj /\ table' = table /\ buffers' = buffers
    BY <1>1, <1>2, <1>8 DEF Assign, ObjectLeft, TableLeft, BuffersLeft
  <2>2. refs' = refs
    <3>1. CASE obj[o].conn
      <4>1. obj[o].refs \in Sockets /\ refs[obj[o].refs] \in Nat
        BY <1>1, <3>1, Sharers
      <4> QED
        BY <1>1, <1>8, <3>1, <4>1 DEF Assign, ObjectLeft, RefsLeft
    <3>2. CASE ~obj[o].conn
      BY <1>8, <3>2 DEF Assign, ObjectLeft, RefsLeft
    <3> QED
      BY <3>1, <3>2
  <2>3. Sound(obj', refs', table', opened', hollow') /\ OwnSrc(obj', buffers')
    BY <1>1, <1>2, <2>1, <2>2
  <2> QED
    BY <1>3, <2>3, SoundStep
<1> QED
  BY <1>5, <1>6, <1>7, <1>8

(* connect(): check_close() first, then the next socket.  Only an object   *)
(* that shared a UDP socket and leaves for TCP is spoilt by it.            *)
LEMMA ConnectStep ==
    ASSUME IInv, ~spoilt, NEW o \in Objects, NEW tcp \in BOOLEAN, Connect(o, tcp)
    PROVE  IInv'
<1> DEFINE b == [obj EXCEPT ![o] = Unconnected]
           t == TableLeft(o)
           s == ObjectLeft(o).src
           x == Connected(Lowest(t), tcp, s)
<1>1. /\ Sound(obj, refs, table, opened, hollow) /\ OwnSrc(obj, buffers)
      /\ buffers \in SUBSET Sockets /\ obj \in [Objects -> Records]
      /\ opened \in 0 .. MaxSockets
  BY DEF IInv, TypeOK
<1>2. Unconnected \in Records /\ ~Unconnected.conn /\ Unconnected.src = None
  BY DEF Unconnected, NoObject, Records
<1>3. Sound(b, RefsLeft(o), t, opened, hollow) /\ OwnSrc(b, BuffersLeft(o))
  BY <1>1, <1>2, Release, ReleaseSrc
<1>4. s \in Sockets \cup {None} /\ (~ObjectLeft(o).conn => s = None)
  BY <1>1, <1>2 DEF ObjectLeft, Records, OwnSrc
<1>5. /\ Lowest(t) \in FreeFds(t) /\ Lowest(t) \in Fds /\ opened < MaxSockets
      /\ spoilt' = (tcp /\ ObjectLeft(o).conn /\ s # None)
  BY RoomIs DEF Connect
<1>6. ~b[o].conn /\ [b EXCEPT ![o] = x] = [obj EXCEPT ![o] = x]
  BY <1>1, <1>2
<1>7. /\ obj' = [obj EXCEPT ![o] = x] /\ buffers' = BuffersLeft(o) \cup Allocated(tcp)
      /\ refs' = [RefsLeft(o) EXCEPT ![opened + 1] = 1]
      /\ table' = [t EXCEPT ![Lowest(t)] = opened + 1] /\ opened' = opened + 1
      /\ hollow' = hollow
  BY DEF Connect
<1> HIDE DEF b, t, s, x
<1>8. /\ x \in Records /\ x.exists /\ x.conn
      /\ x.fd = Lowest(t) /\ x.refs = opened + 1
      /\ Allocated(tcp) \in SUBSET Sockets
      /\ (tcp => s = None) =>
            x.src \in {None, opened + 1} /\ Allocated(tcp) = {x.src} \ {None}
  BY <1>1, <1>4, <1>5, ConnectedType DEF x
<1>9. Sound(obj', refs', table', opened', hollow')
  <2>1. Sound([b EXCEPT ![o] = x], [RefsLeft(o) EXCEPT ![opened + 1] = 1],
              [t EXCEPT ![Lowest(t)] = opened + 1], opened + 1, hollow)
    BY <1>3, <1>5, <1>6, <1>8, Adopt
  <2> QED
    BY <1>6, <1>7, <2>1
<1>10. OwnSrc(obj', buffers') \/ spoilt'
  <2> SUFFICES ASSUME tcp => s = None PROVE OwnSrc(obj', buffers')
    BY <1>4, <1>5
  <2>1. OwnSrc([b EXCEPT ![o] = x], BuffersLeft(o) \cup ({x.src} \ {None}))
    BY <1>3, <1>6, <1>8, AdoptSrc
  <2> QED
    BY <1>6, <1>7, <1>8, <2>1
<1>11. buffers' \in SUBSET Sockets /\ spoilt' \in BOOLEAN
  BY <1>1, <1>5, <1>7, <1>8 DEF BuffersLeft
<1> QED
  BY <1>9, <1>10, <1>11, SoundStep

(* connect() that fails: an object that shared is spoilt, but still holds  *)
(* what it held, and so does another; x is the object as it is left.       *)
LEMMA LetGo ==
    ASSUME IInv, ~spoilt, NEW o \in Objects, NEW x \in Records,
           x.conn = ObjectLeft(o).conn, x.src = ObjectLeft(o).src, x.refs = ObjectLeft(o).refs,
           obj' = [obj EXCEPT ![o] = x], refs' = RefsLeft(o), table' = TableLeft(o),
           buffers' = BuffersLeft(o), UNCHANGED <<opened, hollow>>,
           spoilt' \in BOOLEAN, ObjectLeft(o).conn => spoilt'
    PROVE  IInv'
<1>1. /\ Sound(obj, refs, table, opened, hollow) /\ OwnSrc(obj, buffers)
      /\ buffers \in SUBSET Sockets /\ TypeOK /\ OpenIsHeld
  BY DEF IInv, TypeOK
<1>2. buffers' \in SUBSET Sockets
  BY <1>1 DEF BuffersLeft
<1>3. CASE ~ObjectLeft(o).conn
  <2>1. ObjectLeft(o).src = None
    BY <1>1, <1>3 DEF ObjectLeft, Unconnected, NoObject, OwnSrc
  <2>2. Sound([obj EXCEPT ![o] = x], RefsLeft(o), TableLeft(o), opened, hollow)
    BY <1>1, <1>3, Release
  <2>3. OwnSrc([obj EXCEPT ![o] = x], BuffersLeft(o))
    BY <1>1, <1>3, <2>1, ReleaseSrc
  <2>4. Sound(obj', refs', table', opened', hollow') /\ OwnSrc(obj', buffers')
    BY <2>2, <2>3
  <2> QED
    BY <1>2, <2>4, SoundStep
<1>4. CASE ObjectLeft(o).conn
  <2>1. ~Last(o) /\ ObjectLeft(o) = obj[o] /\ obj[o].conn
    BY <1>4 DEF ObjectLeft, Unconnected, NoObject
  <2>2. table' = table
    BY <2>1 DEF TableLeft
  <2>3. refs' \in [Sockets -> Nat]
    <3>1. refs[obj[o].refs] \in Nat \ {0}
      BY <1>1, <2>1, Sharers
    <3>2. refs' = [refs EXCEPT ![obj[o].refs] = @ - 1]
      BY <2>1 DEF RefsLeft
    <3>3. refs[obj[o].refs] - 1 \in Nat
      BY <3>1
    <3>4. refs \in [Sockets -> Nat]
      BY <1>1 DEF TypeOK
    <3> QED
      BY <3>2, <3>3, <3>4
  <2>4. TypeOK'
    BY <1>1, <1>2, <2>2, <2>3 DEF TypeOK
  <2>5. \A q \in Objects : Holds(q)' = Holds(q)
    BY <1>1, <2>1 DEF Holds, TypeOK
  <2>6. OpenIsHeld'
    BY <1>1, <2>2, <2>5 DEF OpenIsHeld
  <2> QED
    BY <1>4, <2>4, <2>6 DEF IInv
<1> QED
  BY <1>3, <1>4

LEMMA ConnectFailsStep ==
    ASSUME IInv, ~spoilt, NEW o \in Objects, ConnectFails(o)
    PROVE  IInv'
<1> DEFINE f == Tried(TableLeft(o))
           x == [ObjectLeft(o) EXCEPT !.fd = f]
<1>1. f \in Fds \cup {None}
  BY LowestIsFree DEF Tried, FreeFds
<1>2. ObjectLeft(o) \in Records
  BY DEF IInv, ObjectLeft, TypeOK, Unconnected, NoObject, Records
<1>3. x \in Records /\ x.conn = ObjectLeft(o).conn /\ x.src = ObjectLeft(o).src
      /\ x.refs = ObjectLeft(o).refs
  <2> HIDE DEF f
  <2> QED
    BY <1>1, <1>2 DEF Records
<1>4. /\ obj' = [obj EXCEPT ![o] = x] /\ refs' = RefsLeft(o) /\ table' = TableLeft(o)
      /\ buffers' = BuffersLeft(o) /\ UNCHANGED <<opened, hollow>>
      /\ spoilt' = ObjectLeft(o).conn
  BY DEF ConnectFails
<1>5. spoilt' \in BOOLEAN
  BY <1>2, <1>4 DEF Records
<1> HIDE DEF x
<1> QED
  BY <1>3, <1>4, <1>5, LetGo

LEMMA ConnectUnresolvedStep ==
    ASSUME IInv, ~spoilt, NEW o \in Objects, ConnectUnresolved(o)
    PROVE  IInv'
<1>1. ObjectLeft(o) \in Records
  BY DEF IInv, ObjectLeft, TypeOK, Unconnected, NoObject, Records
<1>2. /\ obj' = [obj EXCEPT ![o] = ObjectLeft(o)] /\ refs' = RefsLeft(o)
      /\ table' = TableLeft(o) /\ buffers' = BuffersLeft(o) /\ UNCHANGED <<opened, hollow>>
  BY DEF ConnectUnresolved
<1>3. ObjectLeft(o).conn \in BOOLEAN
  BY <1>1 DEF Records
<1>4. spoilt' \in BOOLEAN /\ (ObjectLeft(o).conn => spoilt')
  BY <1>3 DEF ConnectUnresolved
<1> QED
  BY <1>1, <1>2, <1>4, LetGo
-----------------------------------------------------------------------------
LEMMA NextIInv == IInv /\ [Next]_vars => IInv'
<1> SUFFICES ASSUME IInv, [Next]_vars PROVE IInv'
  OBVIOUS
<1>1. CASE UNCHANGED vars
  <2>1. TypeOK' /\ OpenIsHeld'
    BY <1>1 DEF vars, IInv, TypeOK, OpenIsHeld, Holds
  <2>2. (spoilt \/ (Sound(obj, refs, table, opened, hollow) /\ OwnSrc(obj, buffers)))'
    BY <1>1 DEF vars, IInv
  <2> QED
    BY <2>1, <2>2 DEF IInv
<1>2. CASE Next
  <2>1. PICK o \in Objects :
          \/ Construct(o) \/ Destroy(o) \/ ConnectFails(o) \/ ConnectUnresolved(o)
          \/ \E tcp \in BOOLEAN :
                ConstructConnected(o, tcp) \/ ConstructAroundNone(o, tcp) \/ Connect(o, tcp)
          \/ \E p \in Objects : CopyConstruct(o, p) \/ Assign(o, p)
    BY <1>2 DEF Next
  <2>2. ~spoilt
    BY <1>2 DEF Next
  <2>3. CASE Construct(o)
    BY <2>2, <2>3, ConstructStep
  <2>4. CASE Destroy(o)
    BY <2>2, <2>4, DestroyStep
  <2>5. CASE ConnectFails(o)
    BY <2>2, <2>5, ConnectFailsStep
  <2>6. CASE \E tcp \in BOOLEAN : ConstructConnected(o, tcp)
    BY <2>2, <2>6, ConstructConnectedStep
  <2>7. CASE \E tcp \in BOOLEAN : Connect(o, tcp)
    BY <2>2, <2>7, ConnectStep
  <2>8. CASE \E p \in Objects : CopyConstruct(o, p)
    BY <2>2, <2>8, CopyConstructStep
  <2>9. CASE \E p \in Objects : Assign(o, p)
    BY <2>2, <2>9, AssignStep
  <2>10. CASE \E tcp \in BOOLEAN : ConstructAroundNone(o, tcp)
    BY <2>2, <2>10, ConstructAroundNoneStep
  <2>11. CASE ConnectUnresolved(o)
    BY <2>2, <2>11, ConnectUnresolvedStep
  <2> QED
    BY <2>1, <2>3, <2>4, <2>5, <2>6, <2>7, <2>8, <2>9, <2>10, <2>11
<1> QED
  BY <1>1, <1>2

LEMMA SpecIInv == Spec => []IInv
<1>1. Init => IInv
  BY InitIInv
<1>2. IInv /\ [Next]_vars => IInv'
  BY NextIInv
<1> QED
  BY <1>1, <1>2, PTL DEF Spec
-----------------------------------------------------------------------------
(* *_refs is the number of objects that use the socket, or a -1 together,  *)
(* until a connect() breaks it (socket.cpp:200-203).                       *)
THEOREM RefsCorrect == Spec => []RefsExact
<1>1. IInv => RefsExact
  BY DEF IInv, Sound, Counted, UserCount, RefsExact, Users
<1> QED
  BY <1>1, SpecIInv, PTL

(* A connected object's descriptor is its own socket, or -1 if it was made *)
(* around one; its address buffer is its own or none, and no buffer is     *)
(* lost or deleted twice, until a connect() that spoils (socket.cpp).      *)
THEOREM SrcCorrect == Spec => []SrcIsOwn
<1>1. IInv => SrcIsOwn
  BY DEF IInv, Sound, Typed, Attached, StillOpen, OwnSrc, SrcIsOwn
<1> QED
  BY <1>1, SpecIInv, PTL

(* Every operation changes one object. *)
LEMMA OneAtATime ==
    ASSUME IInv, Next
    PROVE  \E o \in Objects : \A q \in Objects : q # o => obj'[q] = obj[q]
<1>1. PICK o \in Objects :
        \/ Construct(o) \/ Destroy(o) \/ ConnectFails(o) \/ ConnectUnresolved(o)
        \/ \E tcp \in BOOLEAN :
              ConstructConnected(o, tcp) \/ ConstructAroundNone(o, tcp) \/ Connect(o, tcp)
        \/ \E p \in Objects : CopyConstruct(o, p) \/ Assign(o, p)
  BY DEF Next
<1>2. \E x : obj' = [obj EXCEPT ![o] = x]
  BY <1>1 DEF Construct, Destroy, ConnectFails, ConnectUnresolved, ConstructConnected,
              ConstructAroundNone, Connect, CopyConstruct, Assign
<1> QED
  BY <1>2 DEF IInv, TypeOK

(* No object in use has the counter that is made next. *)
LEMMA OthersKeep ==
    ASSUME IInv, Next, NEW q \in Objects, obj'[q] = obj[q]
    PROVE  Holds(q)' = Holds(q)
<1>1. obj[q].conn => (obj[q].refs \in hollow' <=> obj[q].refs \in hollow)
  <2>1. hollow' = hollow \/ hollow' = hollow \cup {opened + 1}
    BY DEF Next, Construct, Destroy, ConnectFails, ConnectUnresolved, ConstructConnected,
           ConstructAroundNone, Connect, CopyConstruct, Assign
  <2>2. Sound(obj, refs, table, opened, hollow) /\ opened \in 0 .. MaxSockets
    BY DEF IInv, TypeOK, Next
  <2>3. obj[q].conn => obj[q].refs \in Sockets /\ obj[q].refs <= opened
    BY <2>2, Sharers, Zenon
  <2>4. obj[q].conn => obj[q].refs # opened + 1
    BY <2>2, <2>3 DEF Sockets
  <2> QED
    BY <2>1, <2>4
<1> QED
  BY <1>1 DEF Holds

(* A step is one object taking what it then holds, in the abstract module. *)
LEMMA StepIsTake ==
    ASSUME IInv, IInv', Next
    PROVE  Shared!Next
<1> DEFINE held == [q \in Objects |-> Holds(q)]
<1>1. PICK o \in Objects : \A q \in Objects : q # o => obj'[q] = obj[q]
  BY OneAtATime
<1>2. PICK k \in Sockets \cup {None} : k = Holds(o)'
  BY DEF IInv, TypeOK, Records, Holds
<1>3. \A q \in Objects : q # o => Holds(q)' = Holds(q)
  BY <1>1, OthersKeep
<1>4. held' = [held EXCEPT ![o] = k]
  BY <1>2, <1>3
<1>5. ({table[f] : f \in Fds} \ {None})' = {held'[p] : p \in Objects} \ {None}
  BY DEF IInv, OpenIsHeld, Holds
<1>6. Shared!Take(o, k)
  BY <1>4, <1>5 DEF Shared!Take, Holds
<1> QED
  BY <1>6 DEF Shared!Next

(* check_close() closes a socket exactly when its last user lets go of it  *)
(* (socket.cpp:200-203), also in the step after which a counter is wrong.  *)
THEOREM ImplementsSharedDescriptor == Spec => SharesDescriptors
<1>1. Init => Shared!Init
  BY DEF Init, Shared!Init, Holds, NoObject
<1>2. IInv /\ IInv' /\ [Next]_vars =>
        [Shared!Next]_<<[o \in Objects |-> Holds(o)],
                        {table[f] : f \in Fds} \ {None}>>
  <2>1. CASE UNCHANGED vars
    BY <2>1 DEF vars, Holds
  <2> QED
    BY <2>1, StepIsTake
<1> QED
  BY <1>1, <1>2, SpecIInv, PTL DEF Spec, SharesDescriptors, Shared!Spec
=============================================================================
