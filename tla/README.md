# Networking2011 in TLA+

TLA+ models of the programs of this repository, the TLC configurations that check them on small instances, and TLAPS
proofs that hold for every instance. `PROJECT.json` lists the parts, the runs, the mutants, the hazards, the findings and
the lines of the source that each definition stands for.

## 1. Inventory

The repository holds five programs that share no code.

| part | state | operations | interacts with |
|---|---|---|---|
| `scaling` thread pool (`threadpool.hpp/.cpp`) | a deque of tasks, `_running`, the worker threads, two `uint8_t` counters | `put`, `_take`, `_exec_thread`, `stop` | callers from any thread; a mutex and a condition variable |
| `scaling` Socket (`Socket.hpp/.cpp`) | type, descriptor, shared counter `_count` | constructors, `Accept`, copy, move, `=`, destructor, `Send`, `Recv` | the kernel's descriptors |
| `scaling` Stream, Message | the Socket below; the tables of message types | `<<`, `>>`, `Register`, `Get` | Socket |
| `scaling` Server, main | accepted connections | the `select` loop | Socket |
| `scheduler` EventQueue (`Event.hpp/.cpp`) | a deque of events, the looping thread | `Signal`/`push`, `Enter`, `Terminate` | every thread; Log |
| `scheduler` Log (`Logging.hpp/.cpp`) | stream, shared buffer, indentation | `<<`, `endl`, `flush`, `catb`, `cate` | EventQueue: text travels as events |
| `scheduler` Scheduler, Agent | options, pid, agents by pid | constructor, signal handler, `handle_chld`, `kill` ... | EventQueue and Log, from a signal handler too |
| `proj1` sync_socket | descriptor, shared counter `_refs`, shared address `_src` | constructors, copy, `=`, `connect`, destructor | the kernel's descriptors |
| `proj1` service, client, server | one listening descriptor, the callback loop, the client's alarm | `add_port`, `listen`; one message, one reply | each other over TCP or UDP; sync_socket |
| `proj2` awget, ss | per connection: list of stones, two sockets, a temporary file | receive the list, pick a stone, forward, relay, or `wget` and serve | each other over TCP; the file system |
| `proj3` resolver | list of servers per activation, the stack of servers | `attempt`, `makeQuestion`, `sendOut`, `parse`, `nextParse`, `successParse`, `recParse` | DNS servers over UDP |

What is hard in them, and what makes each right:

- *Thread pool*: `put` decides from a counter of waiting threads whether to make a thread; `_running` is read without the
  lock; `stop` iterates and joins without the lock; condition variables wake up by themselves. Right: counters exact, no
  lost wake-up, every task started once and in order, `stop` comes back and leaves nothing running.
- *EventQueue*: a single `if` before `wait`, an uninitialised `logging`, `Terminate()` as an exception through the loop.
  Right: order kept across `Terminate` and a new `Enter`, no sleep with work queued, braces matched.
- *Log*: an unlocked buffer copied, queued and cleared in three steps. Right: text in order, none lost, categories nested.
- *Scheduler*: a signal handler that pushes events on the thread it interrupted. Right: every dead child reaped and
  reported once, and it ends unless it waits for itself.
- *Both socket classes*: counted sharing of a descriptor whose number the kernel gives out again. Right: a socket is open
  exactly as long as somebody uses it, and nobody uses somebody else's.
- *proj1 service*: a serial server with a backlog, lengths that are never initialised, a descriptor closed twice, datagrams that
  are lost or late, addresses that are never initialised, an alarm that races the answer. Right: who is acknowledged was heard (over
  UDP: somebody on its port was), every client ends, the backlog drains.
- *Stream and Message*: values without marks on a stream that is cut anywhere and may end anywhere, results that are ignored.
  Right: what is read is what was written, all of it, until the connection fails.
- *Stepping stones*: a chain of processes that wait for each other, any of which may die, with threads that share a
  directory. Right: the file asked for arrives, routes follow the chain, nobody waits for ever.
- *Resolver*: recursion over delegations that may be circular, on a network that loses datagrams. Right: the walk stays on
  delegations and ends; names, servers and signatures are taken from a reply's bytes as the server meant them.

## 2. Modules

| module | models | composed with |
|---|---|---|
| `TaskPool` | abstract: what a task pool promises | implemented by `ThreadPool` |
| `ThreadPool` | `scaling/src/threadpool.*` | |
| `ThreadPoolProofs` | 7 theorems | |
| `EventQueue`, `MCEventQueue` | `scheduler` Event.hpp, Event.cpp | |
| `DeliveryProofs` | 9 theorems: 3 about `EventQueue`, 2 about `SchedLog`, 1 about `MessageStream`, 3 about `DnsWire` | extends all four, which share the lemmas on sequences |
| `SchedLog` | Logging.hpp, Logging.cpp | extends `EventQueue`: every log event goes through its actions |
| `Scheduler` | Scheduler.cpp | its own finer-grained queue (a signal may split a critical section) |
| `SchedulerProofs` | 4 theorems | |
| `SteppingStone`, `MCSteppingStone` | `proj2` awget.c and ss.c together | |
| `SteppingStoneProofs` | 3 theorems | |
| `Resolver`, `MCResolver` | `attempt()` of `proj3/myresolver.cpp` | replies are records; `DnsWire` has their bytes |
| `ResolverProofs` | 3 theorems | |
| `DnsWire`, `MCDnsWire` | `makeQuestion()` and the parsing of `proj3/myresolver.cpp`, byte by byte | |
| `SharedDescriptor` | abstract: objects that share open sockets | implemented by both classes below |
| `SyncSocket` | `proj1/socket.*` | |
| `SyncSocketProofs` | 3 theorems | |
| `ScalingSocket` | class `soc::Socket` of `scaling/src/Socket.*` | |
| `ScalingSocketProofs` | 3 theorems | |
| `EchoService` | `proj1` service, server and clients together | |
| `EchoServiceProofs` | 2 theorems | |
| `MessageStream`, `MCMessageStream` | `Send`, `Recv`, `Stream`, `Message` of `scaling/src/Socket.*`, the class of its `main.cpp` | |

A definition is named after the code it stands for, and a definition whose comment begins "Mutant of" is a plausible bug in
the one that follows it; no behaviour uses it.

### ThreadPool

`queue`, `running`, `waiting`, `working` are the members of the same name (`waiting` and `working` modulo 256), `threads` is
`_threads.size()`, `pc[w]` the place of a worker. What runs under `_lock` from beginning to end is one action. The
unlocked steps are separate: `Check` (`while(_running)`), and `JoinBegin`, `Join`, `StopReturn` (the loop of `stop()`); a `put()`
that pushes into `_threads` while that loop iterates may crash the process, one outcome of `PutSpawn`. `SpuriousWakeup` lets
a waiter go at any moment. `submitted` and `started` are histories.

### EventQueue, SchedLog

`Push` is `Signal()`. A looper goes `idle -> fetch -> (wait -> woken) -> start -> run -> fetch`, and through `leave` when an event
threw. `Kinds` has events with a name and without one that return, events with a name and without one that call `Terminate()`, and the
two halves of a category: what is named gets a brace, whether it then returns (`Return`) or throws (`Throw`). The test of the empty queue is an `if`, so a spuriously woken looper reads the front of an empty deque: pc becomes
`"undefined"`. `cats` is the stack of open categories. `SchedLog` adds the writers: `Insert`, then `Flush` (copy), `FlushSignal`
(push) and `FlushClear` as three steps with nothing to protect them, and the braces of `catb`/`cate`. Text written from inside
the loop goes straight to `file`. The loop of the log ends, too, at the `Terminate()` that the Scheduler queues (`PushTerminate`, at
most `MaxTerminates` times): text flushed behind it stays in the queue until somebody enters the loop again, which nobody has to.

### Scheduler

`main` walks through the constructor under all combinations of six options; each push, each pop, and entering and leaving
the loop is two steps (lock; change and unlock), because SIGCHLD (`Deliver`) may arrive between them and its handler then runs on the same thread until it
returns or blocks on the lock (which, held by the interrupted code, is never released). The locks inside `malloc` and the streams, which a handler that allocates
may meet in the same way, are left out. `Die` makes a zombie and sets the
one pending bit of SIGCHLD.

### SteppingStone

One node per awget process and per stone thread, one link per TCP connection. awget's `main()` and `curr_ss()`
do the same until the file arrives and share actions. `held` is the descriptor table of each stone with the kernel's
lowest-free rule, which is what names temporary files (`file_<s>.tmp`). `setting` is chosen once: what is asked for, how many
processes may be killed (`Crash`), and whether list elements come whole. If not, `Receipts` says what one `recv()` may return: an
element, or a part of it, which makes this element and all that follow it `Junk`. What stands in a `Junk` element may be the name of any stone (`Names`: dialled like any other),
a name that nothing resolves (`LookupFails`), or something that kills the process (`ConnectJunk`). `SigPipe`, `SendFails` (the
code's `send() == -1`), `RecvReset`, `Refused`, `CannotServe` and
the three ways of reading past the end of a stream (`SpinHeader`, `SpinRelay`, `Junk` elements) are the code's own failure paths. A
`recv()` of 0 bytes leaves the file header as it was on the stack: any value.

### Resolver

`frames` are the activations of `attempt()`, each with its list; `stack` is the vector of that name. `reply` fixes what each server
answers, chosen once, so TLC explores every world of the given size. `dnsPacket` is never cleared, so from the second
query of an activation on the reply is parsed at a wrong offset (`Misplaced`): the outcome is then arbitrary. `SendOutFails` is the exit of
`sendOut()` when one of its four calls fails; it is outside `Walk`, the steps that fairness is about.

### DnsWire

`records` are the bytes of a reply, `location` the parser's place in them, which starts where the packet *sent* says: `numBytes`
counts up from whatever the stack held (`Unassigned`), and a packet that holds more than one query is longer than the server's echo
of the question. `Hop` is one call of `recParse()`, `Walk` as many as are nested (at most `MaxHops`); they, `atoi16` (signed
characters), `Pointed` (six bits of a pointer) and `Remainder` (the length of a signature) are operators that do what the code does.
`reply` keeps what the server meant, and the properties compare the two through `Meant`, which follows pointers as RFC 1035 says.
`ServerReplies` is every reply that a packet has room for; `WellFormed` adds what the parser takes for granted of an address (16
bytes) and of a signature (the name of one of the `Signers`, uncompressed as RFC 4034 wants it, behind 18 bytes). Reading beyond the end and circles of pointers end the model
(`nextParseFails`).

### SyncSocket, ScalingSocket

Objects that exist or not, a counter per socket, and the kernel's table of descriptors (lowest free number first). The
operations are the special members and `connect`/`Accept`, in any order on any objects, an object assigned to itself included.
In `ScalingSocket`, writing through a NULL `_count` ends the process (`crashed`). In `SyncSocket`, `buffers` are the allocated `_src`, and
`hollow` the counters made around a -1: `sync_socket(fd)` looks at nothing, so what `listen()` wraps when `accept()` failed is connected,
counted and closed like a socket (`ConstructAroundNone`). Three calls leave objects half changed or are undefined (`spoilt`): a `connect()` that
fails on a shared object, a `connect()` over TCP of an object that shares a UDP socket, and a `connect()` whose `getaddrinfo()` failed and
that then follows the uninitialised `servers` (`ConnectUnresolved`; if that happens to be NULL it only throws). What happens after them is not
modelled; the properties say that nothing else does it.

### EchoService

`tcp` is the `-t` option. Clients walk from `start` through `connected`, `sent`, `waiting`, `got` to an end; `Timeout` may come at any
moment once `SetAlarm` was done, `Kill` at any moment. The server is `listen()`: `Accept`, `Receive`, `Reply`, then `Close` and `Destroy`, which
close the same number twice, against a table of descriptors. `addr_size`, uninitialised, is right, or wrong for good, from the first
`accept()` on. Over UDP neither `addr` nor its length is initialised and the result of `recvfrom()` is ignored, so the server may reply to the port the
datagram came from, to what an earlier call left in `addr`, or to nobody (`Address`), and after a `recvfrom()` that failed, too
(`ReceiveFails`). `net` holds datagrams, which are lost (`Lose`), stay
behind when they are delivered (a repetition), and arrive in any order; ports of clients that ended are given out again.

### MessageStream

A message is a sequence of values, each the bytes of one `Send()`; `SendPart` and `RecvPart` move any part of one at a time through a channel of
limited capacity. `Value` and `Bytes` are the two directions of the codecs, in two's complement, and a string is read as a C string. `Break`
resets the connection, after which `recv()` fails once and returns 0 from then on; a value whose `Recv()` failed is garbage
(`Garbage`), and may be a size or the type of a message.

## 3. Runs

Passing runs, their bounds, and what they show. Every property has a mutant of the code in `PROJECT.json` that breaks it.

| run | bounds | shows |
|---|---|---|
| `threadpool` | 4 tasks, 2 threads, spurious wake-ups | `CountersExact`, `NoLostWakeup`, `AtMostOneLateStart`, `StopQuiesces`; every task starts unless the pool stops, `stop()` returns, the pool implements `TaskPool`. More tasks than threads, so workers are reused, and two workers may sleep while two tasks arrive: with 3 tasks that never happens. |
| `eventqueue` | one looper, one event of each of the 6 kinds, 4 pushes, spurious wake-ups | `NoSleepWithWork`, `TakenInOrder`, `OwnBraceClosed`, `EveryEventTaken`; 4 events suffice for a category of another thread around a named event that returns or throws, and for a `Terminate` followed by a second `Enter` with events left |
| `log` | one writer, 2 pieces, buffer of 1 (so that it overflows), one category, one logging event, one `Terminate` (so that text is left behind it and a second `Enter` finds it), 10 pushes (never reached) | `TextInOrder`, `FlushedIsWritten` unless the loop ended |
| `scheduler` | 64 combinations of options, 2 children | `NoZombieForgotten`, `EachDeathOnce`, `EndsOrDeadlocks`; two children are enough for one signal to stand for two deaths |
| `stepping` | 2 requests in three settings: `<<a,b,a>>` and `<<b>>`, files of 1 and 2 parts; `<<a,b>>` and `<<b>>`, an empty file, one kill; `<<a,b,a>>` and `<<c>>` with lists in parts, where `c` does not run | 12 descriptors, as many as six threads of one stone can take (`DescriptorsAssumption`); two threads meet on a stone and a stone is listed twice. `RouteIsTheChain`: route and list left are always as long as the chain, and the same stones as long as lists came whole; `FileIsTheOneAskedFor`: with a kill or lists in parts, awget's file is right or something on its route failed; all are served and all threads end where nothing fails; nobody waits for ever except behind a spinning thread |
| `resolver` | 3 servers, 2 of them roots, every assignment of replies, of silence and of referral lists of up to 2 | `StackIsThePath`, `PathIsDelegation`, and termination although delegations may be circular, unless a server that is asked is silent; any send or receive may fail, which ends the program |
| `dns_wire` | 19 replies to 2 names, first and second query, clean and unclean `numBytes`, 20 labels and pointers per name | `NamesAreRight` up to the first uncompressed name and for pointers below 64; `ServersAreGlue`; `AnswerIsRight`. The replies hold compressed, plain and distant names, glue of both families, EDNS records in both places, short and long signatures, no signature, the root's |
| `sync_socket` | 3 objects, 3 descriptors, 4 sockets | `RefsExact`, `SrcIsOwn`, implements `SharedDescriptor` until a call spoils it, objects around -1 included, which hold nothing; descriptors are reused, which is what makes a wrong close visible |
| `scaling_socket` | 3 objects, 3 descriptors, 4 counters | `CountsExact`, implements `SharedDescriptor`, failing constructors, failing accepts and crashes included |
| `echo` | 3 clients, a backlog of 1, 2 ports for 3 clients (so that one is given out twice), 3 descriptors, 2 datagrams under way (so that one may be overtaken) | over both transports: `AckedWasHeard`, `ErrorMeansNotAccepted`, `EveryClientEnds`, `BacklogDrains`; with 3 clients one is served, one waits in the backlog and one in `connect()` |
| `message_stream` | 3 messages of 2 classes (the ends of a type's range, a NUL in a string, an empty string), bytes of 4 values (a long of 8 of them is a number TLC can hold), a channel of 5 bytes (less than a message, so that the writer blocks) | `ReadIsWritten`, `EveryMessageGot`, `GetEndsOrSpins`, with cuts at every place, a kill and a reset at any moment |

One run finds a violation: it states a sentence of the repository (quoted under `findings`) that the code does not keep.

| run | property | what happens |
|---|---|---|
| `log_two_writers` | `NothingLost` | text inserted between the copy and the clear of the buffer is lost |

Other places where the code does less than its comments say are outcomes of the models without a run of their own: a
spurious wake-up makes the event loop read an empty deque (`FetchNothing`); the options and the deaths of children queue events
before the header that is to be "the first event"; awget says that it received a file when the chain is broken (the exception in
`FileIsTheOneAskedFor`); two stones started in one directory would share temporary files (the run gives each its own, `Dir`); a silent
DNS server is never timed out (`StuckInRecv`) and a dead end below one server hides the answer behind another (`GiveUp`); names at an
offset of 64 or more, and all records behind an uncompressed name, are misread (the conditions of `NamesAreRight`); `s = s` closes a
`sync_socket` (`Assign`), and a failed `connect()` of a shared one leaves it connected without being counted (`ConnectFails`); a list of stones received in parts
sends the request to whatever stone its cut element names, which need not be on the chain (`Names`); a
`soc::Socket` that could not connect says that it is connected (`ClientFails`), and assigning a Socket without a counter ends the process
(`AssignCrashes`); `Recv()` never ends on a stream that was closed (`Spinning`).

### Fairness

Only what the operating system gives: a thread that can run is scheduled (weak fairness of each worker, looper, writer,
node or of the sequential program). In the pool and the queue a mutex is granted sooner or later, and tasks and events
return. In `SteppingStone` TCP delivers what it was given, `wget` ends, and no step is taken by necessity that kills a process. A
DNS server answers or is silent for good, and no call of `sendOut()` fails by necessity (weak fairness of `Walk`). In `EchoService` the server and every client are scheduled, and an alarm that was set
fires (it is one of the client's steps); no datagram is ever delivered by necessity before that. In `MessageStream` TCP carries what it
was given. Callers never have to call, children never have to die, and spurious wake-ups
never have to happen; one that finds the event queue empty ends in undefined behaviour, which the liveness properties of the
queue and of the log except.

Deadlock is not checked in any run: a thread pool nobody uses, a program that has ended, a stone without requests and a
bound that was reached are all legitimate ends. That the systems do not stop elsewhere is what the liveness properties say.

## 4. Proofs

`ThreadPoolProofs`, for every set of tasks and every number of threads of a `uint8_t`: `TypeCorrect`, `CountersCorrect`, `WakeupsCorrect`,
`OrderCorrect` (`Conserved`: tasks start in the order of the puts, each at most once, and none disappears; no run repeats it, as
`PoolSpec` implies it), `LateStartsBounded`, `StopCorrect`, and `RefinesTaskPool` (initial states and steps map to those of `TaskPool`; its
fairness stays with TLC). None of the properties is inductive alone. `IInv` adds: workers are created in order (`Created`), hold
a task exactly in `run` (`TaskHeld`), a worker that started late can only leave (`LateIsLast`), and the progress of `stop()` (`StopInv`:
after the flag nobody sleeps; the workers already joined have exited; those beyond the range it iterates over were created
after the flag was cleared and can only see it). The counters are handled through `Count`, the cardinality of the set of
workers at some places, and one lemma on how it changes when one worker moves. The assumptions are `NThreadsAssumption` and
`NoTaskAssumption` of `ThreadPool`.

`DeliveryProofs` has four parts. The first is about `EventQueue`, for any set of loopers and of events, with or without spurious
wake-ups: `WakeupsCorrect` and `OrderCorrect`. `IInv` is `TypeOK /\ NoSleepWithWork /\ TakenInOrder`; the argument is one lemma for
`Push` and one for `FetchPop` on the sequence `ran \o queue`, written by indices. `BracesCorrect` (`OwnBraceClosed`) has `OneLooper`
as its hypothesis: only start-up calls `Enter()`, and with two threads inside it is false. It needs `Braces`: a looper whose
`logging` is set runs a named event, whose brace is the last one open, as long as no `Enter()` found `logging` set by what was on
the stack. The invariant goes through both ends of a named event, the return and the throw (`Closed`), so that neither an event of the
same `Enter()` nor the first of the next one meets a brace or a `logging` that a `Terminate()` left behind.

The second part proves of `SchedLog` `TextCorrect` (`TextInOrder`) and `OneWriterLosesNothing` (`NothingLost`, which the run
`log_two_writers` refutes for two), for any number of pieces, any size of the buffer, any number of events and any of `Terminate()`: the text behind
one is still in the queue, in order, when the loop is entered again. The hypotheses are
`OneLooper` and `OneWriter`, as both are false with two; `WritersAssumption` says that the thread that runs the loop is not the one that
fills the buffer, which is the case the asynchronous log exists for (`Logging.cpp` writes the loop's own text straight to the file).
`LogInv` adds the types and `CopyCurrent` (what a flush copied is still what the buffer holds when it is pushed, the one fact a
second writer breaks). What the queue holds is a fold of the texts of its events and what the file holds is a filter by
writer, so the proof needs what these do to an appended or a removed element, for every length. It gets them without an induction theorem:
`Flattens` and `Picks` state the recursion point by point, and two functions with the same first value and the same steps agree
(`SameSteps`), because the least place where they differ (`Least`, from the well-foundedness of `<` on `Nat`) could not be the first and not
be a step. `Regroup` then carries a piece from the buffer to the queue, to the looper and to the file.

The third part proves `ReadCorrect` (`ReadIsWritten`) of `MessageStream`, for any number of messages of the two classes with maps and
strings of any size, any capacity of the connection and any even `Base`. The assumptions are `BaseAssumption`, `CapacityAssumption`,
`RegisteredAssumption` (no more classes than a `uint16_t` counts) and `MessagesAssumption` (only registered classes are sent, and a number is in
the range of its type, a length in that of `uint32_t`). That a number of `n` bytes is read as what it was (`RoundTrip`) is shown by shifting: after `i`
bytes from the high one down the reader has `v >> 8 * (n - i)`, sign included, so that each step is one division with remainder (`Division`) and
no power of `Base` is needed. `StreamInv` says where every byte is: the buffer, the channel and a rest are, one behind the other, the values
still to be read, and the rest is what the writer still has to send (until one of them cannot go on, after which the rest is never
sent); the items read and those to come are what was sent. What is to come depends on what is wanted in the middle of a message:
`ToCome` lists the seven places where a reader can be (before a type, a size, a pair, a length, the characters, a long, a short), each
with the items and the bytes that follow it. For each one lemma (`ShortFollows` ... `TypeFollows`) says that the next bytes are as many as
are wanted, are read as the next item, and lead to another of these places (`Follows`); only at the end of all messages is nothing left to
come. The cuts of `send()`, `recv()` and a reset are associativity (`SendGoesOn`, `Cuts`, `ByteGroups`).

The fourth part proves `NamesCorrect` (`NamesAreRight`), `ServersCorrect` (`ServersAreGlue`) and `AnswersCorrect` (`AnswerIsRight`) of `DnsWire`, for every query, every set of
replies with any number of records, labels and pointers, any number of hops and any value of what was never assigned. The assumptions
are `RepliesAssumption` (labels of up to 63 octets, pointers of 14 bits, data and sections that one byte can count), `QueryNamesAssumption` (a
question consists of octets), `HopsAssumption` and, for `AnswersCorrect` only, `SignersAssumption` (no zero byte in a label of a zone that
signs) and `SignedAssumption` (addresses and signatures are `WellFormed`). Names: recursion along pointers goes forwards and backwards in the packet, so the
induction is on the hops. One hop reads what is meant if the hops after it do (`HopSame`), as far as `Pointed` gives back the 1 that a
signed character borrowed (`PointedIs`); so does any number of them (`ReadAsMeant`), by `SameSteps`, the lemma of the second part. In the same way
`WalkLeaves` says where the parser stands behind a name: after its pointer, or *on* its zero byte. Records: what stands in the
packet (`StandsAt`) is cut into header, question and records, and these into name, length and data (`RecordHolds`, `RecordsStand`); `NextRecord`
then says that a record whose name ends in a pointer is read as it was sent, up to where the next one begins, and that the root's empty
record at the end is read one byte early, with no length of four. `WireInv`, all under `Alone`: the parser stands where record `done + 1` was
put as long as all before it ended in pointers, with the glue so far in `servers` (`Placed`); or, past a last record of the root,
on a zero within a byte of the end (`AtTheRoot`); the names so far are those meant (`NamesSoFar`); and who returned has read as many records
as the header counts (`ReadToEnd`). Counts of 128 and more become too large when their sign is extended: then nothing is left where the
next record should be (`NothingThere`), the parser runs into the end and returns no list. That is why `ServersAreGlue` holds for them too, and why
what `servers` holds is claimed only if the counts are right (`CountsRight`). Answers: an address and what follows it are the first two records of
the reply, as behind a last record nothing can be read (`TwoRecords`). `recParse()` reads an uncompressed name as its labels, by induction
on the hops once more (`LabelsRead`); as text these are two characters shorter than as bytes, which have a length before each label where
the text has dots between them, and a zero at the end (`DottedLength`, by `SameLengths`: sequences put together of parts that are as long are
as long). So the `length - 20 - TextLength` of `parseRRSIG()` is what is left behind 18 bytes and the name, which ends at the first zero
(`ZoneEnds`, `SignerFound`), and what it cuts out is the signature (`SignatureRead`). The root's name breaks the rule by one character, hence
the condition of `AnswerIsRight`. `AnswerInv` adds to `WireInv` that the reply is one of `Replies` and that no record was passed over when
`successParse()` begins.

`SchedulerProofs`, for any finite set of children and all options: `ZombiesCorrect` and `DeathsCorrect` (the runs' `NoZombieForgotten` and
`EachDeathOnce`), `LoopNeverWaits` (the terminating event stays queued until the loop runs it, which is why `Enter()` needs no
wait in this model) and `SelfDeadlockIsForEver` (an action property: after the handler met the lock of the code it interrupted, nothing
moves). `IInv` says where each child is: alive, a zombie, in the handler's hand, or an agent (`OneOf`); the deaths are counted as
the set of places of a child's event in `ran \o queue`, which is empty or one place. Assumptions: `ChildrenAssumption`, `NoChildAssumption`.

`SteppingStoneProofs`, for any stones, requests, chains of up to `MaxHops` stones, files, crashes and lists cut anywhere (`SettingAssumption`):
`RouteCorrect`, `DescriptorsCorrect` and `FileCorrect`. `RouteIsTheChain` is about a stone that has its list; the invariant follows the list from one to the next:
what the header announces is `down \o todo` of link and sender (`OnItsWay`), then the elements received, those on the link and
those to be sent make up the list (`InParts`), unless one was not received whole; and whoever waits for a list has not been
called twice nor answered (`InOrder`, `Unanswered`), so the two ends of a link agree. `RightFor` says what the list must be: the chain's
elements, each as often, without the stones visited. That holds while every list of the route so far came whole (`Straight`), because a cut
element may name any stone; that route and list left are together as long as the chain holds in any case, whatever a cut element names. A
send that fails, by signal or by -1, leaves the links as they are (`FailSteps`). The count lemmas (`CountWithout`, `CountGrows`) carry that over the removal of the
stone that was picked.

`FileCorrect` (`FileIsTheOneAskedFor`) rests on two more invariants. The first, `FInv`, is about descriptors: those of the threads that
run in a stone are theirs alone (`Apart`, which `DescriptorsCorrect` states), and whatever is in a stone's table, sockets that a
failed `next_ss()` left open included, fits into the places of the threads that took it (`Fits`, an injection), of which there are
two each. So the kernel always has a number to give (`LowestIsFree`), which needs `DescriptorsAssumption`: finitely many requests,
and a table that holds two descriptors for each thread they can start in one stone. The code does not check for a full table; the
models leave that case out. With it, and if every stone has a working directory of its own (`DirsApart`, a hypothesis of the theorem: the
code gives its temporary files no other name, and two stones in one directory do mix them up), what `wget` wrote is still there
when the thread opens it (`OpenRight`). The second invariant, `Right`, is about each request of which no process has failed: with `Got` the
parts of the answer a node has received and `Given` those it has sent, the link between two nodes carries exactly what
is between them (`Link`), a node that relays holds the next part (`Streaming`), and awget has written the first `Got` of them (`Kept`). A
stone then closes its connection only after the whole answer, and its requester only after getting it (`NothingCutOff`,
`Listening`), so nothing is lost to a closed connection and no node reads past the end.

`ScalingSocketProofs`, for any finite set of objects and any number of descriptors and counters (`ObjectsAssumption`, which the code
satisfies as a process has finitely many objects): `CountsCorrect`, `DescriptorIsOwn` (no run states it: who shares a
counter shares the descriptor, and the kernel has not given the number to another socket) and `ImplementsSharedDescriptor`, the
refinement. `CountsExact` is inductive only with these two, with `NoLeak` (what is open has a holder), and with `FreshUnused` (counters to be
allocated have no users): a destructor that closes must know that nobody else has the descriptor.

`SyncSocketProofs` has the same for the other class: `RefsCorrect`, `SrcCorrect` and `ImplementsSharedDescriptor`. Here `connect()` and `operator=` let go of a
socket and take another in one action; the invariant `Sound` is therefore an operator on objects, counters and table, shown to
hold between the two halves too (`LetGo`). A counter made around -1 (`hollow`) has users and no descriptor, for good (`Attached`, `AdoptNone`), so its last user
closes nothing that is somebody else's. After a call has spoilt a shared object only the types and `OpenIsHeld` remain, which is
what the refinement needs for the step that spoils it.

`EchoServiceProofs`, for any number of clients, ports, descriptors and datagrams, over both transports (`BoundsAssumption`, `NamesAssumption`: the
model value for nobody is no client and no port): `AckCorrect` (`AckedWasHeard`, of which `Earned` says what is left over UDP: a number that
came from the port, as nothing in a reply says whom it is for) and `ErrorCorrect` (`ErrorMeansNotAccepted`). `IInv` adds where each
client is (`Progress`), that a datagram comes from where it says, that every answer in the network or in the server's hand, and whatever an
earlier call left in `addr`, is for a port from which a number was printed (`NetIsTrue`, `Known`), why a connection was replied to (`Served`), and that
the server's table holds the listening socket and at most the connection in hand (`TableIsRight`), so that the second `close()` finds
the number free.

`ResolverProofs`, for any servers, any non-empty list of roots and any replies (`ServersAssumption`, `RepliesAssumption`): `TypeCorrect`,
`StackCorrect` (`StackIsThePath`) and `DelegationCorrect` (`PathIsDelegation`). `IInv` adds to them `Picked` (every server on the stack is
inside the list of its activation, without which the path says nothing of the lists), `Delegated` (the lists themselves, not
only the servers asked, come from the roots or from the referral above) and `Answered` (a result is that of the server on top
of the stack). The argument is one lemma for each way an activation changes: it loses a server (`ServerDropped`, for `Drop` and
`NextServer`), asks one, calls itself, or ends the program.

Only model-checked: all liveness (out of the prover's reach, like `ENABLED`), and the fairness part of the refinement of `TaskPool`. Every
safety invariant that a run checks is a theorem. The recursion over data of `SchedLog`, `MessageStream` and `DnsWire` could be
reasoned about by the least counterexample (`SameSteps`), as each walks a sequence, or counts hops, one at a time.

## 5. Not modelled

- `scaling` Server: nothing instantiates it, and its only behaviour would be to wait for ever, as `select()` is told to leave out
  the highest descriptor, the listening socket itself.
- In `Stream`, a string of 2^32 - 1 bytes, for which the reader's `len + 1` is 0, and a map of more than 2^31 - 1 pairs (a signed counter).
- `Stream`'s floating point values (the same copy of bytes as integers) and its templates for vectors and maps (they return
  nothing where a reference is due, and nothing uses them).
- `add_any_port()` and the select sets of the proj1 service, which nothing uses.
- In proj2, a name with several addresses (`next_ss()` leaves a socket open for each that fails), a file header received in part, names longer than the fixed buffers, and the start-up of servers (bind, listen).
- In proj3, the text of addresses and signatures as printed, and the choice of an address family for the servers.
- In the log, `open`/`close` and widths; in the scheduler, signals that do nothing.
- Option and file parsing, formatting, `main()` of `scaling/src/main.cpp` (one accept, no message), `.cproject` and make files.

## 6. Plan

Done, in this order: ThreadPool with its proofs, EventQueue with its proofs, SchedLog, Scheduler, SteppingStone, Resolver, the
socket classes and their common abstraction, the proofs about the resolver, EchoService, partial receives in SteppingStone, `_src` in
SyncSocket, MessageStream, DnsWire, the proofs about both socket classes, the echo service, braces, the scheduler, the routes and
the files, the log, the message stream, and the names, servers and answers of a reply. Next, most important first:

1. Abstract specifications: a log file that is an ordered merge of its writers, implemented by `SchedLog`; a relay that delivers the
   file or fails, implemented by `SteppingStone`; a stream of whole values, implemented by `MessageStream`.
2. A file header received in part in `SteppingStone`, and descriptors at their limit.
