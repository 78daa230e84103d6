------------------------------ MODULE SchedLog ------------------------------
(***************************************************************************)
(* sched::Log (scheduler/include/Logging.hpp, scheduler/src/Logging.cpp)   *)
(* on top of the event queue.  The thread inside Enter() writes to the     *)
(* stream; every other thread appends to one shared, unlocked buffer, and  *)
(* endl/flush turn the buffer into an event that writes it.  A piece of    *)
(* text is <<thread, number>>; newlines and indentation are left out.      *)
(***************************************************************************)
EXTENDS EventQueue, SequencesExt

CONSTANTS Writers,       \* threads that log and are never inside Enter()
          MaxBuffer,     \* _max_buffer, in pieces
          MaxPieces,     \* bound: pieces a writer logs
          MaxBraces,     \* bound: categories a writer opens
          MaxJobs,       \* bound: named events that log
          MaxTerminates, \* bound: events that call Terminate()
          MaxLoopPieces  \* bound: pieces logged by events

ASSUME WritersAssumption == Writers \cap Loopers = {}

VARIABLES
    buff,                \* _buff
    file,                \* what _ostr has received
    wpc,                 \* where each writer is inside endl/flush/catb/cate
                         \* ("copy", "signal", "clear", "brace"), or "idle"
    copy,                \* the argument of its Signal: _buff.str()
    brace,               \* the brace it logs after the flush, or "none"
    inside,              \* is it between its catb and its cate?
    written,             \* history: how many pieces each thread has logged
    opened               \* history: how many categories each writer opened

logVars == <<buff, file, wpc, copy, brace, inside, written, opened>>
allVars == <<vars, logVars>>

LogInit ==
    /\ Init
    /\ buff = <<>>
    /\ file = <<>>
    /\ wpc = [w \in Writers |-> "idle"]
    /\ copy = [w \in Writers |-> <<>>]
    /\ brace = [w \in Writers |-> "none"]
    /\ inside = [w \in Writers |-> FALSE]
    /\ written = [t \in Writers \cup Loopers |-> 0]
    /\ opened = [w \in Writers |-> 0]

TooLong(b) == Len(b) > MaxBuffer

(* log << value, outside the loop: append, and flush when it is too long *)
Insert(w) ==
    /\ wpc[w] = "idle" /\ written[w] < MaxPieces
    /\ buff' = Append(buff, <<w, written[w] + 1>>)
    /\ written' = [written EXCEPT ![w] = @ + 1]
    /\ wpc' = [wpc EXCEPT ![w] = IF TooLong(buff') THEN "copy" ELSE "idle"]
    /\ UNCHANGED <<vars, file, copy, brace, inside, opened>>

(* log << endl or log << flush: _buff.str() is copied, ... (on an empty    *)
(* buffer they would push an empty text: left out)                         *)
Flush(w) ==
    /\ wpc[w] = "copy" \/ (wpc[w] = "idle" /\ buff # <<>>)
    /\ copy' = [copy EXCEPT ![w] = buff]
    /\ wpc' = [wpc EXCEPT ![w] = "signal"]
    /\ UNCHANGED <<vars, buff, file, brace, inside, written, opened>>

TextEvent(text) == [kind |-> "plain", text |-> text]

(* ... an event that writes the copy is pushed, ... *)
FlushSignal(w) ==
    /\ wpc[w] = "signal"
    /\ Push(TextEvent(copy[w]))
    /\ copy' = [copy EXCEPT ![w] = <<>>]
    /\ wpc' = [wpc EXCEPT ![w] = "clear"]
    /\ UNCHANGED <<buff, file, brace, inside, written, opened>>

(* Mutant of FlushClear: _buff.str("") is missing. *)
FlushNoClear(w) ==
    /\ wpc[w] = "clear"
    /\ wpc' = [wpc EXCEPT ![w] = IF brace[w] = "none" THEN "idle" ELSE "brace"]
    /\ UNCHANGED <<vars, buff, file, copy, brace, inside, written, opened>>

(* ... and the buffer is cleared. *)
FlushClear(w) ==
    /\ wpc[w] = "clear"
    /\ buff' = <<>>
    /\ wpc' = [wpc EXCEPT ![w] = IF brace[w] = "none" THEN "idle" ELSE "brace"]
    /\ UNCHANGED <<vars, file, copy, brace, inside, written, opened>>

(* log << catb, log << cate: flush, then an event for the brace *)
Category(w) ==
    /\ wpc[w] = "idle"
    /\ inside[w] \/ opened[w] < MaxBraces
    /\ brace' = [brace EXCEPT ![w] = IF inside[w] THEN "cate" ELSE "catb"]
    /\ inside' = [inside EXCEPT ![w] = ~@]
    /\ opened' = IF inside[w] THEN opened ELSE [opened EXCEPT ![w] = @ + 1]
    /\ wpc' = [wpc EXCEPT ![w] = "copy"]
    /\ UNCHANGED <<vars, buff, file, copy, written>>

BraceEvent(w) == [kind |-> brace[w], text |-> <<>>, by |-> w]

Brace(w) ==
    /\ wpc[w] = "brace"
    /\ Push(BraceEvent(w))
    /\ brace' = [brace EXCEPT ![w] = "none"]
    /\ wpc' = [wpc EXCEPT ![w] = "idle"]
    /\ UNCHANGED <<buff, file, copy, inside, written, opened>>

Pushed(kind) == Len(SelectSeq(pushed, LAMBDA e : e.kind = kind))

(* A named event, pushed by any thread, that logs while it runs. *)
PushJob ==
    /\ Pushed("named") < MaxJobs
    /\ Push([kind |-> "named", text |-> <<>>])
    /\ UNCHANGED logVars

(* The Scheduler's own: event_queue.Signal(no_name, ... Terminate()). *)
PushTerminate ==
    /\ Pushed("terminate") < MaxTerminates
    /\ Push([kind |-> "terminate", text |-> <<>>])
    /\ UNCHANGED logVars

LoopInsert(l) ==
    /\ pc[l] = "run" /\ cur[l].kind = "named"
    /\ written[l] < MaxLoopPieces
    /\ file' = Append(file, <<l, written[l] + 1>>)
    /\ written' = [written EXCEPT ![l] = @ + 1]
    /\ UNCHANGED <<vars, buff, wpc, copy, brace, inside, opened>>

(* event() returns: the text it was given has been written. *)
LogReturn(l) ==
    /\ Return(l)
    /\ file' = file \o cur[l].text
    /\ UNCHANGED <<buff, wpc, copy, brace, inside, written, opened>>

(* Everything else a looper does leaves the log alone, Terminate() too:    *)
(* what is still in the queue waits for the next Enter().                  *)
QueueStep(l) ==
    /\ \/ Enter(l) \/ SpuriousWakeup(l) \/ FetchWait(l) \/ FetchPop(l)
       \/ FetchNothing(l) \/ Start(l) \/ Throw(l) \/ Leave(l)
    /\ UNCHANGED logVars

WriterStep(w) == \/ (wpc[w] = "copy" /\ Flush(w))
                 \/ FlushSignal(w) \/ FlushClear(w) \/ Brace(w)

LoopStep(l) == LogReturn(l) \/ (pc[l] \notin {"idle", "wait"} /\ QueueStep(l))

LogNext == \/ \E w \in Writers : \/ Insert(w) \/ Flush(w) \/ FlushSignal(w)
                                 \/ FlushClear(w) \/ Category(w) \/ Brace(w)
           \/ PushJob \/ PushTerminate
           \/ \E l \in Loopers : LoopInsert(l) \/ LogReturn(l) \/ QueueStep(l)

(* A writer inside the logger and a thread inside Enter() are scheduled. *)
LogFairness == /\ \A w \in Writers : WF_allVars(WriterStep(w))
               /\ \A l \in Loopers : WF_allVars(LoopStep(l))

LogSpec == LogInit /\ [][LogNext]_allVars /\ LogFairness
-----------------------------------------------------------------------------
TextOf(events) == FlattenSeq([i \in 1 .. Len(events) |-> events[i].text])
InHand == FlattenSeq([l \in 1 .. Cardinality(Loopers) |->
             LET x == SetToSeq(Loopers)[l]
             IN IF pc[x] \in {"start", "run"} THEN cur[x].text ELSE <<>>])
OwnPieces(text, w) ==
    LET own[i \in 0 .. Len(text)] ==
            IF i = 0 THEN <<>>
            ELSE IF text[i][1] = w THEN Append(own[i - 1], text[i]) ELSE own[i - 1]
    IN own[Len(text)]

(* With one writer, what it logged is in the file, in the event being run, *)
(* in the queue and in the buffer, in this order, complete and without a   *)
(* repetition: the flushes by length, endl and the braces never reorder it.*)
Unsignalled(w) == IF wpc[w] = "clear" THEN <<>> ELSE buff
TextInOrder ==
    \A w \in Writers :
        OwnPieces(file, w) \o InHand \o TextOf(queue) \o Unsignalled(w)
            = [i \in 1 .. written[w] |-> <<w, i>>]

(* "all bookkeeping and concurrency considerations are taken care of"      *)
(* (Logging.cpp:35): no piece that was logged ever disappears.             *)
Everywhere == ToSet(file) \cup ToSet(InHand) \cup ToSet(TextOf(queue))
              \cup ToSet(buff) \cup UNION {ToSet(copy[w]) : w \in Writers}
NothingLost == \A w \in Writers : \A i \in 1 .. written[w] : <<w, i>> \in Everywhere

(* A flushed piece is written to the file if a thread loops, unless the    *)
(* loop ends first (what is behind the Terminate() that the Scheduler      *)
(* queues stays in the queue) or a spurious wake-up sent it to an empty    *)
(* deque.                                                                  *)
FlushedIsWritten ==
    \A w \in Writers : \A n \in 1 .. MaxPieces : \A l \in Loopers :
        /\ wpc[w] = "signal" /\ <<w, n>> \in ToSet(copy[w])
        /\ pc[l] # "idle"
        ~> <<w, n>> \in ToSet(file) \/ pc[l] \in {"idle", "undefined"}
=============================================================================
