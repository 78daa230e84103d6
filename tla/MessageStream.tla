---------------------------- MODULE MessageStream ----------------------------
(***************************************************************************)
(* soc::Stream and soc::Message (scaling/src): one process writes messages *)
(* to a Socket, another gets them.  A value is one call of Send() or       *)
(* Recv(), which loop until all of its bytes went or came; the connection  *)
(* carries any part of them at a time, and may break.                      *)
(***************************************************************************)
EXTENDS Integers, Sequences, SequencesExt

CONSTANTS
    Base,        \* values of a byte: 256 in the code
    Registered,  \* the classes, in the order both processes registered them
    Messages,    \* what the writer sends: see Writes
    Capacity     \* bytes that the connection holds

ASSUME BaseAssumption == Base \in Nat /\ Base > 1 /\ Base % 2 = 0
ASSUME CapacityAssumption == Capacity \in Nat \ {0}

VARIABLES
    writes,   \* the values still to be written, each a sequence of bytes
    total,    \* how much of the first of them was sent
    writer,   \* the writing process
    channel,  \* the bytes under way
    broken,   \* the connection: "no", "reset", and "told" once recv() said so
    reader,   \* the getting process
    wants,    \* the items still to be read of this message
    buffer,   \* what came of the first of them
    got       \* every item read

streamVars == <<writes, total, writer, channel, broken, reader, wants, buffer, got>>
-----------------------------------------------------------------------------
(* v >> 8 * i, for each i up to n: a negative value keeps its sign         *)
Shifted(v, n) ==
    LET q[i \in 0 .. n] == IF i = 0 THEN v ELSE q[i - 1] \div Base
    IN q

(* operator<<: n bytes, the low one first; of a negative value, those of   *)
(* its two's complement.                                                   *)
Bytes(n, v) == [i \in 1 .. n |-> Shifted(v, n)[i - 1] % Base]

(* operator>>: the bytes or-ed together, here from the high one down; what *)
(* is above it is the sign of a signed type, which is its highest bit.     *)
Sign(b, signed) == IF signed /\ 2 * b[Len(b)] >= Base THEN -1 ELSE 0
Value(b, signed) ==
    LET w[i \in 0 .. Len(b)] ==
            IF i = 0 THEN Sign(b, signed) ELSE w[i - 1] * Base + b[Len(b) + 1 - i]
    IN w[Len(b)]

(* operator>>(string&) appends the buffer as a C string. *)
CString(b) == LET Z == {i \in 1 .. Len(b) : b[i] = 0}
              IN IF Z = {} THEN b ELSE SubSeq(b, 1, (CHOOSE i \in Z : \A j \in Z : i <= j) - 1)

(* Message::Register() numbers the classes from 0. *)
TypeOf(class) == (CHOOSE i \in 1 .. Len(Registered) : Registered[i] = class) - 1

(* What `stream << message' writes: the type, then what Serialize() does.  *)
(* Two classes: that of main.cpp, a map of int to string, and one of a     *)
(* long and a short.                                                       *)
PairWrites(p) == <<Bytes(4, p[1]), Bytes(4, Len(p[2])), p[2]>>
Writes(m) ==
    <<Bytes(2, TypeOf(m.class))>> \o
    IF m.class = "data"
    THEN <<Bytes(4, Len(m.map))>> \o FlattenSeq([i \in 1 .. Len(m.map) |-> PairWrites(m.map[i])])
    ELSE <<Bytes(8, m.long), Bytes(2, m.short)>>

Item(what, size) == [what |-> what, size |-> size]
GetWants == <<Item("type", 2)>>
Pair == <<Item("key", 4), Item("len", 4)>>

(* What is to be read after an item, by its value: Get() looks the class   *)
(* up, Deserialize() reads `size' pairs, operator>>(string&) `len' bytes.  *)
After(what, v) ==
    CASE what = "type" -> IF Registered[v + 1] = "data" THEN <<Item("size", 4)>>
                          ELSE <<Item("long", 8), Item("short", 2)>>
      [] what = "size" -> FlattenSeq([i \in 1 .. v |-> Pair])
      [] what = "len" -> <<Item("chars", v)>>
      [] OTHER -> <<>>

Signed(what) == what \in {"key", "long", "short"}
Decoded(what, b) == IF what = "chars" THEN CString(b) ELSE Value(b, Signed(what))

(* The types have room for what is sent: a number is in the range of its   *)
(* type, and so are the sizes and the numbers of the classes.              *)
Byte == 0 .. Base - 1
Fits(n, v, signed) ==
    LET top == Shifted(v, n)[n - 1]
    IN IF signed THEN -Base <= 2 * top /\ 2 * top < Base ELSE top \in Byte
Pairs == {p \in Int \X Seq(Byte) : Fits(4, p[1], TRUE) /\ Fits(4, Len(p[2]), FALSE)}
DataMessages == {m \in [class : {"data"}, map : Seq(Pairs)] : Fits(4, Len(m.map), FALSE)}
RowMessages == {m \in [class : {"row"}, long : Int, short : Int] :
                   Fits(8, m.long, TRUE) /\ Fits(2, m.short, TRUE)}
ASSUME RegisteredAssumption ==
    Registered \in Seq(STRING) /\ \A i \in 1 .. Len(Registered) : Fits(2, i - 1, FALSE)
ASSUME MessagesAssumption ==
    Messages \in Seq({m \in DataMessages \cup RowMessages :
                        \E i \in 1 .. Len(Registered) : Registered[i] = m.class})
-----------------------------------------------------------------------------
StreamInit ==
    /\ writes = FlattenSeq([i \in 1 .. Len(Messages) |-> Writes(Messages[i])])
    /\ total = 0
    /\ writer = "running"
    /\ channel = <<>>
    /\ broken = "no"
    /\ reader = "running"
    /\ wants = GetWants
    /\ buffer = <<>>
    /\ got = <<>>
-----------------------------------------------------------------------------
(* Socket::Send().  send() takes a part; it blocks while nothing fits.     *)
Reachable == broken = "no" /\ reader = "running"
Writing == writer \in {"running", "failed once"} /\ writes # <<>>
ReaderKept == UNCHANGED <<reader, wants, buffer, got>>

SendPart ==
    /\ Writing /\ Reachable
    /\ \E n \in 1 .. (Capacity - Len(channel)) :
          /\ total + n <= Len(writes[1])
          /\ channel' = channel \o SubSeq(writes[1], total + 1, total + n)
          /\ total' = total + n
    /\ UNCHANGED <<writes, writer, broken>> /\ ReaderKept

(* total == size: the next value *)
SendEnds ==
    /\ Writing /\ total = Len(writes[1])
    /\ writes' = Tail(writes)
    /\ total' = 0
    /\ UNCHANGED <<writer, channel, broken>> /\ ReaderKept

(* The peer is gone: send() returns -1, Send() ends and Write() ignores    *)
(* that; the second time at the latest, SIGPIPE kills the process.         *)
SendFails ==
    /\ Writing /\ ~Reachable /\ total < Len(writes[1])
    /\ writer' \in (IF writer = "running" THEN {"failed once", "killed"} ELSE {"killed"})
    /\ writes' = Tail(writes)
    /\ total' = 0
    /\ UNCHANGED <<channel, broken>> /\ ReaderKept

(* The last Socket of the connection is destroyed. *)
WriterDone ==
    /\ writer \in {"running", "failed once"} /\ writes = <<>>
    /\ writer' = "done"
    /\ UNCHANGED <<writes, total, channel, broken>> /\ ReaderKept
-----------------------------------------------------------------------------
(* Socket::Recv() and what the caller makes of the value.                  *)
WriterKept == UNCHANGED <<writes, total, writer>>
Reading == reader = "running" /\ wants # <<>>
Want == wants[1]

(* Get() of an unknown type calls an empty function, which throws. *)
Unknown(v) == Want.what = "type" /\ v >= Len(Registered)
Reads(v) ==
    IF Unknown(v) THEN reader' = "thrown" /\ UNCHANGED <<got, wants, buffer>>
    ELSE /\ got' = Append(got, [what |-> Want.what, value |-> v])
         /\ wants' = After(Want.what, v) \o Tail(wants)
         /\ buffer' = <<>>
         /\ UNCHANGED reader

(* Mutant of RecvPart: what came before is overwritten. *)
RecvOver ==
    /\ Reading
    /\ \E n \in 1 .. Len(channel) :
          /\ Len(buffer) + n <= Want.size
          /\ buffer' = SubSeq(channel, 1, n) \o buffer
          /\ channel' = SubSeq(channel, n + 1, Len(channel))
    /\ UNCHANGED <<broken, reader, wants, got>> /\ WriterKept

RecvPart ==
    /\ Reading
    /\ \E n \in 1 .. Len(channel) :
          /\ Len(buffer) + n <= Want.size
          /\ buffer' = buffer \o SubSeq(channel, 1, n)
          /\ channel' = SubSeq(channel, n + 1, Len(channel))
    /\ UNCHANGED <<broken, reader, wants, got>> /\ WriterKept

(* Mutant of RecvEnds: do ... while, which waits for a byte of nothing. *)
RecvEndsLate ==
    /\ Reading /\ Len(buffer) = Want.size /\ Want.size > 0
    /\ Reads(Decoded(Want.what, buffer))
    /\ UNCHANGED <<channel, broken>> /\ WriterKept

RecvEnds ==
    /\ Reading /\ Len(buffer) = Want.size
    /\ Reads(Decoded(Want.what, buffer))
    /\ UNCHANGED <<channel, broken>> /\ WriterKept

(* Mutant of Ends: the result of recv() is not looked at. *)
EndsNever == FALSE

(* When recv() returns -1: once after a reset.  From then on, and when the *)
(* writer has closed, it returns 0, and Recv() never ends (which is no     *)
(* step).                                                                  *)
Ends == channel = <<>> /\ broken = "reset"

(* What may be in memory that was never written, where it matters: any     *)
(* type, the number of no class included, small sizes, any text.           *)
Garbage(what) ==
    CASE what = "type" -> 0 .. Len(Registered)
      [] what \in {"size", "len"} -> 0 .. 1
      [] what = "chars" -> {<<>>, <<1>>}
      [] OTHER -> {0}

(* Read() ignores the failure. *)
RecvFails ==
    /\ Reading /\ Len(buffer) < Want.size /\ Ends
    /\ broken' = IF broken = "reset" THEN "told" ELSE broken
    /\ \E v \in Garbage(Want.what) : Reads(v)
    /\ UNCHANGED channel /\ WriterKept

(* Get() returns the message, and is called again if there are more. *)
Returned == Len(SelectSeq(got, LAMBDA g : g.what = "type"))
GetAgain ==
    /\ reader = "running" /\ wants = <<>>
    /\ IF Returned < Len(Messages) THEN wants' = GetWants /\ UNCHANGED reader
       ELSE reader' = "done" /\ UNCHANGED wants
    /\ UNCHANGED <<channel, broken, buffer, got>> /\ WriterKept

Kill ==
    /\ \/ writer = "running" /\ writer' = "killed" /\ UNCHANGED reader
       \/ reader = "running" /\ reader' = "killed" /\ UNCHANGED writer
    /\ UNCHANGED <<writes, total, channel, broken, wants, buffer, got>>

(* The connection is reset; some of what was under way has come. *)
Break ==
    /\ broken = "no"
    /\ broken' = "reset"
    /\ \E n \in 0 .. Len(channel) : channel' = SubSeq(channel, 1, n)
    /\ WriterKept /\ ReaderKept

SendStep == SendPart \/ SendEnds \/ SendFails \/ WriterDone
RecvStep == RecvPart \/ RecvEnds \/ RecvFails \/ GetAgain
StreamNext == SendStep \/ RecvStep \/ Kill \/ Break

StreamSpec == StreamInit /\ [][StreamNext]_streamVars /\ WF_streamVars(SendStep) /\ WF_streamVars(RecvStep)
-----------------------------------------------------------------------------
(* The items of a message as they were before they were written *)
PairItems(p) == <<[what |-> "key", value |-> p[1]], [what |-> "len", value |-> Len(p[2])],
                  [what |-> "chars", value |-> CString(p[2])]>>
Items(m) ==
    <<[what |-> "type", value |-> TypeOf(m.class)]>> \o
    IF m.class = "data"
    THEN <<[what |-> "size", value |-> Len(m.map)]>>
         \o FlattenSeq([i \in 1 .. Len(m.map) |-> PairItems(m.map[i])])
    ELSE <<[what |-> "long", value |-> m.long], [what |-> "short", value |-> m.short]>>
Sent == FlattenSeq([i \in 1 .. Len(Messages) |-> Items(Messages[i])])

(* Whatever the cuts of send() and recv(), the reader gets the values that *)
(* were written, in their order, each whole (a string up to its first NUL),*)
(* until a recv() fails.                                                   *)
Right(i) == i <= Len(Sent) /\ got[i].what = Sent[i].what /\ got[i].value = Sent[i].value
ReadIsWritten == broken # "told" => \A i \in 1 .. Len(got) : Right(i)

(* Every message arrives if neither process is killed nor the connection   *)
(* reset.                                                                  *)
Undisturbed == broken = "no" /\ "killed" \notin {writer, reader}
EveryMessageGot == <>(~Undisturbed \/ (reader = "done" /\ Len(got) = Len(Sent)))

(* A get() ends, with a message, an exception or the process, or it is in  *)
(* Recv() at the end of the stream, where recv() returns 0 for ever.       *)
Spinning == /\ Reading /\ channel = <<>>
            /\ broken = "told" \/ (broken = "no" /\ writer \in {"done", "killed"})
GetEndsOrSpins == <>[](reader # "running" \/ Spinning)
=============================================================================
