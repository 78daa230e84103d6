------------------------------ MODULE DnsWire ------------------------------
(***************************************************************************)
(* proj3/myresolver.cpp: the bytes that Resolver abstracts.  How the query *)
(* is put together, and how a reply is taken apart record by record, from  *)
(* `location' onwards, by recParse(), atoi16() and their callers.          *)
(***************************************************************************)
EXTENDS Integers, Sequences, SequencesExt, FiniteSetsExt

CONSTANTS
    QueryNames, \* what the user may ask for, as characters
    Replies,    \* what a server may reply: a header, records and their names
    Signers,    \* the zones whose servers sign, each a sequence of labels
    Unassigned, \* what question.numBytes may hold before anyone assigns it
    MaxQueries, \* bound: queries of one attempt(), all in one dnsPacket
    MaxHops     \* bound: labels and pointers of one name

VARIABLES
    query,    \* query_name
    numBytes, \* of the question
    queries,  \* how many times attempt() has written the query to dnsPacket
    reply,    \* the records of the server's reply, and its header
    records,  \* the same as bytes
    location, \* where the parser is
    done,     \* how many records it has read
    names,    \* their owner names as it read them
    servers,  \* the list that nextParse() returns
    found,    \* what successParse() prints
    outcome   \* how parse() ended

wireVars == <<query, numBytes, queries, reply, records, location, done, names, servers,
          found, outcome>>
-----------------------------------------------------------------------------
(* The query.                                                              *)
Dot == 46

(* makeQuestion(): words between dots, however many dots.                  *)
Words(name) ==
    LET Begins(i) == name[i] # Dot /\ (i = 1 \/ name[i - 1] = Dot)
        Ends(i) == name[i] # Dot /\ (i = Len(name) \/ name[i + 1] = Dot)
        last(i) == Min({j \in i .. Len(name) : Ends(j)})
        first == SetToSortSeq({i \in 1 .. Len(name) : Begins(i)}, <)
    IN [k \in 1 .. Len(first) |-> SubSeq(name, first[k], last(first[k]))]
QNAME(name) == FlattenSeq([k \in 1 .. Len(Words(name)) |->
                              <<Len(Words(name)[k])>> \o Words(name)[k]])

(* The first numBytes of the buffer, of which only QNAME is assigned.      *)
Question(name, n) ==
    [i \in 1 .. n |-> IF i <= Len(QNAME(name)) THEN QNAME(name)[i] ELSE 0]
    \o <<0, 0, 28, 0, 1>>
Header(flags, rcode, an, ns, ar) ==
    <<0, 0, flags, rcode, 0, 1, 0, an, 0, ns, 0, ar>>
QODD == <<0, 0, 41, 16, 0, 0, 0, 128, 0, 0, 0>>
Packet(name, n) == Header(0, 0, 0, 0, 1) \o Question(name, n) \o QODD
-----------------------------------------------------------------------------
(* The server's reply.  A record's owner name is some labels and then a    *)
(* pointer to an earlier name, or none.                                    *)
NoPointer == -1
Owner(name) ==
    FlattenSeq([k \in 1 .. Len(name.labels) |-> <<Len(name.labels[k])>> \o name.labels[k]])
    \o IF name.pointer = NoPointer THEN <<0>>
       ELSE <<192 + name.pointer \div 256, name.pointer % 256>>
RecordBytes(r) ==
    Owner(r.name) \o <<0, r.type, 0, 1>> \o r.ttl \o <<0, Len(r.rdata)>> \o r.rdata
AllRecords(m) == m.answers \o m.authority \o m.additional
AllBytes(rs) == FlattenSeq([k \in 1 .. Len(rs) |-> RecordBytes(rs[k])])
Encoded(name, m) ==
    Header(128 + 4 * m.AA, m.RCODE, Len(m.answers), Len(m.authority), Len(m.additional))
    \o Question(name, Len(QNAME(name))) \o AllBytes(AllRecords(m))

(* What a server sends, as far as the packet has room for it: labels of up *)
(* to 63 octets, pointers of 14 bits, data of one byte's length, and a     *)
(* count of one byte in the header for each kind of record.                *)
Octets == 0 .. 255
PointedTo == 0 .. 16383
OwnerLabels == {w \in Seq(Octets) : Len(w) \in 1 .. 63}
OwnerNames == [labels : Seq(OwnerLabels), pointer : {NoPointer} \cup PointedTo]
ServerRecords ==
    {r \in [name : OwnerNames, type : Octets, ttl : Seq(Octets), rdata : Seq(Octets)] :
        Len(r.ttl) = 4 /\ Len(r.rdata) \in Octets}
ServerReplies ==
    {m \in [AA : {0, 1}, RCODE : 0 .. 15, answers : Seq(ServerRecords),
            authority : Seq(ServerRecords), additional : Seq(ServerRecords)] :
        /\ Len(m.answers) \in Octets /\ Len(m.authority) \in Octets
        /\ Len(m.additional) \in Octets}

(* Of an address and a signature the parser wants more than their length:  *)
(* 16 bytes, and behind 18 bytes the name of the zone that signed, which   *)
(* is not compressed (RFC 4034, 3.1.7).                                    *)
AAAA == 28
RRSIG == 46
ZoneNames == {z \in Seq(OwnerLabels) : \A k \in 1 .. Len(z) : \A i \in 1 .. Len(z[k]) : z[k][i] # 0}
SignerName(z) == Owner([labels |-> z, pointer |-> NoPointer])
SignedBy(d, z) ==
    18 + Len(SignerName(z)) <= Len(d) /\ SubSeq(d, 19, 18 + Len(SignerName(z))) = SignerName(z)
WellFormed(r) ==
    /\ r.type = AAAA => Len(r.rdata) = 16
    /\ r.type = RRSIG => \E z \in Signers : SignedBy(r.rdata, z)
FormatError == [AA |-> 0, RCODE |-> 1, answers |-> <<>>, authority |-> <<>>, additional |-> <<>>]

ASSUME HopsAssumption == MaxHops \in Nat
ASSUME QueryNamesAssumption == \A q \in QueryNames : QNAME(q) \in Seq(Octets)
ASSUME RepliesAssumption == Replies \subseteq ServerReplies
ASSUME SignersAssumption == Signers \subseteq ZoneNames
ASSUME SignedAssumption ==
    \A m \in Replies : \A k \in 1 .. Len(AllRecords(m)) : WellFormed(AllRecords(m)[k])
-----------------------------------------------------------------------------
(* Reading.  records[l] is defined up to the terminating NUL.              *)
Inside(r, l) == l <= Len(r)
Octet(r, l) == IF l < Len(r) THEN r[l + 1] ELSE 0
Char(r, l) == IF Octet(r, l) < 128 THEN Octet(r, l) ELSE Octet(r, l) - 256
Swap(v) == (v % 256) * 256 + v \div 256

(* atoi16(): chars are signed, so a first byte of 128 or more borrows one  *)
(* from the second.  (The left operand of + is taken first.)               *)
atoi16(r, l) == Swap((Char(r, l) + Char(r, l + 1) * 256) % 65536)

(* Mutant of Pointed: all 14 bits but without the 1 that was borrowed. *)
PointedBefore(r, l) == atoi16(r, l) % 16384

(* Where a pointer points: of its 14 bits the code keeps six.              *)
Pointed(r, l) == (atoi16(r, l) + 1) % 64

Bad(how) == [text |-> <<>>, location |-> 0, end |-> how]

(* recParse(): a name as text, and where it leaves `location': after a     *)
(* pointer, but on the zero byte of a name that has none.  Hop is one call *)
(* of it, on what the calls within it return.                              *)
Label(r, l) == [i \in 1 .. Octet(r, l) |-> Octet(r, l + i)]
Hop(r, l, rest) ==
    CASE ~Inside(r, l) -> Bad("overrun")
      [] Inside(r, l) /\ Octet(r, l) = 0 -> [text |-> <<>>, location |-> l, end |-> "ok"]
      [] Inside(r, l) /\ Octet(r, l) >= 192 -> [rest[Pointed(r, l)] EXCEPT !.location = l + 2]
      [] OTHER -> IF ~Inside(r, l + Octet(r, l)) THEN Bad("overrun")
                  ELSE [rest[l + 1 + Octet(r, l)] EXCEPT !.text = <<Label(r, l)>> \o @]
Walk(r) ==
    LET f[k \in 0 .. MaxHops] == IF k = 0 THEN [l \in Nat |-> Bad("loop")]
                                 ELSE [l \in Nat |-> Hop(r, l, f[k - 1])]
    IN f
recParse(r, l) == Walk(r)[MaxHops][l]

(* The fields of a record that matter, from its owner name to its data.    *)
Fixed(r, l0) ==
    LET name == recParse(r, l0)
        l == name.location
    IN [name |-> name, type |-> atoi16(r, l), rdlength |-> atoi16(r, l + 8), rdata |-> l + 10]

(* Whether its fields are inside; substr() wants its data to begin there.  *)
CanRead(r, x) == x.name.end = "ok" /\ Inside(r, x.rdata - 1)
CanCut(r, x) == CanRead(r, x) /\ Inside(r, x.rdata)
Fault(x) == IF x.name.end = "ok" THEN "overrun" ELSE x.name.end
-----------------------------------------------------------------------------
(* A question whose length is wrong is no question to the server.          *)
WireInit ==
    /\ query \in QueryNames
    /\ numBytes \in {Len(QNAME(query)) + g : g \in Unassigned}
    /\ queries \in 1 .. MaxQueries
    /\ reply \in IF numBytes = Len(QNAME(query)) THEN Replies ELSE {FormatError}
    /\ records = Encoded(query, reply)
    /\ location = queries * Len(Packet(query, numBytes)) - Len(QODD)
    /\ done = 0
    /\ names = <<>>
    /\ servers = <<>>
    /\ found = <<>>
    /\ outcome = "header"

Keep == UNCHANGED <<query, numBytes, queries, reply, records>>
Finish(how) == outcome' = how /\ UNCHANGED <<location, done, names, servers, found>> /\ Keep

(* parse(): what the header says.  Counts are one signed byte.             *)
RCODE == Octet(records, 3) % 16
AA == (Octet(records, 2) \div 4) % 2 = 1
Count(l) == Char(records, l) % 65536
ANCOUNT == Count(7)
NSCOUNT == Count(9)
ARCOUNT == Count(11)

parse ==
    /\ outcome = "header"
    /\ Finish(CASE RCODE = 0 -> IF AA /\ ANCOUNT # 0 THEN "success" ELSE "next"
                [] RCODE = 1 -> "fatal"
                [] RCODE = 3 /\ AA /\ ANCOUNT = 0 -> "no such name"
                [] OTHER -> "returned")  \* an empty list

Record == Fixed(records, location)
InAnswers == done < ANCOUNT + NSCOUNT
InAdditional == ~InAnswers /\ done < ANCOUNT + NSCOUNT + ARCOUNT

Advance(x) ==
    /\ location' = x.rdata + x.rdlength
    /\ done' = done + 1
    /\ names' = Append(names, x.name.text)
    /\ UNCHANGED <<found, outcome>>

(* nextParse(): the answers and the name servers are skipped.              *)
nextParse ==
    /\ outcome = "next" /\ InAnswers
    /\ CanRead(records, Record)
    /\ Advance(Record)
    /\ UNCHANGED servers /\ Keep

(* The additional records: a server for each whose data has four bytes.    *)
(* substr() cuts what is beyond the end.                                   *)
Data(x) == SubSeq(records, x.rdata + 1, Min({x.rdata + x.rdlength, Len(records)}))

(* Mutant of IsServer: the size of the data is not looked at. *)
IsServerAlways(x) == TRUE

IsServer(x) == x.rdlength = 4

nextParseAdditional ==
    /\ outcome = "next" /\ InAdditional
    /\ CanCut(records, Record)
    /\ Advance(Record)
    /\ servers' = IF IsServer(Record) THEN Append(servers, Data(Record)) ELSE servers
    /\ Keep

nextParseEnds ==
    /\ outcome = "next" /\ ~InAnswers /\ ~InAdditional
    /\ Finish("returned")

(* Beyond the end, or in a circle of pointers, what happens is undefined.  *)
nextParseFails ==
    /\ outcome = "next"
    /\ \/ InAnswers /\ ~CanRead(records, Record)
       \/ InAdditional /\ ~CanCut(records, Record)
    /\ Finish(Fault(Record))

(* Mutant of Remainder: the signer's name is taken to end in a pointer. *)
RemainderAfterPointer(signer, length) == [from |-> signer.location, length |-> length - 20]

(* parseRRSIG(): the signature is the rest of the data after the signer's  *)
(* name and its zero byte; a length below zero is a very large one.        *)
Dotted(t) == FlattenSeq([k \in 1 .. Len(t) |-> <<Dot>> \o t[k]])
TextLength(t) == IF t = <<>> THEN 0 ELSE Len(Dotted(t)) - 1  \* no dot before the first
Remainder(signer, length) ==
    [from |-> signer.location + 1, length |-> length - 20 - TextLength(signer.text)]
Signature(x) ==
    SubSeq(records, x.from + 1,
           IF x.length < 0 THEN Len(records) ELSE Min({x.from + x.length, Len(records)}))

(* successParse(): the first record, and the signature that is to follow.  *)
(* Types are not looked at.                                                *)
successParse ==
    LET rrsig == Fixed(records, Record.rdata + Record.rdlength)
        signer == recParse(records, rrsig.rdata + 18)
        rest == Remainder(signer, rrsig.rdlength)
    IN /\ outcome = "success"
       /\ IF /\ CanCut(records, Record)
             /\ CanRead(records, rrsig)
             /\ signer.end = "ok"
             /\ Inside(records, rest.from)
          THEN /\ found' = [address |-> IF Record.rdlength = 16 THEN <<Data(Record)>> ELSE <<>>,
                            name |-> Record.name.text,
                            signature |-> Signature(rest)]
               /\ outcome' = "exit"
          ELSE outcome' = "overrun" /\ UNCHANGED found
       /\ UNCHANGED <<location, done, names, servers>> /\ Keep

WireNext == parse \/ nextParse \/ nextParseAdditional \/ nextParseEnds \/ nextParseFails \/ successParse

WireSpec == WireInit /\ [][WireNext]_wireVars
-----------------------------------------------------------------------------
(* What the reply says, read as a server means it.                         *)
FirstRecord == 12 + Len(Question(query, Len(QNAME(query))))
SentRecords == AllRecords(reply)
Offset(k) == FirstRecord + Len(AllBytes(SubSeq(SentRecords, 1, k - 1)))

(* A name with all 14 bits of its pointers; and the pointers in it.        *)
MeantHop(r, l, rest) ==
    CASE Octet(r, l) = 0 -> [text |-> <<>>, pointers |-> {}]
      [] Octet(r, l) >= 192 ->
            LET to == (Octet(r, l) - 192) * 256 + Octet(r, l + 1)
            IN [rest[to] EXCEPT !.pointers = @ \cup {to}]
      [] OTHER -> [rest[l + 1 + Octet(r, l)] EXCEPT !.text = <<Label(r, l)>> \o @]
MeantWalk(r) ==
    LET f[k \in 0 .. MaxHops] ==
            IF k = 0 THEN [l \in Nat |-> [text |-> <<>>, pointers |-> {}]]
            ELSE [l \in Nat |-> MeantHop(r, l, f[k - 1])]
    IN f
Meant(l) == MeantWalk(records)[MaxHops][l]

(* The first query of an attempt() is alone in its packet.                 *)
Alone == queries = 1 /\ numBytes = Len(QNAME(query))
Compressed(k) == SentRecords[k].name.pointer # NoPointer
AllCompressed(n) == \A k \in 1 .. n : Compressed(k)

(* Every owner name read is the one the server meant, when no pointer of   *)
(* it goes beyond the 63 that are left of it: the 1 that a signed char     *)
(* took from the low byte is given back, whatever that byte was.           *)
NamesAreRight ==
    \A k \in 1 .. done :
        LET name == Meant(Offset(k))
        IN (Alone /\ AllCompressed(k - 1) /\ \A p \in name.pointers : p < 64)
              => names[k] = name.text

(* The list that nextParse() returns holds the additional records with     *)
(* four bytes of data, in their order, no other and none twice, and also   *)
(* when the last record has the root's name, which no pointer ends: it is  *)
(* read one byte too early, but it is empty and nothing comes after it.    *)
FourBytes(r) == Len(r.rdata) = 4
Glue(rs) == FlattenSeq([k \in 1 .. Len(rs) |-> IF FourBytes(rs[k]) THEN <<rs[k].rdata>> ELSE <<>>])
ServersAreGlue ==
    (outcome = "returned" /\ Alone /\ reply.RCODE = 0
        /\ AllCompressed(Len(SentRecords) - 1) /\ (Compressed(Len(SentRecords)) \/ Last(SentRecords).rdata = <<>>))
       => servers = Glue(reply.additional)

(* An IPv6 address that is printed with its signature is the address, the  *)
(* name and the whole signature of the reply: no byte of the signer's name *)
(* is taken for the signature, none of the signature is lost.  The root    *)
(* zone's own signatures, whose signer has no name, are one byte short.    *)
SignerEnds(d) == Min({i \in 19 .. Len(d) : d[i] = 0})
AnswerIsRight ==
    (outcome = "exit" /\ Alone /\ AllCompressed(2) /\ (\A p \in Meant(Offset(1)).pointers : p < 64)
        /\ SentRecords[1].type = AAAA /\ SentRecords[2].type = RRSIG /\ SentRecords[2].rdata[19] # 0)
       => found = [address |-> <<SentRecords[1].rdata>>,
                   name |-> Meant(Offset(1)).text,
                   signature |-> SubSeq(SentRecords[2].rdata, SignerEnds(SentRecords[2].rdata) + 1,
                                        Len(SentRecords[2].rdata))]
=============================================================================
