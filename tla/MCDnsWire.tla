----------------------------- MODULE MCDnsWire -----------------------------
(***************************************************************************)
(* DnsWire for TLC: names of the form x.yz, whose question has ten bytes   *)
(* and whose first record begins at 22, and what servers reply to them.    *)
(***************************************************************************)
EXTENDS DnsWire

Names == {<<97, 46, 98, 99>>, <<46, 100, 46, 46, 101, 102, 46>>}  \* a.bc and .d..ef.

UnassignedOfOneBuild == {0, -1}

(* Records.  Zero is the offset of no name.                                *)
Ttl == <<0, 1, 81, 128>>
At(p) == [labels |-> <<>>, pointer |-> p]
Under(w, p) == [labels |-> <<w>>, pointer |-> p]
Whole == [labels |-> <<<<98, 99>>>>, pointer |-> NoPointer]
Root == [labels |-> <<>>, pointer |-> NoPointer]
Rec(n, t, d) == [name |-> n, type |-> t, ttl |-> Ttl, rdata |-> d]
NS(n, w) == Rec(n, 2, Owner(Under(w, 14)))
A(n, x) == Rec(n, 1, <<10, 0, 0, x>>)
AAAAOf(n, x) == Rec(n, 28, [i \in 1 .. 16 |-> x])
CNAME(n, w) == Rec(n, 5, Owner(Under(w, 14)))
OPT == [name |-> Root, type |-> 41, ttl |-> <<0, 0, 128, 0>>, rdata |-> <<>>]
SomeSigners == {<<>>, <<<<98, 99>>>>}  \* the root and the zone bc
SignatureOf(n, signer, size) ==
    Rec(n, 46, <<0, 28, 8, 2>> \o [i \in 1 .. 14 |-> i] \o Owner(signer)
               \o [i \in 1 .. size |-> (7 * i) % 256])

Reply(aa, rcode, an, ns, ar) ==
    [AA |-> aa, RCODE |-> rcode, answers |-> an, authority |-> ns, additional |-> ar]
Referral(ns, ar) == Reply(0, 0, <<>>, ns, ar)
Answer(an, ns, ar) == Reply(1, 0, an, ns, ar)

n1 == <<110, 49>>
n2 == <<110, 50>>
n3 == <<110, 51>>
Zone == At(14)
Three == <<NS(Zone, n1), NS(Zone, n2), NS(Zone, n3)>>  \* at 22, 39, 56; data at 34, 51, 68

SomeReplies == {
    Referral(<<NS(Zone, n1)>>, <<A(At(34), 1), OPT>>),
    Referral(<<NS(Zone, n1), NS(Zone, n2)>>,
             <<AAAAOf(At(51), 2), A(At(34), 1), A(At(51), 2), OPT>>),
    Referral(Three, <<A(At(68), 3), A(At(51), 2), AAAAOf(At(34), 1)>>),
    Referral(Three, <<>>),
    Referral(<<NS(Zone, n1)>>, <<A(Under(<<122>>, 14), 1), A(Under(n3, 34), 3)>>),
    Referral(<<NS(Whole, n1)>>, <<A(At(37), 1)>>),
    Referral(<<NS(Zone, n1)>>, <<OPT, A(At(34), 1)>>),
    Reply(0, 0, <<CNAME(At(12), n1)>>, <<NS(Zone, n2)>>, <<A(At(51), 2), OPT>>),
    Answer(<<AAAAOf(At(12), 9), SignatureOf(At(12), Whole, 3)>>, <<>>, <<OPT>>),
    Answer(<<AAAAOf(At(12), 9), SignatureOf(At(12), Whole, 128)>>,
           <<NS(Zone, n1)>>, <<A(At(34), 1), OPT>>),
    Answer(<<AAAAOf(At(12), 9), SignatureOf(At(12), Root, 3)>>, <<>>, <<>>),
    Answer(<<AAAAOf(At(12), 9)>>, <<>>, <<OPT>>),
    Answer(<<AAAAOf(At(12), 9), AAAAOf(At(12), 8)>>, <<NS(Zone, n1)>>, <<OPT>>),
    Answer(<<CNAME(At(12), n1), AAAAOf(At(34), 9)>>, <<>>, <<OPT>>),
    Answer(<<>>, <<NS(Zone, n1)>>, <<OPT>>),
    Reply(1, 3, <<>>, <<NS(Zone, n1)>>, <<OPT>>),
    Reply(0, 3, <<>>, <<NS(Zone, n1)>>, <<>>),
    Reply(0, 2, <<>>, <<>>, <<OPT>>),
    FormatError}
=============================================================================
