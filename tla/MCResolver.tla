----------------------------- MODULE MCResolver -----------------------------
(* Three servers, two of them roots, and every world they can make up with *)
(* lists of at most two servers.                                           *)
EXTENDS Resolver
CONSTANTS r1, r2, s

Roots == <<r1, r2>>
Of(kinds) == [kind : kinds, list : {<<>>}]
Referrals == [kind : {"referral"},
              list : {<<>>} \cup {<<x>> : x \in Servers} \cup {<<x, y>> : x, y \in Servers}]
AllReplies == Referrals \cup Of({"answer", "no such name", "format", "other", "silent"})
=============================================================================
