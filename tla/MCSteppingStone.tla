--------------------------- MODULE MCSteppingStone ---------------------------
(* Chains, files and directories for TLC.  In the repository's             *)
(* chaingang.txt two stones are on one host; each has a directory of its   *)
(* own here, without which FileIsTheOneAskedFor does not hold.             *)
EXTENDS SteppingStone, TLC
CONSTANTS a, b, c, q1, q2

Setting(one, two, size1, size2, kills, entire) ==
    [chain |-> (q1 :> one) @@ (q2 :> two), size |-> (q1 :> size1) @@ (q2 :> size2),
     crashes |-> kills, whole |-> entire]
RoutesThatMeet == Setting(<<a, b, a>>, <<b>>, 1, 2, 0, TRUE)   \* a stone named twice
OneKilled == Setting(<<a, b>>, <<b>>, 1, 0, 1, TRUE)             \* and an empty file
ListsInParts == Setting(<<a, b, a>>, <<c>>, 1, 1, 0, FALSE)      \* a stone not running

ManySettings == {RoutesThatMeet, OneKilled, ListsInParts}
OwnDirs == [t \in Stones |-> t]
=============================================================================
