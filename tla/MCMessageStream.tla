-------------------------- MODULE MCMessageStream --------------------------
(* Bytes of four values, so that a long of eight of them is a number TLC   *)
(* can hold; values at the ends of their types, a NUL within a string.     *)
EXTENDS MessageStream

Classes == <<"data", "row">>
Traffic == << [class |-> "row", long |-> -32768, short |-> 7],
              [class |-> "data", map |-> << <<-1, <<3, 0, 2>>>>, <<5, <<>>>> >>],
              [class |-> "row", long |-> 32767, short |-> -8] >>
=============================================================================
