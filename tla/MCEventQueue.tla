---------------------------- MODULE MCEventQueue ----------------------------
(* EventQueue for TLC: one event of every kind. *)
EXTENDS EventQueue

MCEvents == [kind : Kinds]
=============================================================================
